-------------------------- MODULE DonorWalletProofs --------------------------
(***************************************************************************)
(* What DonorWallet keeps true for every set of pages and attempts.        *)
(*                                                                         *)
(* RecordedIsPaid and LostOnlyWhenTold are not inductive: what LINGAP will *)
(* accept is on its way in inbox, and what will land is in horizon, while  *)
(* the page that sent it may be long gone.  Inv therefore says of both,    *)
(* and of every handler, what the two properties say of their outcome.     *)
(***************************************************************************)
EXTENDS DonorWallet, FiniteSetTheorems, TLAPS

Busy(p) == step[p] \notin {"idle", "connecting"}

\* A handler that is past its guards works on an attempt of its own page.
OwnAttempt ==
    \A p \in Pages : Busy(p) => attempt[p] \in Attempts /\ owner[attempt[p]] = p

\* It tells LINGAP of a payment only when that has landed.
SentIsPaid ==
    \A p \in Pages :
        step[p] = "recording" /\ Via[p] # "balance" => attempt[p] \in landed

\* So does what is on its way to LINGAP, or there.
RowsArePaid ==
    \A k \in inbox \cup (donations \cap Attempts) \cup credited :
        owner[k] \in Pages /\ (Via[owner[k]] # "balance" => k \in landed)

Seen(k) == AtWork(k) \/ k \in told \/ k \in closed

\* What has landed, or may still land, is known or seen.
PaymentsAreSeen == \A k \in landed \cup horizon : Known(k) \/ Seen(k)

Inv ==
    /\ TypeOK
    /\ OwnAttempt
    /\ SentIsPaid
    /\ RowsArePaid
    /\ PaymentsAreSeen

LEMMA InitInv == Init => Inv
BY WalletAssumption
   DEF Init, Inv, TypeOK, Steps, OwnAttempt, Busy, SentIsPaid, RowsArePaid,
       PaymentsAreSeen

\* The length of the chain is a number.
LEMMA LandedNat == TypeOK => Cardinality(landed) + 1 \in Nat
<1> SUFFICES ASSUME TypeOK PROVE Cardinality(landed) \in Nat
    OBVIOUS
<1>1. IsFiniteSet(landed)
    BY WalletAssumption, FS_Subset DEF TypeOK
<1> QED
    BY <1>1, FS_CardinalityType

-----------------------------------------------------------------------------
(* Type correctness. *)

LEMMA TypeStep == TypeOK /\ OwnAttempt /\ [Next]_vars => TypeOK'
<1> SUFFICES ASSUME TypeOK, OwnAttempt, [Next]_vars PROVE TypeOK'
    OBVIOUS
<1> USE DEF TypeOK, Steps
<1>1. CASE UNCHANGED vars
    BY <1>1 DEF vars, hook, page, chain, rows, local
<1>2. ASSUME NEW p \in Pages, CheckWallet(p) \/ ConnectCard(p) PROVE TypeOK'
    BY <1>2 DEF CheckWallet, ConnectCard, GrantAccess, page, chain, rows, local
<1>3. ASSUME NEW p \in Pages, ConnectModal(p) \/ AnswerModal(p) PROVE TypeOK'
    BY <1>3 DEF ConnectModal, AnswerModal, GrantAccess, hook, chain, rows, local
<1>4. ASSUME NEW p \in Pages, NEW k \in Attempts,
             StartPayment(p, k) \/ DonateFromBalance(p, k)
      PROVE  TypeOK'
    BY <1>4 DEF StartPayment, DonateFromBalance, Start, hook, chain, rows, local
<1>5. ASSUME NEW p \in Pages, BuildPayment(p) PROVE TypeOK'
    <2>1. attempt[p] \in Attempts
        BY <1>5 DEF BuildPayment, OwnAttempt, Busy
    <2>2. Cardinality(landed) + 1 \in Nat
        BY LandedNat
    <2> QED
        BY <1>5, <2>1, <2>2 DEF BuildPayment, Goto, hook, rows, local
<1>6. ASSUME NEW p \in Pages, SignAndSubmit(p) \/ RecordPayment(p) PROVE TypeOK'
    <2>1. attempt[p] \in Attempts
        BY <1>6 DEF SignAndSubmit, RecordPayment, OwnAttempt, Busy
    <2> QED
        BY <1>6, <2>1
           DEF SignAndSubmit, RecordPayment, Goto, hook, chain, rows, local
<1>7. ASSUME NEW p \in Pages, NotSent(p) \/ NoAnswer(p) PROVE TypeOK'
    <2>1. attempt[p] \in Attempts
        BY <1>7 DEF NotSent, NoAnswer, OwnAttempt, Busy
    <2> QED
        BY <1>7, <2>1 DEF NotSent, NoAnswer, Fail, Goto, hook, chain, rows, local
<1>8. ASSUME NEW p \in Pages, Confirmed(p) \/ Refresh(p) PROVE TypeOK'
    BY <1>8 DEF Confirmed, Refresh, Goto, hook, chain, rows, local
<1>9. ASSUME NEW p \in Pages, CloseTab(p) PROVE TypeOK'
    <2>1. step[p] \notin {"idle", "connecting"} => attempt[p] \in Attempts
        BY DEF OwnAttempt, Busy
    <2> QED
        BY <1>9, <2>1 DEF CloseTab, chain, rows, local
<1>10. ASSUME NEW k \in Attempts, Apply(k) \/ Expire(k) PROVE TypeOK'
    BY <1>10 DEF Apply, Expire, browser, hook, page, rows, local
<1>11. ASSUME NEW k \in Attempts, AcceptDonation(k) \/ AcceptTopUp(k) \/ Refuse(k)
       PROVE  TypeOK'
    BY <1>11 DEF AcceptDonation, AcceptTopUp, Refuse, browser, hook, page, chain,
                 rows, local
<1>12. CASE OpenDashboard
    BY <1>12 DEF OpenDashboard, elsewhere, hook, page, chain
<1>13. ASSUME NEW h \in Old, Replay(h) \/ ReplayFails(h) PROVE TypeOK'
    BY <1>13 DEF Replay, ReplayFails, elsewhere, hook, page, chain
<1> QED
    BY <1>1, <1>2, <1>3, <1>4, <1>5, <1>6, <1>7, <1>8, <1>9, <1>10, <1>11, <1>12,
       <1>13
       DEF Next, Handler, Remote

-----------------------------------------------------------------------------
(* The handlers. *)

LEMMA OwnStep == TypeOK /\ OwnAttempt /\ [Next]_vars => OwnAttempt'
<1> SUFFICES ASSUME TypeOK, OwnAttempt, [Next]_vars PROVE OwnAttempt'
    OBVIOUS
<1> USE DEF TypeOK, Steps, OwnAttempt, Busy
<1>1. CASE UNCHANGED <<step, attempt, owner>>
    BY <1>1
<1>2. ASSUME NEW p \in Pages, NEW k \in Attempts,
             StartPayment(p, k) \/ DonateFromBalance(p, k)
      PROVE  OwnAttempt'
    <2> SUFFICES ASSUME NEW q \in Pages, Busy(q)'
                 PROVE  (attempt[q] \in Attempts /\ owner[attempt[q]] = q)'
        OBVIOUS
    <2>1. /\ owner[k] = None
          /\ owner' = [owner EXCEPT ![k] = p]
          /\ attempt' = [attempt EXCEPT ![p] = k]
        BY <1>2 DEF StartPayment, DonateFromBalance, Start
    <2>2. CASE q = p
        BY <2>1, <2>2
    <2>3. CASE q # p
        <3>1. step'[q] = step[q]
            BY <1>2, <2>3 DEF StartPayment, DonateFromBalance
        <3>2. attempt[q] \in Attempts /\ owner[attempt[q]] = q
            BY <3>1
        <3>3. attempt[q] # k
            BY <2>1, <3>2, WalletAssumption
        <3> QED
            BY <2>1, <2>3, <3>2, <3>3
    <2> QED
        BY <2>2, <2>3
<1>3. ASSUME NEW p \in Pages, ConnectModal(p) \/ AnswerModal(p) PROVE OwnAttempt'
    BY <1>3 DEF ConnectModal, AnswerModal
<1>4. ASSUME NEW p \in Pages, Handler(p), ~ AnswerModal(p) PROVE OwnAttempt'
    <2>1. step[p] \notin {"idle", "connecting"} /\ UNCHANGED <<attempt, owner>>
        BY <1>4 DEF Handler, BuildPayment, SignAndSubmit, NotSent, RecordPayment,
                    NoAnswer, Confirmed, Refresh, Fail, Goto
    <2>2. PICK s \in Steps : step' = [step EXCEPT ![p] = s]
        BY <1>4 DEF Handler, BuildPayment, SignAndSubmit, NotSent, RecordPayment,
                    NoAnswer, Confirmed, Refresh, Fail, Goto
    <2> QED
        BY <2>1, <2>2
<1>5. ASSUME NEW p \in Pages, CloseTab(p) PROVE OwnAttempt'
    BY <1>5 DEF CloseTab
<1> QED
    BY <1>1, <1>2, <1>3, <1>4, <1>5
       DEF Next, vars, page, browser, elsewhere, CheckWallet, ConnectCard, Handler,
           Remote, Apply, Expire, AcceptDonation, AcceptTopUp, Refuse,
           OpenDashboard, Replay, ReplayFails

-----------------------------------------------------------------------------
(* Recorded is paid. *)

\* Nothing that landed is taken back.
LEMMA LandedStays == [Next]_vars => landed \subseteq landed'
BY DEF Next, vars, Handler, Remote, page, chain, browser, elsewhere, CheckWallet,
       ConnectCard, ConnectModal, AnswerModal, StartPayment, DonateFromBalance,
       Start, BuildPayment, SignAndSubmit, NotSent, RecordPayment, NoAnswer,
       Confirmed, Refresh, Fail, Goto, CloseTab, Apply, Expire, AcceptDonation,
       AcceptTopUp, Refuse, OpenDashboard, Replay, ReplayFails

LEMMA SentStep ==
    TypeOK /\ OwnAttempt /\ SentIsPaid /\ [Next]_vars => SentIsPaid'
<1> SUFFICES ASSUME TypeOK, OwnAttempt, SentIsPaid, [Next]_vars,
                    NEW q \in Pages, step'[q] = "recording", Via[q] # "balance"
             PROVE  attempt'[q] \in landed'
    BY DEF SentIsPaid
<1> USE DEF TypeOK, Steps
<1>1. CASE step'[q] = step[q] /\ attempt'[q] = attempt[q]
    BY <1>1, LandedStays DEF SentIsPaid
<1>2. ASSUME NEW p \in Pages, NEW k \in Attempts,
             StartPayment(p, k) \/ DonateFromBalance(p, k)
      PROVE  attempt'[q] \in landed'
    BY <1>1, <1>2 DEF StartPayment, DonateFromBalance, Start
<1>3. ASSUME NEW p \in Pages, Handler(p) PROVE attempt'[q] \in landed'
    <2>1. CASE p # q
        BY <1>1, <1>3, <2>1
           DEF Handler, AnswerModal, BuildPayment, SignAndSubmit, NotSent,
               RecordPayment, NoAnswer, Confirmed, Refresh, Fail, Goto
    <2>2. CASE RecordPayment(p)
        BY <1>1, <2>2, LandedStays DEF RecordPayment, Goto
    <2>3. CASE p = q /\ ~ RecordPayment(p)
        BY <1>3, <2>3
           DEF Handler, AnswerModal, BuildPayment, SignAndSubmit, NotSent, NoAnswer,
               Confirmed, Refresh, Fail, Goto
    <2> QED
        BY <2>1, <2>2, <2>3
<1>4. ASSUME NEW p \in Pages, ConnectModal(p) \/ CloseTab(p)
      PROVE  attempt'[q] \in landed'
    BY <1>1, <1>4 DEF ConnectModal, CloseTab
<1> QED
    BY <1>1, <1>2, <1>3, <1>4
       DEF Next, vars, page, browser, elsewhere, CheckWallet, ConnectCard, Remote,
           Apply, Expire, AcceptDonation, AcceptTopUp, Refuse, OpenDashboard,
           Replay, ReplayFails

LEMMA RowsStep == Inv /\ [Next]_vars => RowsArePaid'
<1> SUFFICES ASSUME Inv, [Next]_vars,
                    NEW k \in (inbox \cup (donations \cap Attempts) \cup credited)'
             PROVE  owner'[k] \in Pages /\ (Via[owner'[k]] # "balance" => k \in landed')
    BY DEF RowsArePaid
<1> DEFINE Row(j) == owner[j] \in Pages /\ (Via[owner[j]] # "balance" => j \in landed)
<1> USE DEF Inv, TypeOK
<1>1. k \in Attempts
    BY TypeStep
<1>2. owner[k] \in Pages => owner'[k] = owner[k]
    BY <1>1, WalletAssumption
       DEF Next, vars, Handler, Remote, page, browser, elsewhere, CheckWallet,
           ConnectCard, ConnectModal, AnswerModal, StartPayment, DonateFromBalance,
           Start, BuildPayment, SignAndSubmit, NotSent, RecordPayment, NoAnswer,
           Confirmed, Refresh, Fail, Goto, CloseTab, Apply, Expire, AcceptDonation,
           AcceptTopUp, Refuse, OpenDashboard, Replay, ReplayFails
<1>3. Row(k) => Row(k)'
    BY <1>2, LandedStays
<1>4. CASE k \in inbox \cup (donations \cap Attempts) \cup credited
    BY <1>3, <1>4 DEF RowsArePaid
<1>5. ASSUME NEW p \in Pages, RecordPayment(p), k = attempt[p] PROVE Row(k)
    BY <1>5 DEF RecordPayment, OwnAttempt, Busy
<1>6. ASSUME NEW p \in Pages, DonateFromBalance(p, k) PROVE Row(k)'
    BY <1>1, <1>6 DEF DonateFromBalance, Start
<1>7. \/ k \in inbox \cup (donations \cap Attempts) \cup credited
      \/ \E p \in Pages : RecordPayment(p) /\ k = attempt[p]
      \/ \E p \in Pages : DonateFromBalance(p, k)
    <2>1. CASE UNCHANGED <<inbox, donations, credited>>
        BY <2>1
    <2>2. ASSUME NEW p \in Pages, NEW j \in Attempts, DonateFromBalance(p, j)
          PROVE  \/ k \in inbox \cup (donations \cap Attempts) \cup credited
                 \/ DonateFromBalance(p, k)
        BY <2>2 DEF DonateFromBalance, Start, rows
    <2>3. ASSUME NEW p \in Pages, RecordPayment(p)
          PROVE  \/ k \in inbox \cup (donations \cap Attempts) \cup credited
                 \/ k = attempt[p]
        BY <2>3 DEF RecordPayment, Goto, rows
    <2>4. ASSUME NEW j \in Attempts, AcceptDonation(j) \/ AcceptTopUp(j) \/ Refuse(j)
          PROVE  k \in inbox \cup (donations \cap Attempts) \cup credited
        BY <2>4, <1>1 DEF AcceptDonation, AcceptTopUp, Refuse, rows
    <2>5. ASSUME NEW h \in Old, Replay(h) \/ ReplayFails(h)
          PROVE  k \in inbox \cup (donations \cap Attempts) \cup credited
        BY <2>5, <1>1, WalletAssumption DEF Replay, ReplayFails, elsewhere
    <2> QED
        BY <2>1, <2>2, <2>3, <2>4, <2>5
           DEF Next, vars, rows, Handler, Remote, browser, elsewhere, CheckWallet,
               ConnectCard, ConnectModal, AnswerModal, StartPayment, Start,
               BuildPayment, SignAndSubmit, NotSent, NoAnswer, Confirmed, Refresh,
               Fail, Goto, CloseTab, Apply, Expire, OpenDashboard
<1> QED
    BY <1>3, <1>4, <1>5, <1>6, <1>7

-----------------------------------------------------------------------------
(* Nothing is lost behind a page that shows nothing. *)

\* An attempt that was seen stays seen, unless LINGAP knows it by then.
LEMMA SeenStays ==
    ASSUME Inv, [Next]_vars, NEW k \in Attempts, Seen(k)
    PROVE  Seen(k)' \/ Known(k)
<1> USE DEF Inv, TypeOK, Steps
<1>1. told \subseteq told' /\ closed \subseteq closed'
    BY DEF Next, vars, Handler, Remote, page, browser, elsewhere, CheckWallet,
           ConnectCard, ConnectModal, AnswerModal, StartPayment, DonateFromBalance,
           Start, BuildPayment, SignAndSubmit, NotSent, RecordPayment, NoAnswer,
           Confirmed, Refresh, Fail, Goto, CloseTab, Apply, Expire, AcceptDonation,
           AcceptTopUp, Refuse, OpenDashboard, Replay, ReplayFails
<1>2. CASE k \in told \cup closed
    BY <1>1, <1>2 DEF Seen
<1>3. ASSUME NEW p \in Pages, attempt[p] = k, step[p] \in {"submitting", "recording"}
      PROVE  Seen(k)' \/ Known(k)
    <2>1. CASE step'[p] = step[p] /\ attempt'[p] = k
        BY <1>3, <2>1 DEF Seen, AtWork
    <2>2. ASSUME NEW q \in Pages, Handler(q) PROVE Seen(k)' \/ Known(k)
        <3>1. CASE q # p
            BY <1>3, <2>1, <2>2, <3>1
               DEF Handler, AnswerModal, BuildPayment, SignAndSubmit, NotSent,
                   RecordPayment, NoAnswer, Confirmed, Refresh, Fail, Goto
        <3>2. CASE q = p /\ RecordPayment(p)
            BY <1>3, <3>2 DEF RecordPayment, Goto, Seen, AtWork
        <3>3. CASE q = p /\ NoAnswer(p)
            BY <1>3, <3>3 DEF NoAnswer, Fail, Seen
        <3>4. CASE q = p /\ Confirmed(p)
            BY <1>3, <3>4 DEF Confirmed
        <3> QED
            BY <1>3, <2>2, <3>1, <3>2, <3>3, <3>4
               DEF Handler, AnswerModal, BuildPayment, SignAndSubmit, NotSent, Refresh
    <2>3. ASSUME NEW q \in Pages, CloseTab(q) PROVE Seen(k)' \/ Known(k)
        BY <1>3, <2>1, <2>3 DEF CloseTab, Seen
    <2>4. ASSUME NEW q \in Pages, NEW j \in Attempts,
                 StartPayment(q, j) \/ DonateFromBalance(q, j)
          PROVE  Seen(k)' \/ Known(k)
        BY <1>3, <2>1, <2>4
           DEF StartPayment, DonateFromBalance, Start, Offered, DonateOffered,
               TopUpOffered
    <2>5. ASSUME NEW q \in Pages, ConnectModal(q) PROVE Seen(k)' \/ Known(k)
        BY <1>3, <2>1, <2>5 DEF ConnectModal, TopUpOffered
    <2> QED
        BY <1>3, <2>1, <2>2, <2>3, <2>4, <2>5
           DEF Next, vars, page, browser, elsewhere, CheckWallet, ConnectCard, Remote,
               Apply, Expire, AcceptDonation, AcceptTopUp, Refuse, OpenDashboard,
               Replay, ReplayFails
<1> QED
    BY <1>2, <1>3 DEF Seen, AtWork

LEMMA KnownStays == [Next]_vars => \A k : Known(k) => Known(k)'
BY DEF Known, Next, vars, rows, Handler, Remote, page, browser, elsewhere,
       CheckWallet, ConnectCard, ConnectModal, AnswerModal, StartPayment,
       DonateFromBalance, Start, BuildPayment, SignAndSubmit, NotSent,
       RecordPayment, NoAnswer, Confirmed, Refresh, Fail, Goto, CloseTab, Apply,
       Expire, AcceptDonation, AcceptTopUp, Refuse, OpenDashboard, Replay,
       ReplayFails

\* Only SignAndSubmit gives Horizon something, while the page is at work on it.
LEMMA PaymentsStep == Inv /\ [Next]_vars => PaymentsAreSeen'
<1> SUFFICES ASSUME Inv, [Next]_vars, NEW k \in (landed \cup horizon)'
             PROVE  Known(k)' \/ Seen(k)'
    BY DEF PaymentsAreSeen
<1> USE DEF Inv, TypeOK, Steps
<1>1. CASE k \in landed \cup horizon
    <2>1. k \in Attempts /\ (Known(k) \/ Seen(k))
        BY <1>1 DEF PaymentsAreSeen
    <2> QED
        BY <2>1, SeenStays, KnownStays
<1>2. ASSUME NEW p \in Pages, SignAndSubmit(p), k = attempt[p] PROVE Seen(k)'
    BY <1>2 DEF SignAndSubmit, Goto, Seen, AtWork
<1>3. k \in landed \cup horizon \/ \E p \in Pages : SignAndSubmit(p) /\ k = attempt[p]
    BY DEF Next, vars, Handler, Remote, chain, browser, elsewhere, CheckWallet,
           ConnectCard, ConnectModal, AnswerModal, StartPayment, DonateFromBalance,
           Start, BuildPayment, SignAndSubmit, NotSent, RecordPayment, NoAnswer,
           Confirmed, Refresh, Fail, Goto, CloseTab, Apply, Expire, AcceptDonation,
           AcceptTopUp, Refuse, OpenDashboard, Replay, ReplayFails
<1> QED
    BY <1>1, <1>2, <1>3

-----------------------------------------------------------------------------
(* The theorems. *)

LEMMA InvStep == Inv /\ [Next]_vars => Inv'
BY TypeStep, OwnStep, SentStep, RowsStep, PaymentsStep DEF Inv

LEMMA SpecInv == Spec => []Inv
BY InitInv, InvStep, PTL DEF Spec

\* Every part of the browser's state keeps its declared shape.
THEOREM WalletTypes == Spec => []TypeOK
<1>1. Inv => TypeOK
    BY DEF Inv
<1> QED
    BY <1>1, SpecInv, PTL

\* No row of LINGAP names a wallet payment that has not landed on Stellar.
THEOREM PaidBeforeRecorded == Spec => []RecordedIsPaid
<1>1. Inv => RecordedIsPaid
    BY DEF Inv, RowsArePaid, RecordedIsPaid, Known, ByWallet
<1> QED
    BY <1>1, SpecInv, PTL

\* A payment that landed is recorded, at work, reported to the donor, or its
\* tab was closed.
THEOREM NeverLostUnseen == Spec => []LostOnlyWhenTold
<1>1. Inv => LostOnlyWhenTold
    BY DEF Inv, PaymentsAreSeen, LostOnlyWhenTold, Seen
<1> QED
    BY <1>1, SpecInv, PTL

\* An item leaves localStorage only when LINGAP has it.
THEOREM ReplayKeepsItems == Spec => KeptUntilRecorded
<1>1. [Next]_vars => [pending \ pending' \subseteq donations']_vars
    BY DEF Next, vars, Handler, Remote, local, browser, elsewhere, CheckWallet,
           ConnectCard, ConnectModal, AnswerModal, StartPayment, DonateFromBalance,
           Start, BuildPayment, SignAndSubmit, NotSent, RecordPayment, NoAnswer,
           Confirmed, Refresh, Fail, Goto, CloseTab, Apply, Expire, AcceptDonation,
           AcceptTopUp, Refuse, OpenDashboard, Replay, ReplayFails
<1> QED
    BY <1>1, PTL DEF Spec, KeptUntilRecorded
=============================================================================
