--------------------------- MODULE DonationVault ---------------------------
(***************************************************************************)
(* The escrow contract of contracts/donation_vault/src/lib.rs: campaigns   *)
(* whose donations are locked in one token pool, released milestone by     *)
(* milestone by the admin, paused by the admin or by the donors' weighted  *)
(* vote, and clawed back to the donors once the vote carries.              *)
(*                                                                         *)
(* One action is one contract invocation.  An invocation that panics (an   *)
(* assert!, an expect, a failed token transfer) rolls back every write, so *)
(* it is the absence of a step: each assert! is a conjunct of the guard.   *)
(* Authorisation is not modelled: an action is taken by the party whose    *)
(* signature the code requires (the admin, the organiser, the donor).      *)
(*                                                                         *)
(* Just before some definitions stands a broken variant that no action     *)
(* uses (EqualShare, MayVoteAgain, ...): the property PROJECT.json names   *)
(* with it must fail when the variant takes the definition's place.        *)
(***************************************************************************)
EXTENDS Integers, Sequences, FiniteSets, Functions

CONSTANTS
    Donors,          \* addresses that donate
    Recipients,      \* addresses milestones pay (they may be donors too)
    Vault,           \* env.current_contract_address()
    MaxCampaigns,    \* bound: how many campaign ids are ever handed out
    MilestonePlans,  \* the milestone vectors an organiser may submit
    DepositAmounts,  \* the amounts a donor may try to deposit
    InitialFunds     \* the tokens each donor starts with

Accounts    == Donors \cup Recipients \cup {Vault}
CampaignIds == 0 .. (MaxCampaigns - 1)

\* One submitted milestone: milestone_amounts[i] is an unchecked i128, so it
\* may be zero or negative.
MilestoneInput == [amount : Int, recipient : Recipients]

ASSUME VaultAssumption ==
    /\ Vault \notin Donors \cup Recipients
    /\ IsFiniteSet(Donors)
    /\ MaxCampaigns \in Nat
    /\ MilestonePlans \subseteq Seq(MilestoneInput)
    /\ DepositAmounts \subseteq Int
    /\ InitialFunds \in [Donors -> Nat]

PAUSE_THRESHOLD_PCT == 60

VARIABLES
    initialized,    \* DataKey::Admin and DataKey::Token are set
    campaignCount,  \* DataKey::CampaignCount
    created,        \* the ids with a DataKey::Campaign entry
    campaign,       \* DataKey::Campaign
    milestone,      \* DataKey::Milestone, a sequence per campaign
    deposits,       \* DataKey::DonorDeposit
    donorList,      \* DataKey::DonorList
    voters,         \* the donors whose DataKey::PauseVote is set
    balance,        \* the token contract's balances
    refunded        \* history: what a clawback paid each donor

vars == <<initialized, campaignCount, created, campaign, milestone, deposits,
          donorList, voters, balance, refunded>>

MilestoneStatus == {"Pending", "Verified", "Released"}

Milestone == [amount : Int, recipient : Recipients, status : MilestoneStatus]

Campaign == [total_deposited   : Nat,
             total_released    : Nat,
             current_milestone : Nat,
             paused            : BOOLEAN,
             pause_vote_weight : Int,
             clawback_executed : BOOLEAN]

NewCampaign == [total_deposited   |-> 0,
                total_released    |-> 0,
                current_milestone |-> 0,
                paused            |-> FALSE,
                pause_vote_weight |-> 0,
                clawback_executed |-> FALSE]

EmptyStorage ==
    /\ campaignCount = 0
    /\ created = {}
    /\ campaign = [c \in CampaignIds |-> NewCampaign]
    /\ milestone = [c \in CampaignIds |-> <<>>]
    /\ deposits = [c \in CampaignIds |-> [d \in Donors |-> 0]]
    /\ donorList = [c \in CampaignIds |-> <<>>]
    /\ voters = [c \in CampaignIds |-> {}]
    /\ balance = [a \in Accounts |-> IF a \in Donors THEN InitialFunds[a] ELSE 0]
    /\ refunded = [c \in CampaignIds |-> [d \in Donors |-> 0]]

\* The contract as it is deployed: nobody has called it yet.
Init == initialized = FALSE /\ EmptyStorage

\* The contract as it is meant to be deployed: initialize was the first call.
DeployedInit == initialized = TRUE /\ EmptyStorage

-----------------------------------------------------------------------------
(* The token contract, as token::Client uses it. *)

\* transfer refuses a negative amount and an amount the sender does not hold.
CanTransfer(from, amount) == amount >= 0 /\ balance[from] >= amount

Transfer(from, to, amount) ==
    [balance EXCEPT ![from] = @ - amount, ![to] = @ + amount]

-----------------------------------------------------------------------------
(* Contract state read by several invocations. *)

\* The milestone current_milestone indexes (Rust counts from 0).
CurrentIndex(c) == campaign[c].current_milestone + 1

HasCurrentMilestone(c) ==
    campaign[c].current_milestone < Len(milestone[c])

ThresholdMet(k) ==
    /\ k.total_deposited > 0
    /\ k.pause_vote_weight * 100 >= k.total_deposited * PAUSE_THRESHOLD_PCT

BelowThreshold(k) ==
    /\ k.total_deposited > 0
    /\ k.pause_vote_weight * 100 < k.total_deposited * PAUSE_THRESHOLD_PCT

Remaining(c) == campaign[c].total_deposited - campaign[c].total_released

EqualShare(c, d) == Remaining(c) \div Len(donorList[c])

\* One donor's share of what is left, rounded down.
Refund(c, d) ==
    (deposits[c][d] * Remaining(c)) \div campaign[c].total_deposited

\* The clawback pays once per occurrence in the donor list.
Occurrences(c, d) == {i \in DOMAIN donorList[c] : donorList[c][i] = d}

RefundTo(c, d) == Refund(c, d) * Cardinality(Occurrences(c, d))

RefundAll(c) == Remaining(c)

RefundTotal(c) ==
    SumFunction([i \in DOMAIN donorList[c] |-> Refund(c, donorList[c][i])])

-----------------------------------------------------------------------------
(* The invocations. *)

InitializeAgain ==
    /\ initialized' = TRUE
    /\ campaignCount' = 0
    /\ UNCHANGED <<created, campaign, milestone, deposits, donorList, voters,
                   balance, refunded>>

Initialize ==
    /\ ~initialized
    /\ initialized' = TRUE
    /\ campaignCount' = 0
    /\ UNCHANGED <<created, campaign, milestone, deposits, donorList, voters,
                   balance, refunded>>

\* Needs neither the admin nor an initialized contract: before Initialize the
\* missing count reads as 0.
CreateCampaign(plan) ==
    /\ Len(plan) > 0
    /\ campaignCount < MaxCampaigns
    /\ created' = created \cup {campaignCount}
    /\ campaign' = [campaign EXCEPT ![campaignCount] = NewCampaign]
    /\ milestone' = [milestone EXCEPT ![campaignCount] =
                       [i \in 1 .. Len(plan) |->
                          [amount    |-> plan[i].amount,
                           recipient |-> plan[i].recipient,
                           status    |-> "Pending"]]]
    /\ campaignCount' = campaignCount + 1
    /\ UNCHANGED <<initialized, deposits, donorList, voters, balance, refunded>>

OpenIfUnpaused(c) ==
    /\ c \in created
    /\ ~campaign[c].paused

OpenForDeposits(c) ==
    /\ c \in created
    /\ ~campaign[c].paused
    /\ ~campaign[c].clawback_executed

ListEveryDeposit(c, d) == [donorList EXCEPT ![c] = Append(@, d)]

\* A donor is listed with the first deposit only.
ListDonor(c, d) ==
    IF deposits[c][d] = 0
    THEN [donorList EXCEPT ![c] = Append(@, d)]
    ELSE donorList

Deposit(c, d, amount) ==
    /\ amount > 0
    /\ OpenForDeposits(c)
    /\ initialized
    /\ CanTransfer(d, amount)
    /\ balance' = Transfer(d, Vault, amount)
    /\ donorList' = ListDonor(c, d)
    /\ deposits' = [deposits EXCEPT ![c][d] = @ + amount]
    /\ campaign' = [campaign EXCEPT ![c].total_deposited = @ + amount]
    /\ UNCHANGED <<initialized, campaignCount, created, milestone, voters, refunded>>

VerifyMilestone(c) ==
    /\ initialized
    /\ c \in created
    /\ ~campaign[c].paused
    /\ HasCurrentMilestone(c)
    /\ milestone[c][CurrentIndex(c)].status = "Pending"
    /\ milestone' = [milestone EXCEPT ![c][CurrentIndex(c)].status = "Verified"]
    /\ UNCHANGED <<initialized, campaignCount, created, campaign, deposits,
                   donorList, voters, balance, refunded>>

ReleasableWhilePaused(c) ==
    /\ c \in created
    /\ HasCurrentMilestone(c)
    /\ milestone[c][CurrentIndex(c)].status = "Verified"

Releasable(c) ==
    /\ c \in created
    /\ ~campaign[c].paused
    /\ HasCurrentMilestone(c)
    /\ milestone[c][CurrentIndex(c)].status = "Verified"

ReleasedInPlace(k, amount) == [k EXCEPT !.total_released = @ + amount]

ReleasedUncounted(k, amount) == [k EXCEPT !.current_milestone = @ + 1]

\* A campaign's record after a milestone of this amount was paid.
Released(k, amount) ==
    [k EXCEPT !.total_released = @ + amount, !.current_milestone = @ + 1]

\* Neither the campaign's own total_deposited nor clawback_executed is looked
\* at: the pool of every campaign pays.
ReleaseMilestone(c) ==
    LET m == milestone[c][CurrentIndex(c)] IN
    /\ initialized
    /\ Releasable(c)
    /\ CanTransfer(Vault, m.amount)
    /\ balance' = Transfer(Vault, m.recipient, m.amount)
    /\ milestone' = [milestone EXCEPT ![c][CurrentIndex(c)].status = "Released"]
    /\ campaign' = [campaign EXCEPT ![c] = Released(@, m.amount)]
    /\ UNCHANGED <<initialized, campaignCount, created, deposits, donorList,
                   voters, refunded>>

SetPaused(c, flag) ==
    /\ initialized
    /\ c \in created
    /\ campaign' = [campaign EXCEPT ![c].paused = flag]
    /\ UNCHANGED <<initialized, campaignCount, created, milestone, deposits,
                   donorList, voters, balance, refunded>>

PauseCampaign(c)   == SetPaused(c, TRUE)
UnpauseCampaign(c) == SetPaused(c, FALSE)

MayVoteAgain(c, d) ==
    /\ c \in created
    /\ ~campaign[c].clawback_executed
    /\ deposits[c][d] > 0

MayVote(c, d) ==
    /\ c \in created
    /\ ~campaign[c].clawback_executed
    /\ deposits[c][d] > 0
    /\ d \notin voters[c]

VotePause(c, d) ==
    LET counted == [campaign[c] EXCEPT !.pause_vote_weight = @ + deposits[c][d]]
    IN
    /\ MayVote(c, d)
    /\ voters' = [voters EXCEPT ![c] = @ \cup {d}]
    /\ campaign' = [campaign EXCEPT ![c] =
                      IF ThresholdMet(counted)
                      THEN [counted EXCEPT !.paused = TRUE]
                      ELSE counted]
    /\ UNCHANGED <<initialized, campaignCount, created, milestone, deposits,
                   donorList, balance, refunded>>

\* The weight subtracted is the donor's deposit now, not the one voted with.
RevokeVote(c, d) ==
    LET counted == [campaign[c] EXCEPT !.pause_vote_weight = @ - deposits[c][d]]
    IN
    /\ c \in created
    /\ ~campaign[c].clawback_executed
    /\ d \in voters[c]
    /\ voters' = [voters EXCEPT ![c] = @ \ {d}]
    /\ campaign' = [campaign EXCEPT ![c] =
                      IF BelowThreshold(counted)
                      THEN [counted EXCEPT !.paused = FALSE]
                      ELSE counted]
    /\ UNCHANGED <<initialized, campaignCount, created, milestone, deposits,
                   donorList, balance, refunded>>

ClawbackUnpaused(c) ==
    /\ c \in created
    /\ ~campaign[c].clawback_executed
    /\ ThresholdMet(campaign[c])
    /\ Remaining(c) > 0

\* What execute_clawback asserts before it pays anybody.
ClawbackAllowed(c) ==
    /\ c \in created
    /\ campaign[c].paused
    /\ ~campaign[c].clawback_executed
    /\ ThresholdMet(campaign[c])
    /\ Remaining(c) > 0

\* The transfers are all made or, if the pool runs out, all rolled back.
ExecuteClawback(c) ==
    /\ ClawbackAllowed(c)
    /\ \E total \in 0 .. balance[Vault] :
          /\ total = RefundTotal(c)
          /\ balance' = [a \in Accounts |->
                           IF a = Vault THEN balance[a] - total
                           ELSE IF a \in Donors THEN balance[a] + RefundTo(c, a)
                           ELSE balance[a]]
    /\ refunded' = [refunded EXCEPT ![c] =
                      [d \in Donors |-> refunded[c][d] + RefundTo(c, d)]]
    /\ campaign' = [campaign EXCEPT ![c].clawback_executed = TRUE]
    /\ UNCHANGED <<initialized, campaignCount, created, milestone, deposits,
                   donorList, voters>>

Next ==
    \/ Initialize
    \/ \E plan \in MilestonePlans : CreateCampaign(plan)
    \/ \E c \in CampaignIds :
          \/ \E d \in Donors, amount \in DepositAmounts : Deposit(c, d, amount)
          \/ VerifyMilestone(c)
          \/ ReleaseMilestone(c)
          \/ PauseCampaign(c)
          \/ UnpauseCampaign(c)
          \/ \E d \in Donors : VotePause(c, d)
          \/ \E d \in Donors : RevokeVote(c, d)
          \/ ExecuteClawback(c)

Spec         == Init /\ [][Next]_vars
DeployedSpec == DeployedInit /\ [][Next]_vars

-----------------------------------------------------------------------------
(* Properties. *)

Sum(f) == SumFunction(f)

VoterDeposits(c) == SumFunctionOnSet(deposits[c], voters[c])

\* Every storage entry and balance has its declared shape, and the vault and
\* every account stay non-negative.
TypeOK ==
    /\ initialized \in BOOLEAN
    /\ campaignCount \in 0 .. MaxCampaigns
    /\ created \subseteq CampaignIds
    /\ campaign \in [CampaignIds -> Campaign]
    /\ milestone \in [CampaignIds -> Seq(Milestone)]
    /\ deposits \in [CampaignIds -> [Donors -> Nat]]
    /\ donorList \in [CampaignIds -> Seq(Donors)]
    /\ voters \in [CampaignIds -> SUBSET Donors]
    /\ balance \in [Accounts -> Nat]
    /\ refunded \in [CampaignIds -> [Donors -> Nat]]

\* The list execute_clawback walks names each donor who has a deposit exactly
\* once, so nobody is left out of a refund and nobody is paid twice.
DonorListExact ==
    \A c \in CampaignIds :
        /\ Range(donorList[c]) = {d \in Donors : deposits[c][d] > 0}
        /\ \A i, j \in DOMAIN donorList[c] :
              donorList[c][i] = donorList[c][j] => i = j

\* Milestones are released strictly in order: all before the current one are
\* Released, none from the current one on is, and only the current one can be
\* Verified.
MilestonesInOrder ==
    \A c \in CampaignIds :
        LET current == campaign[c].current_milestone
        IN  /\ current <= Len(milestone[c])
            /\ \A i \in DOMAIN milestone[c] :
                  /\ milestone[c][i].status = "Released" <=> i <= current
                  /\ milestone[c][i].status = "Verified" => i = current + 1

\* The counters of a campaign are the sums of what they summarise: the
\* deposits of its donors and the amounts of its released milestones.
TotalsAgree ==
    \A c \in CampaignIds :
        /\ campaign[c].total_deposited = Sum(deposits[c])
        /\ campaign[c].total_released =
              Sum([i \in 1 .. campaign[c].current_milestone
                      |-> milestone[c][i].amount])

\* The vault holds exactly what was deposited into all campaigns less what
\* they released and refunded: no invocation loses or invents a token.
PoolAccounts ==
    balance[Vault] =
        Sum([c \in CampaignIds |-> Remaining(c) - Sum(refunded[c])])

\* A clawback went through only against donors who own at least 60% of what
\* was deposited, however often donors voted, deposited and revoked before.
ClawbackHasMajority ==
    \A c \in CampaignIds :
        campaign[c].clawback_executed =>
            VoterDeposits(c) * 100
                >= campaign[c].total_deposited * PAUSE_THRESHOLD_PCT

\* No donor gets back more than was deposited, and a larger deposit never
\* gets a smaller refund.
RefundsFair ==
    \A c \in CampaignIds : \A d, e \in Donors :
        /\ refunded[c][d] <= deposits[c][d]
        /\ deposits[c][d] <= deposits[c][e] => refunded[c][d] <= refunded[c][e]

\* Once a clawback has run, no later call reopens the campaign's accounts:
\* its deposits, votes and refunds are settled for good.
ClawbackIsFinal ==
    [][\A c \in CampaignIds :
          campaign[c].clawback_executed =>
              /\ campaign'[c].clawback_executed
              /\ campaign'[c].total_deposited = campaign[c].total_deposited
              /\ campaign'[c].pause_vote_weight = campaign[c].pause_vote_weight
              /\ deposits'[c] = deposits[c]
              /\ voters'[c] = voters[c]
              /\ refunded'[c] = refunded[c]]_vars

\* Tokens leave the vault in two ways only: for the verified current milestone
\* of a campaign that is not paused, for its amount; or in the first clawback
\* of a paused campaign, for all that remains less rounding (under one unit per
\* donor).
PayoutsAreEarned ==
    [][balance'[Vault] < balance[Vault] =>
          LET out == balance[Vault] - balance'[Vault]
          IN \E c \in created :
               \/ /\ ~campaign[c].paused
                  /\ HasCurrentMilestone(c)
                  /\ milestone[c][CurrentIndex(c)].status = "Verified"
                  /\ milestone'[c][CurrentIndex(c)].status = "Released"
                  /\ out = milestone[c][CurrentIndex(c)].amount
                  /\ UNCHANGED refunded
               \/ /\ campaign[c].paused
                  /\ ~campaign[c].clawback_executed
                  /\ campaign'[c].clawback_executed
                  /\ out <= Remaining(c)
                  /\ out > Remaining(c) - Cardinality(Range(donorList[c]))]_vars

\* A campaign's money counters, its milestone position and its clawback flag
\* never go back: a campaign id is not handed out twice.
ProgressNeverReset ==
    [][\A c \in CampaignIds :
          /\ campaign'[c].total_deposited >= campaign[c].total_deposited
          /\ campaign'[c].total_released >= campaign[c].total_released
          /\ campaign'[c].current_milestone >= campaign[c].current_milestone
          /\ campaign[c].clawback_executed => campaign'[c].clawback_executed]_vars

-----------------------------------------------------------------------------
(* What the comments of the contract and the README say, and the code does   *)
(* not always do.                                                            *)

\* "Vote weight = donor's total deposited amount."
VoteWeightIsDeposits ==
    \A c \in CampaignIds : campaign[c].pause_vote_weight = VoterDeposits(c)

\* "Lift the donor-driven pause if weight drops below threshold": a revoked
\* vote lifts a pause only if the votes had been enough to cause it.
OnlyDonorPauseLifted ==
    [][\A c \in CampaignIds :
          (/\ campaign[c].paused
           /\ ~campaign'[c].paused
           /\ voters'[c] # voters[c]) => ThresholdMet(campaign[c])]_vars

\* "refund remaining unspent funds": a campaign that was clawed back has spent
\* and refunded no more than was deposited into it.
ClawedBackWithinDeposits ==
    \A c \in CampaignIds :
        campaign[c].clawback_executed =>
            campaign[c].total_released + Sum(refunded[c])
                <= campaign[c].total_deposited
=============================================================================
