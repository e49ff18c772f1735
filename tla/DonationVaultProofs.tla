------------------------ MODULE DonationVaultProofs ------------------------
(***************************************************************************)
(* What holds of DonationVault for every set of donors and recipients,     *)
(* every number of campaigns and every milestone plan: types, the donor    *)
(* list, the order of milestones, what a clawback settles, the sums that   *)
(* campaigns and the pool are accounted by, who is behind a clawback, what *)
(* leaves the vault, and that a deployed vault implements EscrowLifecycle. *)
(***************************************************************************)
EXTENDS VaultRefinement, FiniteSetTheorems, WellFoundedInduction, TLAPS

-----------------------------------------------------------------------------
(* Refund arithmetic. *)

\* Integer division of a natural by a positive divisor stays in the naturals.
LEMMA DivNat ==
    ASSUME NEW a \in Nat, NEW b \in Nat \ {0}
    PROVE  a \div b \in Nat
  OBVIOUS

\* A share n/total of something no larger than total is no larger than n.
LEMMA ShareBound ==
    ASSUME NEW n \in Nat, NEW rest \in Nat, NEW total \in Nat \ {0},
           rest <= total
    PROVE  (n * rest) \div total <= n
<1>1. n * rest <= n * total
  OBVIOUS
<1> QED
  BY <1>1

\* A larger deposit's share is no smaller.
LEMMA ShareMonotone ==
    ASSUME NEW m \in Nat, NEW n \in Nat, NEW rest \in Nat,
           NEW total \in Nat \ {0}, m <= n
    PROVE  (m * rest) \div total <= (n * rest) \div total
<1>1. m * rest <= n * rest
  OBVIOUS
<1> QED
  BY <1>1

\* While something remains to refund, every donor's refund is a natural.
LEMMA RefundNat ==
    ASSUME TypeOK, NEW c \in CampaignIds, NEW d \in Donors,
           campaign[c].total_deposited > 0, Remaining(c) > 0
    PROVE  Refund(c, d) \in Nat /\ RefundTo(c, d) \in Nat
<1>1. /\ deposits[c][d] \in Nat
      /\ Remaining(c) \in Nat
      /\ campaign[c].total_deposited \in Nat \ {0}
  BY DEF TypeOK, Campaign, Remaining
<1>2. deposits[c][d] * Remaining(c) \in Nat
  BY <1>1
<1>3. Refund(c, d) \in Nat
  BY <1>1, <1>2, DivNat DEF Refund
<1>4. Cardinality(Occurrences(c, d)) \in Nat
  <2>1. donorList[c] \in Seq(Donors)
    BY DEF TypeOK
  <2>2. DOMAIN donorList[c] = 1 .. Len(donorList[c]) /\ Len(donorList[c]) \in Nat
    BY <2>1
  <2>3. IsFiniteSet(DOMAIN donorList[c])
    BY <2>2, FS_Interval
  <2> QED
    BY <2>3, FS_Subset, FS_CardinalityType DEF Occurrences
<1> QED
  BY <1>3, <1>4 DEF RefundTo

-----------------------------------------------------------------------------
(* Type correctness. *)

LEMMA AccountsFacts ==
    /\ Vault \in Accounts
    /\ Donors \subseteq Accounts
    /\ Recipients \subseteq Accounts
    /\ Vault \notin Donors
  BY VaultAssumption DEF Accounts

\* A transfer the token contract accepts leaves every balance a natural.
LEMMA TransferType ==
    ASSUME balance \in [Accounts -> Nat], NEW from \in Accounts,
           NEW to \in Accounts, NEW amount \in Int, CanTransfer(from, amount)
    PROVE  Transfer(from, to, amount) \in [Accounts -> Nat]
  BY DEF CanTransfer, Transfer

\* The milestones create_campaign stores are well-formed.
LEMMA PlanType ==
    ASSUME NEW plan \in Seq(MilestoneInput)
    PROVE  [i \in 1 .. Len(plan) |->
              [amount    |-> plan[i].amount,
               recipient |-> plan[i].recipient,
               status    |-> "Pending"]] \in Seq(Milestone)
<1>1. \A i \in 1 .. Len(plan) : plan[i] \in MilestoneInput
  OBVIOUS
<1>2. \A i \in 1 .. Len(plan) :
         plan[i].amount \in Int /\ plan[i].recipient \in Recipients
  BY <1>1 DEF MilestoneInput
<1>3. \A i \in 1 .. Len(plan) :
         [amount    |-> plan[i].amount,
          recipient |-> plan[i].recipient,
          status    |-> "Pending"] \in Milestone
  BY <1>2 DEF Milestone, MilestoneStatus
<1>4. Len(plan) \in Nat
  OBVIOUS
<1> QED
  BY <1>3, <1>4

\* Advancing one milestone's status leaves a well-formed milestone sequence.
LEMMA StatusType ==
    ASSUME NEW s \in Seq(Milestone), NEW i \in DOMAIN s,
           NEW status \in MilestoneStatus
    PROVE  [s EXCEPT ![i].status = status] \in Seq(Milestone)
<1>1. s[i] \in Milestone
  OBVIOUS
<1>2. [s[i] EXCEPT !.status = status] \in Milestone
  BY <1>1 DEF Milestone
<1> QED
  BY <1>2

\* The types of a campaign's fields.
LEMMA CampaignFields ==
    ASSUME NEW k \in Campaign
    PROVE  /\ k.total_deposited \in Nat
           /\ k.total_released \in Nat
           /\ k.current_milestone \in Nat
           /\ k.pause_vote_weight \in Int
           /\ k.paused \in BOOLEAN
           /\ k.clawback_executed \in BOOLEAN
  BY DEF Campaign

LEMMA InitType == (Init \/ DeployedInit) => TypeOK
<1> SUFFICES ASSUME EmptyStorage, initialized \in BOOLEAN
             PROVE  TypeOK
  BY DEF Init, DeployedInit
<1>1. campaignCount \in 0 .. MaxCampaigns
  BY VaultAssumption DEF EmptyStorage
<1>2. campaign \in [CampaignIds -> Campaign]
  BY DEF EmptyStorage, Campaign, NewCampaign
<1>3. milestone \in [CampaignIds -> Seq(Milestone)]
  BY DEF EmptyStorage
<1>4. donorList \in [CampaignIds -> Seq(Donors)]
  BY DEF EmptyStorage
<1>5. balance \in [Accounts -> Nat]
  BY VaultAssumption DEF EmptyStorage, Accounts
<1> QED
  BY <1>1, <1>2, <1>3, <1>4, <1>5 DEF EmptyStorage, TypeOK

LEMMA NextType == TypeOK /\ [Next]_vars => TypeOK'
<1> SUFFICES ASSUME TypeOK, [Next]_vars
             PROVE  TypeOK'
  OBVIOUS
<1>a. campaign \in [CampaignIds -> Campaign]
  BY DEF TypeOK
<1>b. milestone \in [CampaignIds -> Seq(Milestone)]
  BY DEF TypeOK
<1>c. balance \in [Accounts -> Nat]
  BY DEF TypeOK
<1>d. /\ deposits \in [CampaignIds -> [Donors -> Nat]]
      /\ donorList \in [CampaignIds -> Seq(Donors)]
  BY DEF TypeOK
<1>e. refunded \in [CampaignIds -> [Donors -> Nat]]
  BY DEF TypeOK
<1>1. CASE Initialize
  BY <1>1, VaultAssumption DEF Initialize, TypeOK
<1>2. ASSUME NEW plan \in MilestonePlans, CreateCampaign(plan)
      PROVE  TypeOK'
  <2>1. plan \in Seq(MilestoneInput)
    BY VaultAssumption
  <2>2. milestone' \in [CampaignIds -> Seq(Milestone)]
    BY <1>2, <1>b, <2>1, PlanType DEF CreateCampaign
  <2>3. NewCampaign \in Campaign
    BY DEF NewCampaign, Campaign
  <2>4. campaign' \in [CampaignIds -> Campaign]
    BY <1>2, <1>a, <2>3 DEF CreateCampaign
  <2>5. campaignCount \in CampaignIds /\ campaignCount' \in 0 .. MaxCampaigns
    BY <1>2, VaultAssumption DEF CreateCampaign, CampaignIds, TypeOK
  <2> QED
    BY <1>2, <2>2, <2>4, <2>5 DEF CreateCampaign, TypeOK
<1>3. ASSUME NEW c \in CampaignIds, NEW d \in Donors,
             NEW amount \in DepositAmounts, Deposit(c, d, amount)
      PROVE  TypeOK'
  <2>1. amount \in Nat
    BY <1>3, VaultAssumption DEF Deposit
  <2>2. balance' \in [Accounts -> Nat]
    BY <1>3, <1>c, <2>1, AccountsFacts, TransferType DEF Deposit
  <2>3. donorList' \in [CampaignIds -> Seq(Donors)]
    BY <1>3, <1>d DEF Deposit, ListDonor
  <2>4. deposits' \in [CampaignIds -> [Donors -> Nat]]
    BY <1>3, <1>d, <2>1 DEF Deposit
  <2>5. campaign' \in [CampaignIds -> Campaign]
    BY <1>3, <1>a, <2>1 DEF Deposit, Campaign
  <2> QED
    BY <1>3, <2>2, <2>3, <2>4, <2>5 DEF Deposit, TypeOK
<1>4. ASSUME NEW c \in CampaignIds, VerifyMilestone(c)
      PROVE  TypeOK'
  <2>1. CurrentIndex(c) \in DOMAIN milestone[c]
    BY <1>4, <1>a, <1>b, CampaignFields
       DEF VerifyMilestone, HasCurrentMilestone, CurrentIndex
  <2>2. milestone' \in [CampaignIds -> Seq(Milestone)]
    BY <1>4, <1>b, <2>1, StatusType DEF VerifyMilestone, MilestoneStatus
  <2> QED
    BY <1>4, <2>2 DEF VerifyMilestone, TypeOK
<1>5. ASSUME NEW c \in CampaignIds, ReleaseMilestone(c)
      PROVE  TypeOK'
  <2> DEFINE m == milestone[c][CurrentIndex(c)]
  <2>1. CurrentIndex(c) \in DOMAIN milestone[c]
    BY <1>5, <1>a, <1>b, CampaignFields
       DEF ReleaseMilestone, Releasable, HasCurrentMilestone, CurrentIndex
  <2>2. m \in Milestone
    BY <1>b, <2>1
  <2>3. m.amount \in Nat /\ m.recipient \in Recipients
    BY <1>5, <2>2 DEF ReleaseMilestone, CanTransfer, Milestone
  <2>4. milestone' \in [CampaignIds -> Seq(Milestone)]
    BY <1>5, <1>b, <2>1, StatusType DEF ReleaseMilestone, MilestoneStatus
  <2>5. balance' \in [Accounts -> Nat]
    BY <1>5, <1>c, <2>3, AccountsFacts, TransferType DEF ReleaseMilestone
  <2>6. campaign' \in [CampaignIds -> Campaign]
    <3>1. /\ campaign[c].total_released + m.amount \in Nat
          /\ campaign[c].current_milestone + 1 \in Nat
      BY <1>a, <2>3, CampaignFields
    <3> QED
      BY <1>5, <1>a, <3>1 DEF ReleaseMilestone, Released, Campaign
  <2> QED
    BY <1>5, <2>4, <2>5, <2>6 DEF ReleaseMilestone, TypeOK
<1>6. ASSUME NEW c \in CampaignIds, NEW flag \in BOOLEAN, SetPaused(c, flag)
      PROVE  TypeOK'
  <2>1. campaign' \in [CampaignIds -> Campaign]
    BY <1>6, <1>a DEF SetPaused, Campaign
  <2> QED
    BY <1>6, <2>1 DEF SetPaused, TypeOK
<1>7. ASSUME NEW c \in CampaignIds, NEW d \in Donors, VotePause(c, d)
      PROVE  TypeOK'
  <2> DEFINE counted == [campaign[c] EXCEPT !.pause_vote_weight = @ + deposits[c][d]]
  <2>1. counted \in Campaign
    <3>1. campaign[c] \in Campaign /\ deposits[c][d] \in Nat
      BY <1>a, <1>d
    <3> QED
      BY <3>1 DEF Campaign
  <2>2. [counted EXCEPT !.paused = TRUE] \in Campaign
    BY <2>1 DEF Campaign
  <2>3. campaign' \in [CampaignIds -> Campaign]
    <3> HIDE DEF counted
    <3>1. campaign' = [campaign EXCEPT ![c] =
                         IF ThresholdMet(counted)
                         THEN [counted EXCEPT !.paused = TRUE]
                         ELSE counted]
      BY <1>7 DEF VotePause, counted
    <3> QED
      BY <1>a, <2>1, <2>2, <3>1
  <2> QED
    BY <1>7, <2>3 DEF VotePause, TypeOK
<1>8. ASSUME NEW c \in CampaignIds, NEW d \in Donors, RevokeVote(c, d)
      PROVE  TypeOK'
  <2> DEFINE counted == [campaign[c] EXCEPT !.pause_vote_weight = @ - deposits[c][d]]
  <2>1. counted \in Campaign
    <3>1. campaign[c] \in Campaign /\ deposits[c][d] \in Nat
      BY <1>a, <1>d
    <3> QED
      BY <3>1 DEF Campaign
  <2>2. [counted EXCEPT !.paused = FALSE] \in Campaign
    BY <2>1 DEF Campaign
  <2>3. campaign' \in [CampaignIds -> Campaign]
    <3> HIDE DEF counted
    <3>1. campaign' = [campaign EXCEPT ![c] =
                         IF BelowThreshold(counted)
                         THEN [counted EXCEPT !.paused = FALSE]
                         ELSE counted]
      BY <1>8 DEF RevokeVote, counted
    <3> QED
      BY <1>a, <2>1, <2>2, <3>1
  <2> QED
    BY <1>8, <2>3 DEF RevokeVote, TypeOK
<1>9. ASSUME NEW c \in CampaignIds, ExecuteClawback(c)
      PROVE  TypeOK'
  <2>1. \A d \in Donors : RefundTo(c, d) \in Nat
    BY <1>9, RefundNat DEF ExecuteClawback, ClawbackAllowed, ThresholdMet
  <2>2. balance' \in [Accounts -> Nat]
    BY <1>9, <1>c, <2>1, AccountsFacts DEF ExecuteClawback
  <2>3. refunded' \in [CampaignIds -> [Donors -> Nat]]
    BY <1>9, <1>e, <2>1 DEF ExecuteClawback
  <2>4. campaign' \in [CampaignIds -> Campaign]
    BY <1>9, <1>a DEF ExecuteClawback, Campaign
  <2> QED
    BY <1>9, <2>2, <2>3, <2>4 DEF ExecuteClawback, TypeOK
<1>10. CASE UNCHANGED vars
  BY <1>10 DEF vars, TypeOK
<1> QED
  BY <1>1, <1>2, <1>3, <1>4, <1>5, <1>6, <1>7, <1>8, <1>9, <1>10
     DEF Next, PauseCampaign, UnpauseCampaign

\* Storage and balances keep their types in every deployment; in particular
\* no invocation drives the vault's or anybody's balance below zero.
THEOREM TypeCorrect == Spec => []TypeOK
<1>1. Init => TypeOK
  BY InitType
<1> QED
  BY <1>1, NextType, PTL DEF Spec

-----------------------------------------------------------------------------
(* The donor list. *)

\* Appending a newcomer to a list of distinct elements adds just that element.
LEMMA AppendDistinct ==
    ASSUME NEW S, NEW s \in Seq(S), NEW e \in S, e \notin Range(s),
           \A i, j \in DOMAIN s : s[i] = s[j] => i = j
    PROVE  /\ Range(Append(s, e)) = Range(s) \cup {e}
           /\ \A i, j \in DOMAIN Append(s, e) :
                 Append(s, e)[i] = Append(s, e)[j] => i = j
<1> DEFINE t == Append(s, e)
<1>1. /\ Len(s) \in Nat
      /\ DOMAIN s = 1 .. Len(s)
      /\ DOMAIN t = 1 .. (Len(s) + 1)
      /\ \A i \in 1 .. Len(s) : t[i] = s[i]
      /\ t[Len(s) + 1] = e
  OBVIOUS
<1> HIDE DEF t
<1>2. Range(t) = Range(s) \cup {e}
  <2>1. ASSUME NEW x \in Range(t)
        PROVE  x \in Range(s) \cup {e}
    BY <1>1 DEF Range
  <2>2. ASSUME NEW x \in Range(s) \cup {e}
        PROVE  x \in Range(t)
    BY <1>1 DEF Range
  <2> QED
    BY <2>1, <2>2
<1>3. ASSUME NEW i \in DOMAIN t, NEW j \in DOMAIN t, t[i] = t[j]
      PROVE  i = j
  BY <1>1, <1>3 DEF Range
<1> QED
  BY <1>2, <1>3 DEF t

LEMMA InitDonorList == (Init \/ DeployedInit) => DonorListExact
  BY DEF Init, DeployedInit, EmptyStorage, DonorListExact, Range

\* Only a deposit changes what the donor list and the deposits say.
LEMMA NextDonorList == TypeOK /\ DonorListExact /\ [Next]_vars => DonorListExact'
<1> SUFFICES ASSUME TypeOK, DonorListExact, [Next]_vars
             PROVE  DonorListExact'
  OBVIOUS
<1>1. ASSUME NEW c \in CampaignIds, NEW d \in Donors,
             NEW amount \in DepositAmounts, Deposit(c, d, amount)
      PROVE  DonorListExact'
  <2>1. /\ donorList[c] \in Seq(Donors)
        /\ donorList \in [CampaignIds -> Seq(Donors)]
        /\ deposits \in [CampaignIds -> [Donors -> Nat]]
        /\ amount \in Nat /\ amount > 0
    BY <1>1, VaultAssumption DEF TypeOK, Deposit
  <2>2. /\ Range(donorList[c]) = {e \in Donors : deposits[c][e] > 0}
        /\ \A i, j \in DOMAIN donorList[c] :
              donorList[c][i] = donorList[c][j] => i = j
    BY DEF DonorListExact
  <2>3. \A x \in CampaignIds \ {c} :
           donorList'[x] = donorList[x] /\ deposits'[x] = deposits[x]
    BY <1>1, <2>1 DEF Deposit, ListDonor
  <2>4. \A e \in Donors :
           deposits'[c][e] = IF e = d THEN deposits[c][d] + amount
                                      ELSE deposits[c][e]
    BY <1>1, <2>1 DEF Deposit
  <2>5. {e \in Donors : deposits'[c][e] > 0}
           = {e \in Donors : deposits[c][e] > 0} \cup {d}
    BY <2>1, <2>4
  <2>6. CASE deposits[c][d] = 0
    <3>1. donorList'[c] = Append(donorList[c], d)
      BY <1>1, <2>1, <2>6 DEF Deposit, ListDonor
    <3>2. d \notin Range(donorList[c])
      BY <2>2, <2>6
    <3>3. /\ Range(donorList'[c]) = Range(donorList[c]) \cup {d}
          /\ \A i, j \in DOMAIN donorList'[c] :
                donorList'[c][i] = donorList'[c][j] => i = j
      BY <2>1, <2>2, <3>1, <3>2, AppendDistinct
    <3> QED
      BY <2>2, <2>3, <2>5, <3>3 DEF DonorListExact
  <2>7. CASE deposits[c][d] # 0
    <3>1. donorList'[c] = donorList[c] /\ deposits[c][d] > 0
      BY <1>1, <2>1, <2>7 DEF Deposit, ListDonor
    <3> QED
      BY <2>2, <2>3, <2>5, <3>1 DEF DonorListExact
  <2> QED
    BY <2>6, <2>7
<1>2. ASSUME UNCHANGED <<deposits, donorList>>
      PROVE  DonorListExact'
  BY <1>2 DEF DonorListExact
<1> QED
  BY <1>1, <1>2
     DEF Next, vars, Initialize, CreateCampaign, VerifyMilestone,
         ReleaseMilestone, PauseCampaign, UnpauseCampaign, SetPaused,
         VotePause, RevokeVote, ExecuteClawback

\* In every deployment the list a clawback walks names every donor with a
\* deposit, once.
THEOREM DonorListCorrect == Spec => []DonorListExact
<1>1. Init => TypeOK /\ DonorListExact
  BY InitType, InitDonorList
<1>2. TypeOK /\ DonorListExact /\ [Next]_vars => (TypeOK /\ DonorListExact)'
  BY NextType, NextDonorList
<1> QED
  BY <1>1, <1>2, PTL DEF Spec

-----------------------------------------------------------------------------
(* The order of milestones. *)

LEMMA InitOrder == (Init \/ DeployedInit) => MilestonesInOrder
  BY DEF Init, DeployedInit, EmptyStorage, MilestonesInOrder, NewCampaign

\* A step that leaves the milestones and every milestone position alone.
LEMMA OrderFrame ==
    ASSUME TypeOK, MilestonesInOrder, UNCHANGED milestone,
           \A c \in CampaignIds :
              campaign'[c].current_milestone = campaign[c].current_milestone
    PROVE  MilestonesInOrder'
  BY DEF MilestonesInOrder

LEMMA NextOrder == TypeOK /\ MilestonesInOrder /\ [Next]_vars => MilestonesInOrder'
<1> SUFFICES ASSUME TypeOK, MilestonesInOrder, [Next]_vars
             PROVE  MilestonesInOrder'
  OBVIOUS
<1>a. /\ campaign \in [CampaignIds -> Campaign]
      /\ milestone \in [CampaignIds -> Seq(Milestone)]
      /\ \A c \in CampaignIds : campaign[c].current_milestone \in Nat
      /\ \A c \in CampaignIds : Len(milestone[c]) \in Nat
      /\ \A c \in CampaignIds : DOMAIN milestone[c] = 1 .. Len(milestone[c])
  BY DEF TypeOK, Campaign
<1>1. ASSUME NEW plan \in MilestonePlans, CreateCampaign(plan)
      PROVE  MilestonesInOrder'
  <2> DEFINE id == campaignCount
  <2>1. plan \in Seq(MilestoneInput) /\ Len(plan) \in Nat
    BY VaultAssumption
  <2>2. \A c \in CampaignIds \ {id} :
           campaign'[c] = campaign[c] /\ milestone'[c] = milestone[c]
    BY <1>1, <1>a DEF CreateCampaign
  <2>3. id \in CampaignIds
    BY <1>1, VaultAssumption DEF CreateCampaign, CampaignIds, TypeOK
  <2>4. campaign'[id].current_milestone = 0
    BY <1>1, <1>a, <2>3 DEF CreateCampaign, NewCampaign
  <2>5. /\ DOMAIN milestone'[id] = 1 .. Len(plan)
        /\ Len(milestone'[id]) = Len(plan)
        /\ \A i \in 1 .. Len(plan) : milestone'[id][i].status = "Pending"
    BY <1>1, <1>a, <2>1, <2>3 DEF CreateCampaign
  <2> QED
    BY <2>1, <2>2, <2>4, <2>5 DEF MilestonesInOrder
<1>2. ASSUME NEW c \in CampaignIds, VerifyMilestone(c)
      PROVE  MilestonesInOrder'
  <2> DEFINE cur == CurrentIndex(c)
  <2>1. cur \in DOMAIN milestone[c] /\ cur = campaign[c].current_milestone + 1
    BY <1>2, <1>a DEF VerifyMilestone, HasCurrentMilestone, CurrentIndex
  <2>2. \A x \in CampaignIds \ {c} : milestone'[x] = milestone[x]
    BY <1>2, <1>a DEF VerifyMilestone
  <2>3. /\ DOMAIN milestone'[c] = DOMAIN milestone[c]
        /\ Len(milestone'[c]) = Len(milestone[c])
        /\ milestone'[c][cur].status = "Verified"
        /\ \A i \in DOMAIN milestone[c] \ {cur} : milestone'[c][i] = milestone[c][i]
    BY <1>2, <1>a, <2>1 DEF VerifyMilestone, Milestone
  <2>4. campaign' = campaign
    BY <1>2 DEF VerifyMilestone
  <2> HIDE DEF cur
  <2> DEFINE Ordered(x) ==
               /\ campaign[x].current_milestone <= Len(milestone[x])
               /\ \A i \in DOMAIN milestone[x] :
                     /\ milestone[x][i].status = "Released"
                           <=> i <= campaign[x].current_milestone
                     /\ milestone[x][i].status = "Verified"
                           => i = campaign[x].current_milestone + 1
  <2>5. \A x \in CampaignIds : Ordered(x)
    BY DEF MilestonesInOrder
  <2>6. \A x \in CampaignIds \ {c} : Ordered(x)'
    BY <2>2, <2>4, <2>5
  <2>7. Ordered(c)'
    <3>1. campaign[c].current_milestone \in Nat /\ Len(milestone[c]) \in Nat
      BY <1>a
    <3>2. Ordered(c)
      BY <2>5
    <3> QED
      BY <1>a, <2>1, <2>3, <2>4, <3>1, <3>2
  <2> QED
    BY <2>6, <2>7 DEF MilestonesInOrder
<1>3. ASSUME NEW c \in CampaignIds, ReleaseMilestone(c)
      PROVE  MilestonesInOrder'
  <2> DEFINE cur == CurrentIndex(c)
  <2>1. cur \in DOMAIN milestone[c] /\ cur = campaign[c].current_milestone + 1
    BY <1>3, <1>a DEF ReleaseMilestone, Releasable, HasCurrentMilestone, CurrentIndex
  <2>2. \A x \in CampaignIds \ {c} :
           milestone'[x] = milestone[x] /\ campaign'[x] = campaign[x]
    BY <1>3, <1>a DEF ReleaseMilestone
  <2>3. /\ DOMAIN milestone'[c] = DOMAIN milestone[c]
        /\ Len(milestone'[c]) = Len(milestone[c])
        /\ milestone'[c][cur].status = "Released"
        /\ \A i \in DOMAIN milestone[c] \ {cur} : milestone'[c][i] = milestone[c][i]
    BY <1>3, <1>a, <2>1 DEF ReleaseMilestone, Milestone
  <2>4. campaign'[c].current_milestone = campaign[c].current_milestone + 1
    BY <1>3, <1>a DEF ReleaseMilestone, Released, Campaign
  <2> HIDE DEF cur
  <2> DEFINE Ordered(x) ==
               /\ campaign[x].current_milestone <= Len(milestone[x])
               /\ \A i \in DOMAIN milestone[x] :
                     /\ milestone[x][i].status = "Released"
                           <=> i <= campaign[x].current_milestone
                     /\ milestone[x][i].status = "Verified"
                           => i = campaign[x].current_milestone + 1
  <2>5. \A x \in CampaignIds : Ordered(x)
    BY DEF MilestonesInOrder
  <2>6. \A x \in CampaignIds \ {c} : Ordered(x)'
    BY <2>2, <2>4, <2>5
  <2>7. Ordered(c)'
    <3>1. campaign[c].current_milestone \in Nat /\ Len(milestone[c]) \in Nat
      BY <1>a
    <3>2. Ordered(c)
      BY <2>5
    <3>3. campaign'[c].current_milestone <= Len(milestone'[c])
      BY <1>a, <2>1, <2>3, <2>4, <3>1
    <3>4. ASSUME NEW i \in DOMAIN milestone'[c]
          PROVE  /\ milestone'[c][i].status = "Released"
                       <=> i <= campaign'[c].current_milestone
                 /\ milestone'[c][i].status = "Verified"
                       => i = campaign'[c].current_milestone + 1
      <4>1. CASE i = cur
        BY <4>1, <2>1, <2>3, <2>4, <3>1
      <4>2. CASE i # cur
        BY <4>2, <1>a, <2>1, <2>3, <2>4, <3>1, <3>2
      <4> QED
        BY <4>1, <4>2
    <3> QED
      BY <3>3, <3>4
  <2> QED
    BY <2>6, <2>7 DEF MilestonesInOrder
<1>4. ASSUME NEW c \in CampaignIds, NEW d \in Donors, NEW amount \in DepositAmounts,
             Deposit(c, d, amount)
      PROVE  MilestonesInOrder'
  BY <1>4, <1>a, OrderFrame DEF Deposit, Campaign
<1>5. ASSUME NEW c \in CampaignIds, NEW flag \in BOOLEAN, SetPaused(c, flag)
      PROVE  MilestonesInOrder'
  BY <1>5, <1>a, OrderFrame DEF SetPaused, Campaign
<1>6. ASSUME NEW c \in CampaignIds, NEW d \in Donors,
             VotePause(c, d) \/ RevokeVote(c, d)
      PROVE  MilestonesInOrder'
  <2>1. campaign'[c].current_milestone = campaign[c].current_milestone
    <3>1. CASE VotePause(c, d)
      BY <3>1, <1>a DEF VotePause, Campaign
    <3>2. CASE RevokeVote(c, d)
      BY <3>2, <1>a DEF RevokeVote, Campaign
    <3> QED
      BY <1>6, <3>1, <3>2
  <2>2. UNCHANGED milestone /\ \A x \in CampaignIds \ {c} : campaign'[x] = campaign[x]
    BY <1>6, <1>a DEF VotePause, RevokeVote
  <2> QED
    BY <2>1, <2>2, OrderFrame
<1>7. ASSUME NEW c \in CampaignIds, ExecuteClawback(c)
      PROVE  MilestonesInOrder'
  BY <1>7, <1>a, OrderFrame DEF ExecuteClawback, Campaign
<1>8. CASE Initialize \/ UNCHANGED vars
  BY <1>8, OrderFrame DEF Initialize, vars
<1> QED
  BY <1>1, <1>2, <1>3, <1>4, <1>5, <1>6, <1>7, <1>8
     DEF Next, PauseCampaign, UnpauseCampaign

\* In every deployment milestones are verified and released one at a time and
\* in their order.
THEOREM MilestoneOrder == Spec => []MilestonesInOrder
<1>1. Init => TypeOK /\ MilestonesInOrder
  BY InitType, InitOrder
<1>2. TypeOK /\ MilestonesInOrder /\ [Next]_vars => (TypeOK /\ MilestonesInOrder)'
  BY NextType, NextOrder
<1> QED
  BY <1>1, <1>2, PTL DEF Spec

-----------------------------------------------------------------------------
(* A contract initialized before its first campaign. *)

\* What makes campaign ids safe once initialize ran first: every stored
\* campaign has an id below the count, so the next id is a fresh one.
IdsAreFresh ==
    /\ initialized
    /\ \A c \in created : c < campaignCount
    /\ \A c \in CampaignIds \ created :
          campaign[c] = NewCampaign /\ milestone[c] = <<>>

\* Before its clawback a campaign has refunded nothing.
RefundsOnlyByClawback ==
    \A c \in CampaignIds :
        ~campaign[c].clawback_executed => \A d \in Donors : refunded[c][d] = 0

DeployedInv == TypeOK /\ DonorListExact /\ IdsAreFresh

LEMMA InitDeployed == DeployedInit => DeployedInv /\ RefundsOnlyByClawback /\ RefundsFair
<1> SUFFICES ASSUME DeployedInit
             PROVE  IdsAreFresh /\ RefundsOnlyByClawback /\ RefundsFair
  BY InitType, InitDonorList DEF DeployedInv
<1> QED
  BY DEF DeployedInit, EmptyStorage, IdsAreFresh, RefundsOnlyByClawback,
         RefundsFair, NewCampaign

LEMMA NextDeployed == DeployedInv /\ [Next]_vars => DeployedInv'
<1> SUFFICES ASSUME DeployedInv, [Next]_vars
             PROVE  IdsAreFresh'
  BY NextType, NextDonorList DEF DeployedInv
<1>a. TypeOK /\ IdsAreFresh
  BY DEF DeployedInv
<1>b. /\ campaign \in [CampaignIds -> Campaign]
      /\ milestone \in [CampaignIds -> Seq(Milestone)]
      /\ campaignCount \in Nat
      /\ \A c \in CampaignIds : c \in Int
  BY <1>a, VaultAssumption DEF TypeOK, CampaignIds
<1>1. ASSUME NEW plan \in MilestonePlans, CreateCampaign(plan)
      PROVE  IdsAreFresh'
  <2>1. created' = created \cup {campaignCount}
    BY <1>1 DEF CreateCampaign
  <2>2. \A c \in CampaignIds \ {campaignCount} :
           campaign'[c] = campaign[c] /\ milestone'[c] = milestone[c]
    BY <1>1, <1>b DEF CreateCampaign
  <2>3. \A c \in created' : c < campaignCount'
    BY <1>1, <1>a, <1>b, <2>1 DEF CreateCampaign, IdsAreFresh, TypeOK
  <2> QED
    BY <1>1, <1>a, <2>1, <2>2, <2>3 DEF CreateCampaign, IdsAreFresh
<1>2. ASSUME NEW c \in created, UNCHANGED <<initialized, campaignCount, created>>,
             \A x \in CampaignIds \ {c} :
                campaign'[x] = campaign[x] /\ milestone'[x] = milestone[x]
      PROVE  IdsAreFresh'
  BY <1>2, <1>a DEF IdsAreFresh
<1>3. CASE UNCHANGED vars
  BY <1>3, <1>a DEF vars, IdsAreFresh
<1>4. ~Initialize
  BY <1>a DEF Initialize, IdsAreFresh
<1>5. ASSUME NEW c \in CampaignIds, NEW d \in Donors, NEW amount \in DepositAmounts,
             Deposit(c, d, amount)
      PROVE  IdsAreFresh'
  BY <1>5, <1>2, <1>b DEF Deposit, OpenForDeposits
<1>6. ASSUME NEW c \in CampaignIds, VerifyMilestone(c)
      PROVE  IdsAreFresh'
  BY <1>6, <1>2, <1>b DEF VerifyMilestone
<1>7. ASSUME NEW c \in CampaignIds, ReleaseMilestone(c)
      PROVE  IdsAreFresh'
  BY <1>7, <1>2, <1>b DEF ReleaseMilestone, Releasable
<1>8. ASSUME NEW c \in CampaignIds, NEW flag \in BOOLEAN, SetPaused(c, flag)
      PROVE  IdsAreFresh'
  BY <1>8, <1>2, <1>b DEF SetPaused
<1>9. ASSUME NEW c \in CampaignIds, NEW d \in Donors,
             VotePause(c, d) \/ RevokeVote(c, d)
      PROVE  IdsAreFresh'
  BY <1>9, <1>2, <1>b DEF VotePause, MayVote, RevokeVote
<1>10. ASSUME NEW c \in CampaignIds, ExecuteClawback(c)
       PROVE  IdsAreFresh'
  BY <1>10, <1>2, <1>b DEF ExecuteClawback, ClawbackAllowed
<1> QED
  BY <1>1, <1>3, <1>4, <1>5, <1>6, <1>7, <1>8, <1>9, <1>10
     DEF Next, PauseCampaign, UnpauseCampaign

\* A freshly created campaign takes an id under which nothing is stored yet.
LEMMA CreateIsFresh ==
    ASSUME DeployedInv, NEW plan \in MilestonePlans, CreateCampaign(plan)
    PROVE  /\ campaignCount \in CampaignIds \ created
           /\ campaign[campaignCount] = NewCampaign
           /\ campaign' = campaign
<1>1. campaignCount \in CampaignIds
  BY VaultAssumption DEF CreateCampaign, CampaignIds, DeployedInv, TypeOK
<1>2. campaignCount \notin created
  BY VaultAssumption DEF DeployedInv, IdsAreFresh, TypeOK
<1>3. campaign[campaignCount] = NewCampaign
  BY <1>1, <1>2 DEF DeployedInv, IdsAreFresh
<1> QED
  BY <1>1, <1>2, <1>3 DEF CreateCampaign, DeployedInv, TypeOK

\* No step of a deployed contract takes a campaign's counters back.
LEMMA NextProgress ==
    ASSUME DeployedInv, [Next]_vars, NEW x \in CampaignIds
    PROVE  /\ campaign'[x].total_deposited >= campaign[x].total_deposited
           /\ campaign'[x].total_released >= campaign[x].total_released
           /\ campaign'[x].current_milestone >= campaign[x].current_milestone
           /\ campaign[x].clawback_executed => campaign'[x].clawback_executed
<1> DEFINE Kept == /\ campaign'[x].total_deposited >= campaign[x].total_deposited
                   /\ campaign'[x].total_released >= campaign[x].total_released
                   /\ campaign'[x].current_milestone >= campaign[x].current_milestone
                   /\ campaign[x].clawback_executed => campaign'[x].clawback_executed
<1>a. campaign \in [CampaignIds -> Campaign] /\ campaign[x] \in Campaign
  BY DEF DeployedInv, TypeOK
<1>b. /\ campaign[x].total_deposited \in Nat
      /\ campaign[x].total_released \in Nat
      /\ campaign[x].current_milestone \in Nat
  BY <1>a, CampaignFields
<1>1. ASSUME NEW plan \in MilestonePlans, CreateCampaign(plan)
      PROVE  Kept
  BY <1>1, <1>b, CreateIsFresh
<1>2. ASSUME NEW c \in CampaignIds, NEW d \in Donors, NEW amount \in DepositAmounts,
             Deposit(c, d, amount)
      PROVE  Kept
  BY <1>2, <1>a, <1>b, VaultAssumption DEF Deposit, Campaign
<1>3. ASSUME NEW c \in CampaignIds, ReleaseMilestone(c)
      PROVE  Kept
  <2>1. CurrentIndex(c) \in DOMAIN milestone[c] /\ milestone[c] \in Seq(Milestone)
    BY <1>3 DEF ReleaseMilestone, Releasable, HasCurrentMilestone, CurrentIndex, DeployedInv,
                TypeOK, Campaign
  <2>2. milestone[c][CurrentIndex(c)] \in Milestone
    BY <2>1
  <2>3. milestone[c][CurrentIndex(c)].amount \in Nat
    BY <1>3, <2>2 DEF ReleaseMilestone, CanTransfer, Milestone
  <2> QED
    BY <1>3, <1>a, <1>b, <2>3 DEF ReleaseMilestone, Released, Campaign
<1>4. ASSUME NEW c \in CampaignIds, NEW flag \in BOOLEAN, SetPaused(c, flag)
      PROVE  Kept
  BY <1>4, <1>a, <1>b DEF SetPaused, Campaign
<1>5. ASSUME NEW c \in CampaignIds, NEW d \in Donors, VotePause(c, d)
      PROVE  Kept
  BY <1>5, <1>a, <1>b DEF VotePause, Campaign
<1>6. ASSUME NEW c \in CampaignIds, NEW d \in Donors, RevokeVote(c, d)
      PROVE  Kept
  BY <1>6, <1>a, <1>b DEF RevokeVote, Campaign
<1>7. ASSUME NEW c \in CampaignIds, ExecuteClawback(c)
      PROVE  Kept
  BY <1>7, <1>a, <1>b DEF ExecuteClawback, Campaign
<1>8. CASE UNCHANGED campaign
  BY <1>8, <1>b
<1> QED
  BY <1>1, <1>2, <1>3, <1>4, <1>5, <1>6, <1>7, <1>8
     DEF Next, vars, Initialize, VerifyMilestone, PauseCampaign, UnpauseCampaign

\* Once initialize ran first, no campaign's deposits, releases, milestone
\* position or clawback are ever undone.
THEOREM ProgressKept == DeployedSpec => ProgressNeverReset
<1>1. DeployedInit => DeployedInv
  BY InitDeployed
<1>2. DeployedInv /\ [Next]_vars =>
        [\A c \in CampaignIds :
          /\ campaign'[c].total_deposited >= campaign[c].total_deposited
          /\ campaign'[c].total_released >= campaign[c].total_released
          /\ campaign'[c].current_milestone >= campaign[c].current_milestone
          /\ campaign[c].clawback_executed => campaign'[c].clawback_executed]_vars
  BY NextProgress
<1> QED
  BY <1>1, <1>2, NextDeployed, PTL DEF DeployedSpec, ProgressNeverReset

-----------------------------------------------------------------------------
(* What a clawback settles. *)

\* After its clawback a campaign's deposits, votes and refunds do not move.
LEMMA NextSettled ==
    ASSUME DeployedInv, [Next]_vars, NEW x \in CampaignIds,
           campaign[x].clawback_executed
    PROVE  /\ campaign'[x].clawback_executed
           /\ campaign'[x].total_deposited = campaign[x].total_deposited
           /\ campaign'[x].pause_vote_weight = campaign[x].pause_vote_weight
           /\ deposits'[x] = deposits[x]
           /\ voters'[x] = voters[x]
           /\ refunded'[x] = refunded[x]
<1> DEFINE Settled ==
               /\ campaign'[x].clawback_executed
               /\ campaign'[x].total_deposited = campaign[x].total_deposited
               /\ campaign'[x].pause_vote_weight = campaign[x].pause_vote_weight
               /\ deposits'[x] = deposits[x]
               /\ voters'[x] = voters[x]
               /\ refunded'[x] = refunded[x]
<1>a. /\ campaign \in [CampaignIds -> Campaign] /\ campaign[x] \in Campaign
      /\ deposits \in [CampaignIds -> [Donors -> Nat]]
      /\ voters \in [CampaignIds -> SUBSET Donors]
      /\ refunded \in [CampaignIds -> [Donors -> Nat]]
  BY DEF DeployedInv, TypeOK
<1>1. ASSUME NEW plan \in MilestonePlans, CreateCampaign(plan)
      PROVE  Settled
  BY <1>1, CreateIsFresh DEF CreateCampaign
<1>2. ASSUME NEW c \in CampaignIds, NEW d \in Donors, NEW amount \in DepositAmounts,
             Deposit(c, d, amount)
      PROVE  Settled
  <2>1. c # x
    BY <1>2 DEF Deposit, OpenForDeposits
  <2> QED
    BY <1>2, <1>a, <2>1 DEF Deposit
<1>3. ASSUME NEW c \in CampaignIds, ReleaseMilestone(c)
      PROVE  Settled
  BY <1>3, <1>a DEF ReleaseMilestone, Released, Campaign
<1>4. ASSUME NEW c \in CampaignIds, NEW flag \in BOOLEAN, SetPaused(c, flag)
      PROVE  Settled
  BY <1>4, <1>a DEF SetPaused, Campaign
<1>5. ASSUME NEW c \in CampaignIds, NEW d \in Donors,
             VotePause(c, d) \/ RevokeVote(c, d)
      PROVE  Settled
  <2>1. c # x
    BY <1>5 DEF VotePause, MayVote, RevokeVote
  <2> QED
    BY <1>5, <1>a, <2>1 DEF VotePause, RevokeVote
<1>6. ASSUME NEW c \in CampaignIds, ExecuteClawback(c)
      PROVE  Settled
  <2>1. c # x
    BY <1>6 DEF ExecuteClawback, ClawbackAllowed
  <2> QED
    BY <1>6, <1>a, <2>1 DEF ExecuteClawback
<1>7. CASE UNCHANGED <<campaign, deposits, voters, refunded>>
  BY <1>7
<1> QED
  BY <1>1, <1>2, <1>3, <1>4, <1>5, <1>6, <1>7
     DEF Next, vars, Initialize, VerifyMilestone, PauseCampaign, UnpauseCampaign

\* A clawback is the last word on a campaign's deposits, votes and refunds.
THEOREM ClawbackSettles == DeployedSpec => ClawbackIsFinal
<1>1. DeployedInit => DeployedInv
  BY InitDeployed
<1>2. DeployedInv /\ [Next]_vars =>
        [\A c \in CampaignIds :
            campaign[c].clawback_executed =>
              /\ campaign'[c].clawback_executed
              /\ campaign'[c].total_deposited = campaign[c].total_deposited
              /\ campaign'[c].pause_vote_weight = campaign[c].pause_vote_weight
              /\ deposits'[c] = deposits[c]
              /\ voters'[c] = voters[c]
              /\ refunded'[c] = refunded[c]]_vars
  BY NextSettled
<1> QED
  BY <1>1, <1>2, NextDeployed, PTL DEF DeployedSpec, ClawbackIsFinal

\* With the donor list exact, what a clawback pays a donor is one share of
\* what remains.
LEMMA RefundToIsShare ==
    ASSUME TypeOK, DonorListExact, NEW c \in CampaignIds, NEW d \in Donors,
           campaign[c].total_deposited > 0, Remaining(c) > 0
    PROVE  RefundTo(c, d) = Refund(c, d)
<1>a. /\ Remaining(c) \in Nat
      /\ campaign[c].total_deposited \in Nat \ {0}
      /\ deposits[c][d] \in Nat
  BY DEF TypeOK, Campaign, Remaining
<1>b. Range(donorList[c]) = {e \in Donors : deposits[c][e] > 0}
  BY DEF DonorListExact
<1>1. CASE deposits[c][d] = 0
  <2>1. Occurrences(c, d) = {}
    BY <1>1, <1>b DEF Occurrences, Range
  <2>2. Refund(c, d) = 0
    BY <1>1, <1>a DEF Refund
  <2> QED
    BY <2>1, <2>2, FS_EmptySet DEF RefundTo
<1>2. CASE deposits[c][d] > 0
  <2>1. d \in Range(donorList[c])
    BY <1>2, <1>b
  <2>2. PICK i \in DOMAIN donorList[c] : donorList[c][i] = d
    BY <2>1 DEF Range
  <2>3. Occurrences(c, d) = {i}
    BY <2>2 DEF Occurrences, DonorListExact
  <2>4. Cardinality(Occurrences(c, d)) = 1
    BY <2>3, FS_Singleton
  <2> QED
    BY <2>4, RefundNat DEF RefundTo
<1> QED
  BY <1>a, <1>1, <1>2

\* The shares of one clawback are bounded by the deposits and ordered as they
\* are.
LEMMA SharesFair ==
    ASSUME TypeOK, DonorListExact, NEW c \in CampaignIds,
           NEW d \in Donors, NEW e \in Donors,
           campaign[c].total_deposited > 0, Remaining(c) > 0
    PROVE  /\ RefundTo(c, d) <= deposits[c][d]
           /\ deposits[c][d] <= deposits[c][e] => RefundTo(c, d) <= RefundTo(c, e)
<1>a. /\ Remaining(c) \in Nat
      /\ campaign[c].total_deposited \in Nat \ {0}
      /\ Remaining(c) <= campaign[c].total_deposited
      /\ deposits[c][d] \in Nat /\ deposits[c][e] \in Nat
  BY DEF TypeOK, Campaign, Remaining
<1>1. Refund(c, d) <= deposits[c][d]
  BY <1>a, ShareBound DEF Refund
<1>2. deposits[c][d] <= deposits[c][e] => Refund(c, d) <= Refund(c, e)
  BY <1>a, ShareMonotone DEF Refund
<1> QED
  BY <1>1, <1>2, RefundToIsShare

LEMMA NextRefunds ==
    DeployedInv /\ RefundsOnlyByClawback /\ RefundsFair /\ [Next]_vars
        => RefundsOnlyByClawback' /\ RefundsFair'
<1> SUFFICES ASSUME DeployedInv, RefundsOnlyByClawback, RefundsFair, [Next]_vars
             PROVE  RefundsOnlyByClawback' /\ RefundsFair'
  OBVIOUS
<1>a. /\ TypeOK /\ DonorListExact
      /\ campaign \in [CampaignIds -> Campaign]
      /\ deposits \in [CampaignIds -> [Donors -> Nat]]
      /\ refunded \in [CampaignIds -> [Donors -> Nat]]
  BY DEF DeployedInv, TypeOK
<1>b. \A x \in CampaignIds :
         campaign[x].clawback_executed => campaign'[x].clawback_executed
  BY NextProgress
<1>1. ASSUME UNCHANGED <<deposits, refunded>>
      PROVE  RefundsOnlyByClawback' /\ RefundsFair'
  BY <1>1, <1>b DEF RefundsOnlyByClawback, RefundsFair
<1>2. ASSUME NEW c \in CampaignIds, NEW d \in Donors, NEW amount \in DepositAmounts,
             Deposit(c, d, amount)
      PROVE  RefundsOnlyByClawback' /\ RefundsFair'
  <2>1. /\ refunded' = refunded
        /\ \A x \in CampaignIds \ {c} : deposits'[x] = deposits[x]
        /\ \A e \in Donors : deposits'[c][e] \in Nat
    BY <1>2, <1>a, VaultAssumption DEF Deposit
  <2>2. \A e \in Donors : refunded[c][e] = 0
    BY <1>2 DEF Deposit, OpenForDeposits, RefundsOnlyByClawback
  <2> QED
    BY <2>1, <2>2, <1>b DEF RefundsOnlyByClawback, RefundsFair
<1>3. ASSUME NEW c \in CampaignIds, ExecuteClawback(c)
      PROVE  RefundsOnlyByClawback' /\ RefundsFair'
  <2>1. /\ campaign[c].total_deposited > 0
        /\ Remaining(c) > 0
        /\ ~campaign[c].clawback_executed
    BY <1>3 DEF ExecuteClawback, ClawbackAllowed, ThresholdMet
  <2>2. /\ deposits' = deposits
        /\ campaign'[c].clawback_executed
        /\ \A x \in CampaignIds \ {c} : refunded'[x] = refunded[x]
    BY <1>3, <1>a DEF ExecuteClawback, Campaign
  <2>3. \A d \in Donors : refunded'[c][d] = RefundTo(c, d)
    <3>1. \A d \in Donors : refunded[c][d] = 0 /\ RefundTo(c, d) \in Nat
      BY <1>a, <2>1, RefundNat DEF RefundsOnlyByClawback
    <3> QED
      BY <1>3, <1>a, <3>1 DEF ExecuteClawback
  <2>4. \A d, e \in Donors :
           /\ refunded'[c][d] <= deposits'[c][d]
           /\ deposits'[c][d] <= deposits'[c][e] => refunded'[c][d] <= refunded'[c][e]
    BY <1>a, <2>1, <2>2, <2>3, SharesFair
  <2> QED
    BY <2>2, <2>4, <1>b DEF RefundsOnlyByClawback, RefundsFair
<1> QED
  BY <1>1, <1>2, <1>3
     DEF Next, vars, Initialize, CreateCampaign, VerifyMilestone,
         ReleaseMilestone, PauseCampaign, UnpauseCampaign, SetPaused,
         VotePause, RevokeVote

\* Whatever sequence of deposits, releases and votes precedes a clawback, it
\* pays nobody more than they deposited and favours no smaller deposit.
THEOREM RefundsAreFair == DeployedSpec => []RefundsFair
<1>1. DeployedInit => DeployedInv /\ RefundsOnlyByClawback /\ RefundsFair
  BY InitDeployed
<1>2. DeployedInv /\ RefundsOnlyByClawback /\ RefundsFair /\ [Next]_vars
        => (DeployedInv /\ RefundsOnlyByClawback /\ RefundsFair)'
  BY NextDeployed, NextRefunds
<1> QED
  BY <1>1, <1>2, PTL DEF DeployedSpec

-----------------------------------------------------------------------------
(* Sums over finite sets. *)

\* Induction over finite sets: what holds of a set whenever it holds of the set
\* less any element holds of every finite set.
LEMMA SetInduction ==
    ASSUME NEW S, IsFiniteSet(S), NEW X,
           \A T \in SUBSET S : (\A x \in T : T \ {x} \in X) => T \in X
    PROVE  S \in X
<1> DEFINE F == FiniteSubsetsOf(S)
           R == StrictSubsetOrdering(S)
           Bad == (SUBSET S) \ X
<1>1. F = SUBSET S /\ IsWellFoundedOn(R, F)
  BY FS_FiniteSubsetsOfFinite, FS_StrictSubsetOrderingWellFounded
<1> SUFFICES ASSUME S \notin X
             PROVE  FALSE
  OBVIOUS
<1>2. Bad \subseteq F /\ Bad # {}
  BY <1>1
<1> HIDE DEF F, R
<1>3. PICK T \in Bad : \A U \in Bad : <<U, T>> \notin R
  BY <1>1, <1>2, WFMin
<1>4. PICK x \in T : T \ {x} \notin X
  BY <1>3
<1>5. <<T \ {x}, T>> \in R
  BY <1>3, <1>4 DEF R, StrictSubsetOrdering
<1> QED
  BY <1>3, <1>4, <1>5

\* Induction over the naturals, for a set of them.
LEMMA Induction ==
    ASSUME NEW X, 0 \in X, \A n \in Nat : n \in X => n + 1 \in X
    PROVE  \A n \in Nat : n \in X
<1> DEFINE R == OpToRel(<, Nat)
           Bad == Nat \ X
<1> SUFFICES ASSUME Bad # {}
             PROVE  FALSE
  OBVIOUS
<1>1. IsWellFoundedOn(R, Nat)
  BY NatLessThanWellFounded
<1> HIDE DEF R
<1>2. PICK m \in Bad : \A k \in Bad : <<k, m>> \notin R
  BY <1>1, WFMin
<1>3. m \in Nat /\ m # 0 /\ m - 1 \in Nat
  BY <1>2
<1>4. <<m - 1, m>> \in R
  BY <1>3 DEF R, OpToRel
<1>5. m - 1 \in X
  BY <1>2, <1>3, <1>4
<1> QED
  BY <1>2, <1>3, <1>5

\* The fold that SumFunctionOnSet unfolds to, one step of it and the whole.
SumStep(f, g, s) ==
    IF s = {} THEN 0
    ELSE LET x == CHOOSE x \in s : TRUE IN f[x] + g[s \ {x}]

SumOver(f, S) == CHOOSE g : g = [s \in SUBSET S |-> SumStep(f, g, s)]

\* The library's sum is the last value of that fold.
LEMMA SumIsSumOver ==
    ASSUME NEW f, NEW S
    PROVE  SumFunctionOnSet(f, S) = SumOver(f, S)[S]
  BY Zenon DEF SumFunctionOnSet, FoldFunctionOnSet, MapThenFoldSet, SumOver, SumStep

\* The fold is a function: each step takes a smaller set.
LEMMA SumOverExists ==
    ASSUME NEW f, NEW S, IsFiniteSet(S)
    PROVE  \E g : g = [s \in SUBSET S |-> SumStep(f, g, s)]
<1> DEFINE D(n) == {s \in SUBSET S : Cardinality(s) <= n}
           X == {n \in Nat : \E g : g = [s \in D(n) |-> SumStep(f, g, s)]}
<1>1. \A s \in SUBSET S : /\ IsFiniteSet(s) /\ Cardinality(s) \in Nat
                          /\ Cardinality(s) <= Cardinality(S)
                          /\ Cardinality(s) = 0 => s = {}
  BY FS_Subset, FS_CardinalityType, FS_EmptySet
<1>2. \A s \in SUBSET S : \A x \in s : Cardinality(s \ {x}) = Cardinality(s) - 1
  BY <1>1, FS_RemoveElement
<1>3. 0 \in X
  <2>1. \A s \in D(0) : s = {}
    BY <1>1
  <2>2. [s \in D(0) |-> 0] = [s \in D(0) |-> SumStep(f, [t \in D(0) |-> 0], s)]
    BY <2>1 DEF SumStep
  <2> QED
    BY <2>2
<1>4. ASSUME NEW n \in Nat, n \in X
      PROVE  n + 1 \in X
  <2>1. PICK g : g = [s \in D(n) |-> SumStep(f, g, s)]
    BY <1>4
  <2> DEFINE h == [s \in D(n + 1) |-> SumStep(f, g, s)]
  <2>2. \A s \in D(n) : s \in D(n + 1) /\ h[s] = g[s]
    <3>1. D(n) \subseteq D(n + 1)
      BY <1>1
    <3> QED
      BY <2>1, <3>1
  <2>3. ASSUME NEW s \in D(n + 1)
        PROVE  SumStep(f, g, s) = SumStep(f, h, s)
    <3>1. CASE s = {}
      BY <3>1 DEF SumStep
    <3>2. CASE s # {}
      <4>s. s \in SUBSET S /\ Cardinality(s) <= n + 1
        OBVIOUS
      <4> DEFINE x == CHOOSE x \in s : TRUE
      <4>1. x \in s
        BY <3>2
      <4> HIDE DEF x
      <4>2. s \ {x} \in D(n)
        <5>1. s \ {x} \in SUBSET S /\ Cardinality(s) \in Nat
          BY <1>1, <4>s
        <5>2. Cardinality(s \ {x}) = Cardinality(s) - 1
          BY <1>2, <4>1, <4>s
        <5>3. Cardinality(s \ {x}) <= n
          BY <4>s, <5>1, <5>2
        <5> QED
          BY <5>1, <5>3
      <4>3. g[s \ {x}] = h[s \ {x}]
        BY <2>2, <4>2
      <4> QED
        BY <3>2, <4>3 DEF SumStep, x
    <3> QED
      BY <3>1, <3>2
  <2>4. h = [s \in D(n + 1) |-> SumStep(f, h, s)]
    BY <2>3
  <2> HIDE DEF h, D
  <2>5. \E k : k = [s \in D(n + 1) |-> SumStep(f, k, s)]
    BY <2>4
  <2> QED
    BY <2>5
<1>5. Cardinality(S) \in Nat
  BY FS_CardinalityType
<1> HIDE DEF D, X
<1>6. Cardinality(S) \in X
  BY <1>3, <1>4, <1>5, Induction
<1>7. D(Cardinality(S)) = SUBSET S
  BY <1>1 DEF D
<1> QED
  BY <1>6, <1>7 DEF X

\* So it satisfies its recursive equation.
LEMMA SumOverStep ==
    ASSUME NEW f, NEW S, IsFiniteSet(S), NEW s \in SUBSET S
    PROVE  SumOver(f, S)[s] = SumStep(f, SumOver(f, S), s)
<1>1. SumOver(f, S) = [t \in SUBSET S |-> SumStep(f, SumOver(f, S), t)]
  BY SumOverExists DEF SumOver
<1> QED
  BY <1>1

\* The sum over a set does not depend on the larger set it is computed in.
LEMMA SumOverSub ==
    ASSUME NEW f, NEW S, IsFiniteSet(S), NEW T \in SUBSET S, NEW U \in SUBSET T
    PROVE  SumOver(f, S)[U] = SumOver(f, T)[U]
<1> DEFINE X == {s \in SUBSET T : SumOver(f, S)[s] = SumOver(f, T)[s]}
<1>1. IsFiniteSet(T) /\ IsFiniteSet(U)
  BY FS_Subset
<1>2. ASSUME NEW s \in SUBSET U, \A x \in s : s \ {x} \in X
      PROVE  s \in X
  <2>1. /\ SumOver(f, S)[s] = SumStep(f, SumOver(f, S), s)
        /\ SumOver(f, T)[s] = SumStep(f, SumOver(f, T), s)
    BY <1>1, SumOverStep
  <2>2. SumStep(f, SumOver(f, S), s) = SumStep(f, SumOver(f, T), s)
    <3>1. CASE s = {}
      BY <3>1 DEF SumStep
    <3>2. CASE s # {}
      <4>1. (CHOOSE x \in s : TRUE) \in s
        BY <3>2
      <4> QED
        BY <1>2, <3>2, <4>1 DEF SumStep
    <3> QED
      BY <3>1, <3>2
  <2> QED
    BY <2>1, <2>2
<1> HIDE DEF X
<1>3. U \in X
  BY <1>1, <1>2, SetInduction
<1> QED
  BY <1>3 DEF X

\* The sum over nothing is zero.
LEMMA SumEmpty ==
    ASSUME NEW f
    PROVE  SumFunctionOnSet(f, {}) = 0
<1>1. SumFunctionOnSet(f, {}) = SumStep(f, SumOver(f, {}), {})
  BY SumIsSumOver, SumOverStep, FS_EmptySet
<1> QED
  BY <1>1 DEF SumStep

\* The element the fold takes first.
LEMMA SumFirst ==
    ASSUME NEW f, NEW S, IsFiniteSet(S), S # {}
    PROVE  \E x \in S :
              SumFunctionOnSet(f, S) = f[x] + SumFunctionOnSet(f, S \ {x})
<1> DEFINE x == CHOOSE x \in S : TRUE
<1>1. x \in S
  OBVIOUS
<1>a. SumOver(f, S)[S] = SumStep(f, SumOver(f, S), S)
  BY SumOverStep
<1>2. SumOver(f, S)[S] = f[x] + SumOver(f, S)[S \ {x}]
  BY <1>a DEF SumStep
<1> HIDE DEF x
<1>3. SumOver(f, S)[S \ {x}] = SumOver(f, S \ {x})[S \ {x}]
  BY SumOverSub
<1> QED
  BY <1>1, <1>2, <1>3, SumIsSumOver

\* A sum of integers is an integer.
LEMMA SumType ==
    ASSUME NEW S, IsFiniteSet(S), NEW f, \A x \in S : f[x] \in Int
    PROVE  SumFunctionOnSet(f, S) \in Int
<1> DEFINE X == {T \in SUBSET S : SumFunctionOnSet(f, T) \in Int}
<1>1. ASSUME NEW T \in SUBSET S, \A x \in T : T \ {x} \in X
      PROVE  T \in X
  <2>1. CASE T = {}
    BY <2>1, SumEmpty
  <2>2. CASE T # {}
    <3>1. PICK x \in T : SumFunctionOnSet(f, T) = f[x] + SumFunctionOnSet(f, T \ {x})
      BY <2>2, SumFirst, FS_Subset
    <3>2. SumFunctionOnSet(f, T \ {x}) \in Int /\ f[x] \in Int
      BY <1>1
    <3> QED
      BY <3>1, <3>2
  <2> QED
    BY <2>1, <2>2
<1> HIDE DEF X
<1>2. S \in X
  BY <1>1, SetInduction
<1> QED
  BY <1>2 DEF X

\* Any element may be taken first.
LEMMA SumRemove ==
    ASSUME NEW S, IsFiniteSet(S), NEW f, \A x \in S : f[x] \in Int, NEW e \in S
    PROVE  SumFunctionOnSet(f, S) = f[e] + SumFunctionOnSet(f, S \ {e})
<1> DEFINE X == {T \in SUBSET S : \A y \in T :
                    SumFunctionOnSet(f, T) = f[y] + SumFunctionOnSet(f, T \ {y})}
<1>1. ASSUME NEW T \in SUBSET S, \A x \in T : T \ {x} \in X, NEW y \in T
      PROVE  SumFunctionOnSet(f, T) = f[y] + SumFunctionOnSet(f, T \ {y})
  <2>1. PICK x \in T : SumFunctionOnSet(f, T) = f[x] + SumFunctionOnSet(f, T \ {x})
    BY SumFirst, FS_Subset
  <2>2. CASE x = y
    BY <2>1, <2>2
  <2>3. CASE x # y
    <3> DEFINE U == (T \ {x}) \ {y}
    <3>1. U = (T \ {y}) \ {x} /\ IsFiniteSet(U)
      BY FS_Subset
    <3>2. SumFunctionOnSet(f, T \ {x}) = f[y] + SumFunctionOnSet(f, U)
      BY <1>1, <2>3
    <3>3. SumFunctionOnSet(f, T \ {y}) = f[x] + SumFunctionOnSet(f, U)
      <4>1. T \ {y} \in X /\ x \in T \ {y}
        BY <1>1, <2>3
      <4> QED
        BY <3>1, <4>1
    <3>4. f[x] \in Int /\ f[y] \in Int /\ SumFunctionOnSet(f, U) \in Int
      BY <3>1, SumType
    <3> QED
      BY <2>1, <3>2, <3>3, <3>4
  <2> QED
    BY <2>2, <2>3
<1>2. \A T \in SUBSET S : (\A x \in T : T \ {x} \in X) => T \in X
  BY <1>1
<1> HIDE DEF X
<1>3. S \in X
  BY <1>2, SetInduction
<1> QED
  BY <1>3 DEF X

\* An element added adds its summand.
LEMMA SumAdd ==
    ASSUME NEW S, IsFiniteSet(S), NEW e, e \notin S, NEW f,
           \A x \in S \cup {e} : f[x] \in Int
    PROVE  SumFunctionOnSet(f, S \cup {e}) = f[e] + SumFunctionOnSet(f, S)
<1>1. IsFiniteSet(S \cup {e}) /\ (S \cup {e}) \ {e} = S
  BY FS_AddElement
<1> QED
  BY <1>1, SumRemove

\* Only the summands count.
LEMMA SumSame ==
    ASSUME NEW S, IsFiniteSet(S), NEW f, NEW g,
           \A x \in S : f[x] = g[x] /\ f[x] \in Int
    PROVE  SumFunctionOnSet(f, S) = SumFunctionOnSet(g, S)
<1> DEFINE X == {T \in SUBSET S : SumFunctionOnSet(f, T) = SumFunctionOnSet(g, T)}
<1>1. ASSUME NEW T \in SUBSET S, \A x \in T : T \ {x} \in X
      PROVE  T \in X
  <2>1. CASE T = {}
    BY <2>1, SumEmpty
  <2>2. CASE T # {}
    <3>1. PICK x \in T : SumFunctionOnSet(f, T) = f[x] + SumFunctionOnSet(f, T \ {x})
      BY <2>2, SumFirst, FS_Subset
    <3>2. SumFunctionOnSet(g, T) = g[x] + SumFunctionOnSet(g, T \ {x})
      BY SumRemove, FS_Subset
    <3> QED
      BY <1>1, <3>1, <3>2
  <2> QED
    BY <2>1, <2>2
<1> HIDE DEF X
<1>2. S \in X
  BY <1>1, SetInduction
<1> QED
  BY <1>2 DEF X

\* Only the summands' sizes count.
LEMMA SumMonotone ==
    ASSUME NEW S, IsFiniteSet(S), NEW f, NEW g,
           \A x \in S : f[x] \in Int /\ g[x] \in Int /\ f[x] <= g[x]
    PROVE  SumFunctionOnSet(f, S) <= SumFunctionOnSet(g, S)
<1> DEFINE X == {T \in SUBSET S : SumFunctionOnSet(f, T) <= SumFunctionOnSet(g, T)}
<1>1. ASSUME NEW T \in SUBSET S, \A x \in T : T \ {x} \in X
      PROVE  T \in X
  <2>a. IsFiniteSet(T)
    BY FS_Subset
  <2>1. CASE T = {}
    BY <2>1, SumEmpty
  <2>2. CASE T # {}
    <3>0. PICK x \in T : TRUE
      BY <2>2
    <3>1. /\ SumFunctionOnSet(f, T) = f[x] + SumFunctionOnSet(f, T \ {x})
          /\ SumFunctionOnSet(g, T) = g[x] + SumFunctionOnSet(g, T \ {x})
      BY <2>a, SumRemove
    <3>2. /\ SumFunctionOnSet(f, T \ {x}) \in Int
          /\ SumFunctionOnSet(g, T \ {x}) \in Int
      BY <2>a, SumType, FS_Subset
    <3> QED
      BY <1>1, <3>1, <3>2
  <2> QED
    BY <2>1, <2>2
<1> HIDE DEF X
<1>2. S \in X
  BY <1>1, SetInduction
<1> QED
  BY <1>2 DEF X

\* A factor common to all summands comes out of the sum.
LEMMA SumScaled ==
    ASSUME NEW S, IsFiniteSet(S), NEW k \in Int, NEW f, NEW g,
           \A x \in S : f[x] \in Int /\ g[x] = k * f[x]
    PROVE  SumFunctionOnSet(g, S) = k * SumFunctionOnSet(f, S)
<1> DEFINE X == {T \in SUBSET S : SumFunctionOnSet(g, T) = k * SumFunctionOnSet(f, T)}
<1>1. ASSUME NEW T \in SUBSET S, \A x \in T : T \ {x} \in X
      PROVE  T \in X
  <2>a. IsFiniteSet(T)
    BY FS_Subset
  <2>1. CASE T = {}
    BY <2>1, SumEmpty
  <2>2. CASE T # {}
    <3>0. PICK x \in T : TRUE
      BY <2>2
    <3>1. /\ SumFunctionOnSet(f, T) = f[x] + SumFunctionOnSet(f, T \ {x})
          /\ SumFunctionOnSet(g, T) = g[x] + SumFunctionOnSet(g, T \ {x})
      BY <2>a, SumRemove
    <3>2. SumFunctionOnSet(f, T \ {x}) \in Int /\ f[x] \in Int
      BY <2>a, SumType, FS_Subset
    <3>3. SumFunctionOnSet(g, T \ {x}) = k * SumFunctionOnSet(f, T \ {x})
      BY <1>1
    <3> QED
      BY <3>1, <3>2, <3>3
  <2> QED
    BY <2>1, <2>2
<1> HIDE DEF X
<1>2. S \in X
  BY <1>1, SetInduction
<1> QED
  BY <1>2 DEF X

\* A term common to all summands counts once for each.
LEMMA SumShifted ==
    ASSUME NEW S, IsFiniteSet(S), NEW k \in Int, NEW f, NEW g,
           \A x \in S : f[x] \in Int /\ g[x] = f[x] + k
    PROVE  SumFunctionOnSet(g, S) = SumFunctionOnSet(f, S) + k * Cardinality(S)
<1> DEFINE X == {T \in SUBSET S : SumFunctionOnSet(g, T)
                                     = SumFunctionOnSet(f, T) + k * Cardinality(T)}
<1>1. ASSUME NEW T \in SUBSET S, \A x \in T : T \ {x} \in X
      PROVE  T \in X
  <2>a. IsFiniteSet(T)
    BY FS_Subset
  <2>1. CASE T = {}
    BY <2>1, SumEmpty, FS_EmptySet
  <2>2. CASE T # {}
    <3>0. PICK x \in T : TRUE
      BY <2>2
    <3>1. /\ SumFunctionOnSet(f, T) = f[x] + SumFunctionOnSet(f, T \ {x})
          /\ SumFunctionOnSet(g, T) = g[x] + SumFunctionOnSet(g, T \ {x})
      BY <2>a, SumRemove
    <3>2. SumFunctionOnSet(f, T \ {x}) \in Int /\ f[x] \in Int
      BY <2>a, SumType, FS_Subset
    <3>3. SumFunctionOnSet(g, T \ {x})
             = SumFunctionOnSet(f, T \ {x}) + k * Cardinality(T \ {x})
      BY <1>1
    <3>4. /\ Cardinality(T) \in Nat
          /\ Cardinality(T \ {x}) = Cardinality(T) - 1
      BY <2>a, FS_CardinalityType, FS_RemoveElement
    <3> QED
      BY <3>1, <3>2, <3>3, <3>4
  <2> QED
    BY <2>1, <2>2
<1> HIDE DEF X
<1>2. S \in X
  BY <1>1, SetInduction
<1> QED
  BY <1>2 DEF X

\* One summand changes.
LEMMA SumChange ==
    ASSUME NEW S, IsFiniteSet(S), NEW e \in S, NEW f, NEW g,
           \A x \in S : f[x] \in Int,
           \A x \in S \ {e} : g[x] = f[x],
           g[e] \in Int
    PROVE  SumFunctionOnSet(g, S) = SumFunctionOnSet(f, S) - f[e] + g[e]
<1>1. IsFiniteSet(S \ {e})
  BY FS_RemoveElement
<1>2. SumFunctionOnSet(f, S) = f[e] + SumFunctionOnSet(f, S \ {e})
  BY SumRemove
<1>3. SumFunctionOnSet(g, S) = g[e] + SumFunctionOnSet(g, S \ {e})
  BY SumRemove
<1>4. SumFunctionOnSet(g, S \ {e}) = SumFunctionOnSet(f, S \ {e})
  BY <1>1, SumSame
<1>5. SumFunctionOnSet(f, S \ {e}) \in Int
  BY <1>1, SumType
<1> QED
  BY <1>2, <1>3, <1>4, <1>5

\* A sum of zeros is zero.
LEMMA SumZero ==
    ASSUME NEW S, IsFiniteSet(S), NEW f, \A x \in S : f[x] = 0
    PROVE  SumFunctionOnSet(f, S) = 0
<1>1. SumFunctionOnSet(f, S) = 0 * SumFunctionOnSet(f, S)
  BY SumScaled
<1> QED
  BY <1>1, SumType

\* What is zero may be left out.
LEMMA SumSupport ==
    ASSUME NEW S, IsFiniteSet(S), NEW P \in SUBSET S, NEW f,
           \A x \in S : f[x] \in Int,
           \A x \in S \ P : f[x] = 0
    PROVE  SumFunctionOnSet(f, S) = SumFunctionOnSet(f, P)
<1> DEFINE X == {T \in SUBSET S : SumFunctionOnSet(f, T)
                                     = SumFunctionOnSet(f, T \cap P)}
<1>1. ASSUME NEW T \in SUBSET S, \A x \in T : T \ {x} \in X
      PROVE  T \in X
  <2>a. IsFiniteSet(T)
    BY FS_Subset
  <2>1. CASE T = {}
    BY <2>1, SumEmpty
  <2>2. CASE T # {}
    <3>0. PICK x \in T : TRUE
      BY <2>2
    <3>1. SumFunctionOnSet(f, T) = f[x] + SumFunctionOnSet(f, T \ {x})
      BY <2>a, SumRemove
    <3>2. SumFunctionOnSet(f, T \ {x}) = SumFunctionOnSet(f, (T \ {x}) \cap P)
      BY <1>1
    <3>3. IsFiniteSet(T \cap P)
      BY <2>a, FS_Subset
    <3>4. CASE x \in P
      <4>1. (T \ {x}) \cap P = (T \cap P) \ {x}
        OBVIOUS
      <4>2. SumFunctionOnSet(f, T \cap P) = f[x] + SumFunctionOnSet(f, (T \cap P) \ {x})
        BY <3>3, <3>4, SumRemove
      <4> QED
        BY <3>1, <3>2, <4>1, <4>2
    <3>5. CASE x \notin P
      <4>1. (T \ {x}) \cap P = T \cap P
        BY <3>5
      <4>2. SumFunctionOnSet(f, T \cap P) \in Int
        BY <3>3, SumType
      <4>3. f[x] = 0
        BY <3>5
      <4>4. SumFunctionOnSet(f, T \ {x}) = SumFunctionOnSet(f, T \cap P)
        BY <3>2, <4>1
      <4>5. SumFunctionOnSet(f, T) = 0 + SumFunctionOnSet(f, T \cap P)
        BY <3>1, <4>3, <4>4
      <4>6. SumFunctionOnSet(f, T) = SumFunctionOnSet(f, T \cap P)
        BY <4>2, <4>5
      <4> QED
        BY <4>6
    <3> QED
      BY <3>4, <3>5
  <2> QED
    BY <2>1, <2>2
<1> HIDE DEF X
<1>2. S \in X
  BY <1>1, SetInduction
<1> QED
  <2>1. S \cap P = P
    OBVIOUS
  <2> QED
    BY <1>2, <2>1 DEF X

\* Summing along a list without repetitions is summing over what it lists.
LEMMA SumReindexed ==
    ASSUME NEW S, IsFiniteSet(S), NEW h, NEW f, NEW g,
           \A i \in S : g[i] = f[h[i]] /\ g[i] \in Int,
           \A i, j \in S : h[i] = h[j] => i = j
    PROVE  SumFunctionOnSet(g, S) = SumFunctionOnSet(f, {h[i] : i \in S})
<1> DEFINE X == {T \in SUBSET S : SumFunctionOnSet(g, T)
                                     = SumFunctionOnSet(f, {h[i] : i \in T})}
<1>1. ASSUME NEW T \in SUBSET S, \A x \in T : T \ {x} \in X
      PROVE  T \in X
  <2>a. IsFiniteSet(T)
    BY FS_Subset
  <2>1. CASE T = {}
    BY <2>1, SumEmpty
  <2>2. CASE T # {}
    <3>0. PICK x \in T : TRUE
      BY <2>2
    <3> DEFINE H == {h[i] : i \in T}
    <3>1. SumFunctionOnSet(g, T) = g[x] + SumFunctionOnSet(g, T \ {x})
      BY <2>a, SumRemove
    <3>2. {h[i] : i \in T \ {x}} = H \ {h[x]}
      OBVIOUS
    <3>3. SumFunctionOnSet(g, T \ {x}) = SumFunctionOnSet(f, H \ {h[x]})
      BY <1>1, <3>2
    <3>4. IsFiniteSet(H)
      <4>1. [i \in T |-> h[i]] \in Surjection(T, H)
        BY DEF Surjection
      <4> QED
        BY <2>a, <4>1, FS_Surjection
    <3>5. \A y \in H : f[y] \in Int
      OBVIOUS
    <3>6. SumFunctionOnSet(f, H) = f[h[x]] + SumFunctionOnSet(f, H \ {h[x]})
      <4>1. h[x] \in H
        OBVIOUS
      <4> HIDE DEF H
      <4> QED
        BY <3>4, <3>5, <4>1, SumRemove
    <3> QED
      BY <3>1, <3>3, <3>6
  <2> QED
    BY <2>1, <2>2
<1> HIDE DEF X
<1>2. S \in X
  BY <1>1, SetInduction
<1> QED
  BY <1>2 DEF X

-----------------------------------------------------------------------------
(* The counters are sums. *)

\* The sum over a function is the sum over its domain.
LEMMA SumOfDomain ==
    ASSUME NEW f, NEW S, DOMAIN f = S
    PROVE  Sum(f) = SumFunctionOnSet(f, S)
  BY DEF Sum, SumFunction

\* One campaign's counters agree with its deposits and its released milestones.
RaisedAgrees(c) ==
    campaign[c].total_deposited = Sum(deposits[c])

SpentAgrees(c) ==
    campaign[c].total_released =
        Sum([i \in 1 .. campaign[c].current_milestone |-> milestone[c][i].amount])

\* A donor's deposit grows by an amount, and so does the sum.
LEMMA SumDeposited ==
    ASSUME NEW f \in [Donors -> Nat], NEW d \in Donors, NEW amount \in Nat
    PROVE  Sum([f EXCEPT ![d] = @ + amount]) = Sum(f) + amount
<1> DEFINE g == [f EXCEPT ![d] = @ + amount]
<1>1. /\ \A x \in Donors : f[x] \in Int
      /\ \A x \in Donors \ {d} : g[x] = f[x]
      /\ g[d] = f[d] + amount
      /\ g[d] \in Int
      /\ DOMAIN f = Donors
      /\ DOMAIN g = Donors
  OBVIOUS
<1> HIDE DEF g
<1>2. SumFunctionOnSet(g, Donors) = SumFunctionOnSet(f, Donors) - f[d] + g[d]
  BY <1>1, VaultAssumption, SumChange
<1>3. SumFunctionOnSet(f, Donors) \in Int
  BY <1>1, VaultAssumption, SumType
<1>4. Sum(g) = SumFunctionOnSet(g, Donors) /\ Sum(f) = SumFunctionOnSet(f, Donors)
  BY <1>1, SumOfDomain
<1>5. Sum(g) = Sum(f) + amount
  <2>1. f[d] \in Int
    BY <1>1
  <2> QED
    BY <1>1, <1>2, <1>3, <1>4, <2>1
<1> QED
  BY <1>5 DEF g

\* One more milestone is paid, and the sum of the paid ones grows by it.
LEMMA SumExtended ==
    ASSUME NEW n \in Nat, NEW f \in [1 .. n -> Int], NEW g \in [1 .. (n + 1) -> Int],
           \A i \in 1 .. n : g[i] = f[i]
    PROVE  Sum(g) = Sum(f) + g[n + 1]
<1>0. IsFiniteSet(1 .. n)
  BY FS_Interval
<1>1. /\ IsFiniteSet(1 .. n)
      /\ n + 1 \notin 1 .. n
      /\ 1 .. (n + 1) = (1 .. n) \cup {n + 1}
      /\ DOMAIN f = 1 .. n /\ DOMAIN g = 1 .. (n + 1)
  BY <1>0
<1>2. \A i \in (1 .. n) \cup {n + 1} : g[i] \in Int
  BY <1>1
<1>3. SumFunctionOnSet(g, (1 .. n) \cup {n + 1}) = g[n + 1] + SumFunctionOnSet(g, 1 .. n)
  BY <1>1, <1>2, SumAdd
<1>4. SumFunctionOnSet(f, 1 .. n) = SumFunctionOnSet(g, 1 .. n)
  BY <1>1, SumSame
<1>5. SumFunctionOnSet(f, 1 .. n) \in Int
  BY <1>1, SumType
<1>6. Sum(g) = SumFunctionOnSet(g, (1 .. n) \cup {n + 1})
  BY <1>1, SumOfDomain
<1>7. Sum(f) = SumFunctionOnSet(f, 1 .. n)
  BY <1>1, SumOfDomain
<1>8. g[n + 1] \in Int
  BY <1>1
<1> QED
  BY <1>3, <1>4, <1>5, <1>6, <1>7, <1>8

LEMMA InitTotals == DeployedInit => TotalsAgree
<1> SUFFICES ASSUME DeployedInit, NEW c \in CampaignIds
             PROVE  RaisedAgrees(c) /\ SpentAgrees(c)
  BY DEF TotalsAgree, RaisedAgrees, SpentAgrees
<1>1. /\ campaign[c] = NewCampaign
      /\ DOMAIN deposits[c] = Donors
      /\ \A d \in Donors : deposits[c][d] = 0
  BY DEF DeployedInit, EmptyStorage
<1>2. Sum(deposits[c]) = 0
  BY <1>1, VaultAssumption, SumOfDomain, SumZero
<1>3. campaign[c].current_milestone = 0 /\ 1 .. 0 = {}
  BY <1>1 DEF NewCampaign
<1>4. Sum([i \in 1 .. campaign[c].current_milestone |-> milestone[c][i].amount]) = 0
  BY <1>3, SumOfDomain, SumEmpty
<1> QED
  BY <1>1, <1>2, <1>4 DEF NewCampaign, RaisedAgrees, SpentAgrees

\* The amounts of the milestones released so far.
LEMMA PaidAmounts ==
    ASSUME TypeOK, MilestonesInOrder, NEW c \in CampaignIds
    PROVE  /\ campaign[c].current_milestone \in Nat
           /\ 1 .. campaign[c].current_milestone \subseteq DOMAIN milestone[c]
           /\ [i \in 1 .. campaign[c].current_milestone |-> milestone[c][i].amount]
                 \in [1 .. campaign[c].current_milestone -> Int]
<1>1. /\ campaign[c] \in Campaign
      /\ milestone[c] \in Seq(Milestone)
      /\ campaign[c].current_milestone <= Len(milestone[c])
  BY DEF TypeOK, MilestonesInOrder
<1>2. /\ campaign[c].current_milestone \in Nat
      /\ Len(milestone[c]) \in Nat
      /\ DOMAIN milestone[c] = 1 .. Len(milestone[c])
  BY <1>1, CampaignFields
<1>3. 1 .. campaign[c].current_milestone \subseteq DOMAIN milestone[c]
  BY <1>1, <1>2
<1>4. \A i \in DOMAIN milestone[c] : milestone[c][i].amount \in Int
  <2>1. \A i \in DOMAIN milestone[c] : milestone[c][i] \in Milestone
    BY <1>1
  <2> QED
    BY <2>1 DEF Milestone
<1> QED
  BY <1>2, <1>3, <1>4

LEMMA NextTotals ==
    DeployedInv /\ MilestonesInOrder /\ TotalsAgree /\ [Next]_vars => TotalsAgree'
<1> SUFFICES ASSUME DeployedInv, MilestonesInOrder, TotalsAgree, [Next]_vars,
                    NEW x \in CampaignIds
             PROVE  RaisedAgrees(x)' /\ SpentAgrees(x)'
  BY DEF TotalsAgree, RaisedAgrees, SpentAgrees
<1>a. /\ TypeOK
      /\ campaign \in [CampaignIds -> Campaign]
      /\ campaign[x] \in Campaign
      /\ deposits \in [CampaignIds -> [Donors -> Nat]]
      /\ milestone \in [CampaignIds -> Seq(Milestone)]
  BY DEF DeployedInv, TypeOK
<1>b. RaisedAgrees(x) /\ SpentAgrees(x)
  BY DEF TotalsAgree, RaisedAgrees, SpentAgrees
<1>c. /\ campaign[x].total_deposited \in Nat
      /\ campaign[x].total_released \in Nat
      /\ campaign[x].current_milestone \in Nat
  BY <1>a, CampaignFields
\* A step that leaves the counters and what they count alone.
<1>1. ASSUME campaign'[x].total_deposited = campaign[x].total_deposited,
             campaign'[x].total_released = campaign[x].total_released,
             campaign'[x].current_milestone = campaign[x].current_milestone,
             deposits'[x] = deposits[x],
             \A i \in 1 .. campaign[x].current_milestone :
                milestone'[x][i].amount = milestone[x][i].amount
      PROVE  RaisedAgrees(x)' /\ SpentAgrees(x)'
  <2>1. [i \in 1 .. campaign[x].current_milestone |-> milestone[x][i].amount]
           = [i \in 1 .. campaign'[x].current_milestone |-> milestone'[x][i].amount]
    BY <1>1
  <2> QED
    BY <1>1, <1>b, <2>1 DEF RaisedAgrees, SpentAgrees
<1>2. ASSUME NEW plan \in MilestonePlans, CreateCampaign(plan)
      PROVE  RaisedAgrees(x)' /\ SpentAgrees(x)'
  <2>1. campaign' = campaign /\ deposits' = deposits
    BY <1>2, CreateIsFresh DEF CreateCampaign
  <2>2. CASE x = campaignCount
    <3>1. campaign[x].current_milestone = 0
      BY <1>2, <2>2, CreateIsFresh DEF NewCampaign
    <3>2. 1 .. campaign[x].current_milestone = {}
      BY <3>1
    <3> QED
      BY <1>1, <2>1, <3>2
  <2>3. CASE x # campaignCount
    <3>1. milestone'[x] = milestone[x]
      BY <1>2, <1>a, <2>3 DEF CreateCampaign
    <3> QED
      BY <1>1, <2>1, <3>1
  <2> QED
    BY <2>2, <2>3
<1>3. ASSUME NEW c \in CampaignIds, NEW d \in Donors, NEW amount \in DepositAmounts,
             Deposit(c, d, amount)
      PROVE  RaisedAgrees(x)' /\ SpentAgrees(x)'
  <2>1. milestone' = milestone /\ amount \in Nat
    BY <1>3, VaultAssumption DEF Deposit
  <2>2. CASE x = c
    <3>1. /\ campaign'[x].total_deposited = campaign[x].total_deposited + amount
          /\ campaign'[x].total_released = campaign[x].total_released
          /\ campaign'[x].current_milestone = campaign[x].current_milestone
      BY <1>3, <1>a, <2>2 DEF Deposit, Campaign
    <3>2. deposits'[x] = [deposits[x] EXCEPT ![d] = @ + amount]
      BY <1>3, <1>a, <2>2 DEF Deposit
    <3>3. deposits[x] \in [Donors -> Nat]
      BY <1>a
    <3>4. Sum(deposits'[x]) = Sum(deposits[x]) + amount
      BY <2>1, <3>2, <3>3, SumDeposited
    <3> QED
      BY <1>b, <2>1, <3>1, <3>4 DEF RaisedAgrees, SpentAgrees
  <2>3. CASE x # c
    <3>1. campaign'[x] = campaign[x] /\ deposits'[x] = deposits[x]
      BY <1>3, <1>a, <2>3 DEF Deposit
    <3> QED
      BY <1>1, <2>1, <3>1
  <2> QED
    BY <2>2, <2>3
<1>4. ASSUME NEW c \in CampaignIds, VerifyMilestone(c)
      PROVE  RaisedAgrees(x)' /\ SpentAgrees(x)'
  <2>1. campaign' = campaign /\ deposits' = deposits
    BY <1>4 DEF VerifyMilestone
  <2>2. \A i \in DOMAIN milestone[x] : milestone'[x][i].amount = milestone[x][i].amount
    BY <1>4, <1>a DEF VerifyMilestone, Milestone
  <2>3. 1 .. campaign[x].current_milestone \subseteq DOMAIN milestone[x]
    BY <1>a, PaidAmounts
  <2> QED
    BY <1>1, <2>1, <2>2, <2>3
<1>5. ASSUME NEW c \in CampaignIds, ReleaseMilestone(c)
      PROVE  RaisedAgrees(x)' /\ SpentAgrees(x)'
  <2>1. deposits' = deposits
    BY <1>5 DEF ReleaseMilestone
  <2>2. CASE x = c
    <3> DEFINE m == milestone[x][CurrentIndex(x)]
               cur == campaign[x].current_milestone
               f == [i \in 1 .. cur |-> milestone[x][i].amount]
               g == [i \in 1 .. (cur + 1) |-> milestone'[x][i].amount]
    <3>1. CurrentIndex(x) \in DOMAIN milestone[x] /\ cur \in Nat /\ CurrentIndex(x) = cur + 1
      BY <1>5, <1>a, <1>c, <2>2
         DEF ReleaseMilestone, Releasable, HasCurrentMilestone, CurrentIndex
    <3>2. campaign'[x] = Released(campaign[x], m.amount)
      BY <1>5, <1>a, <2>2 DEF ReleaseMilestone
    <3>3. /\ campaign'[x].total_deposited = campaign[x].total_deposited
          /\ campaign'[x].total_released = campaign[x].total_released + m.amount
          /\ campaign'[x].current_milestone = cur + 1
      BY <1>a, <3>2 DEF Released, Campaign
    <3>4. \A i \in DOMAIN milestone[x] : milestone'[x][i].amount = milestone[x][i].amount
      BY <1>5, <1>a DEF ReleaseMilestone, Milestone
    <3>5. \A i \in DOMAIN milestone[x] : milestone[x][i].amount \in Int
      <4>1. \A i \in DOMAIN milestone[x] : milestone[x][i] \in Milestone
        BY <1>a
      <4> QED
        BY <4>1 DEF Milestone
    <3>6. 1 .. cur \subseteq DOMAIN milestone[x] /\ f \in [1 .. cur -> Int]
      BY <1>a, PaidAmounts
    <3>7. 1 .. (cur + 1) = (1 .. cur) \cup {cur + 1}
      BY <3>1
    <3>8. \A i \in 1 .. (cur + 1) :
             /\ milestone'[x][i].amount = milestone[x][i].amount
             /\ milestone[x][i].amount \in Int
      BY <3>1, <3>4, <3>5, <3>6, <3>7
    <3>9. g \in [1 .. (cur + 1) -> Int] /\ \A i \in 1 .. cur : g[i] = f[i]
      BY <3>7, <3>8
    <3>10. g[cur + 1] = m.amount
      BY <3>1, <3>7, <3>8
    <3>11. Sum(g) = Sum(f) + g[cur + 1]
      <4> HIDE DEF f, g
      <4> QED
        BY <3>1, <3>6, <3>9, SumExtended
    <3>12. campaign[x].total_released = Sum(f)
      BY <1>b DEF SpentAgrees
    <3>13. campaign'[x].total_released = Sum(g)
      <4> HIDE DEF f, g
      <4> QED
        BY <3>3, <3>10, <3>11, <3>12
    <3>14. SpentAgrees(x)'
      BY <3>3, <3>13 DEF SpentAgrees
    <3> QED
      BY <1>b, <2>1, <3>3, <3>14 DEF RaisedAgrees
  <2>3. CASE x # c
    <3>1. campaign'[x] = campaign[x] /\ milestone'[x] = milestone[x]
      BY <1>5, <1>a, <2>3 DEF ReleaseMilestone
    <3> QED
      BY <1>1, <2>1, <3>1
  <2> QED
    BY <2>2, <2>3
<1>6. ASSUME NEW c \in CampaignIds, NEW flag \in BOOLEAN, SetPaused(c, flag)
      PROVE  RaisedAgrees(x)' /\ SpentAgrees(x)'
  BY <1>6, <1>a, <1>1 DEF SetPaused, Campaign
<1>7. ASSUME NEW c \in CampaignIds, NEW d \in Donors, VotePause(c, d)
      PROVE  RaisedAgrees(x)' /\ SpentAgrees(x)'
  BY <1>7, <1>a, <1>1 DEF VotePause, Campaign
<1>8. ASSUME NEW c \in CampaignIds, NEW d \in Donors, RevokeVote(c, d)
      PROVE  RaisedAgrees(x)' /\ SpentAgrees(x)'
  BY <1>8, <1>a, <1>1 DEF RevokeVote, Campaign
<1>9. ASSUME NEW c \in CampaignIds, ExecuteClawback(c)
      PROVE  RaisedAgrees(x)' /\ SpentAgrees(x)'
  BY <1>9, <1>a, <1>1 DEF ExecuteClawback, Campaign
<1>10. CASE UNCHANGED <<campaign, milestone, deposits>>
  BY <1>10, <1>1
<1> QED
  BY <1>2, <1>3, <1>4, <1>5, <1>6, <1>7, <1>8, <1>9, <1>10
     DEF Next, vars, Initialize, PauseCampaign, UnpauseCampaign

\* In every run of a deployed contract, each campaign's counters are the sums
\* of its deposits and of its released milestones.
THEOREM CountersAreSums == DeployedSpec => []TotalsAgree
<1>1. DeployedInit => DeployedInv /\ MilestonesInOrder /\ TotalsAgree
  BY InitDeployed, InitOrder, InitTotals
<1>2. DeployedInv /\ MilestonesInOrder /\ TotalsAgree /\ [Next]_vars
        => (DeployedInv /\ MilestonesInOrder /\ TotalsAgree)'
  BY NextDeployed, NextOrder, NextTotals DEF DeployedInv
<1> QED
  BY <1>1, <1>2, PTL DEF DeployedSpec

-----------------------------------------------------------------------------
(* What a clawback pays. *)

\* What leaves the vault in a clawback, added up along the donor list, is what
\* the donors receive.
LEMMA RefundTotalIsPaid ==
    ASSUME TypeOK, DonorListExact, NEW c \in CampaignIds, NEW paid,
           campaign[c].total_deposited > 0, Remaining(c) > 0,
           \A d \in Donors : paid[d] = RefundTo(c, d)
    PROVE  /\ RefundTotal(c) = SumFunctionOnSet(paid, Donors)
           /\ RefundTotal(c) = SumFunctionOnSet(paid, Range(donorList[c]))
<1> DEFINE P == Range(donorList[c])
           I == DOMAIN donorList[c]
           g == [i \in I |-> Refund(c, donorList[c][i])]
<1>1. donorList[c] \in Seq(Donors)
  BY DEF TypeOK
<1>2. /\ IsFiniteSet(I)
      /\ \A i \in I : donorList[c][i] \in Donors
      /\ P = {donorList[c][i] : i \in I}
      /\ P \in SUBSET Donors
  <2>1. I = 1 .. Len(donorList[c]) /\ Len(donorList[c]) \in Nat
    BY <1>1
  <2>2. IsFiniteSet(I)
    BY <2>1, FS_Interval
  <2>3. \A i \in I : donorList[c][i] \in Donors
    BY <1>1
  <2>4. P = {donorList[c][i] : i \in I}
    BY DEF Range
  <2> QED
    BY <2>2, <2>3, <2>4
<1>3. \A d \in Donors : paid[d] = Refund(c, d) /\ paid[d] \in Int
  BY RefundToIsShare, RefundNat
<1>4. \A i \in I : g[i] = paid[donorList[c][i]] /\ g[i] \in Int
  BY <1>2, <1>3
<1>5. \A i, j \in I : donorList[c][i] = donorList[c][j] => i = j
  BY DEF DonorListExact
<1>6. \A d \in Donors \ P : paid[d] = 0
  <2> SUFFICES ASSUME NEW d \in Donors \ P
               PROVE  Refund(c, d) = 0
    BY <1>3
  <2>1. deposits[c][d] = 0
    BY DEF DonorListExact, TypeOK
  <2>2. Remaining(c) \in Nat /\ campaign[c].total_deposited \in Nat \ {0}
    BY DEF TypeOK, Campaign, Remaining
  <2> QED
    BY <2>1, <2>2 DEF Refund
<1>7. RefundTotal(c) = SumFunctionOnSet(g, I)
  BY DEF RefundTotal, SumFunction
<1> HIDE DEF g
<1>8. SumFunctionOnSet(g, I) = SumFunctionOnSet(paid, {donorList[c][i] : i \in I})
  <2> DEFINE h == donorList[c]
  <2>1. \A i \in I : g[i] = paid[h[i]] /\ g[i] \in Int
    BY <1>4
  <2>2. \A i, j \in I : h[i] = h[j] => i = j
    BY <1>5
  <2> HIDE DEF h, I
  <2>3. SumFunctionOnSet(g, I) = SumFunctionOnSet(paid, {h[i] : i \in I})
    BY <1>2, <2>1, <2>2, SumReindexed
  <2> QED
    BY <2>3 DEF h
<1>9. SumFunctionOnSet(paid, Donors) = SumFunctionOnSet(paid, P)
  <2>1. P \in SUBSET Donors /\ IsFiniteSet(Donors)
    BY <1>2, VaultAssumption
  <2> HIDE DEF P
  <2> QED
    BY <1>3, <1>6, <2>1, SumSupport
<1> QED
  BY <1>2, <1>7, <1>8, <1>9

-----------------------------------------------------------------------------
(* The pool. *)

\* What the vault holds for one campaign.
HeldFor(c) == Remaining(c) - Sum(refunded[c])

LEMMA CampaignIdsFinite == IsFiniteSet(CampaignIds)
<1>1. MaxCampaigns - 1 \in Int /\ 0 \in Int
  BY VaultAssumption
<1> QED
  BY <1>1, FS_Interval DEF CampaignIds

LEMMA HeldType ==
    ASSUME TypeOK, NEW c \in CampaignIds
    PROVE  HeldFor(c) \in Int /\ Remaining(c) \in Int /\ Sum(refunded[c]) \in Int
<1>1. refunded[c] \in [Donors -> Nat] /\ campaign[c] \in Campaign
  BY DEF TypeOK
<1>2. \A d \in Donors : refunded[c][d] \in Int
  BY <1>1
<1>3. Sum(refunded[c]) = SumFunctionOnSet(refunded[c], Donors)
  BY <1>1, SumOfDomain
<1>4. Sum(refunded[c]) \in Int
  BY <1>2, <1>3, VaultAssumption, SumType
<1>5. campaign[c].total_deposited \in Nat /\ campaign[c].total_released \in Nat
  BY <1>1, CampaignFields
<1> QED
  BY <1>4, <1>5 DEF HeldFor, Remaining

\* The pool moves by as much as the one campaign an invocation is about.
LEMMA OneCampaignMoves ==
    ASSUME TypeOK, TypeOK', PoolAccounts, NEW c \in CampaignIds, NEW change \in Int,
           balance'[Vault] = balance[Vault] + change,
           HeldFor(c)' = HeldFor(c) + change,
           \A x \in CampaignIds \ {c} : HeldFor(x)' = HeldFor(x)
    PROVE  PoolAccounts'
<1> DEFINE f == [x \in CampaignIds |-> HeldFor(x)]
           g == [x \in CampaignIds |-> HeldFor(x)']
<1>1. HeldFor(c) \in Int
  BY HeldType
<1>2. /\ \A x \in CampaignIds : f[x] \in Int
      /\ \A x \in CampaignIds \ {c} : g[x] = f[x]
      /\ g[c] = f[c] + change
      /\ f[c] \in Int /\ g[c] \in Int
      /\ DOMAIN f = CampaignIds /\ DOMAIN g = CampaignIds
  BY <1>1, HeldType
<1>3. balance[Vault] = Sum(f)
  BY DEF PoolAccounts, HeldFor
<1>4. balance'[Vault] = Sum(g) => PoolAccounts'
  BY DEF PoolAccounts, HeldFor, Sum
<1> HIDE DEF f, g
<1>5. SumFunctionOnSet(g, CampaignIds) = SumFunctionOnSet(f, CampaignIds) - f[c] + g[c]
  BY <1>2, CampaignIdsFinite, SumChange
<1>6. SumFunctionOnSet(f, CampaignIds) \in Int
  BY <1>2, CampaignIdsFinite, SumType
<1>7. Sum(f) = SumFunctionOnSet(f, CampaignIds) /\ Sum(g) = SumFunctionOnSet(g, CampaignIds)
  BY <1>2, SumOfDomain
<1>8. Sum(g) = Sum(f) + change
  BY <1>2, <1>5, <1>6, <1>7
<1> QED
  BY <1>3, <1>4, <1>8

LEMMA InitPool == DeployedInit => PoolAccounts
<1> SUFFICES ASSUME DeployedInit
             PROVE  PoolAccounts
  OBVIOUS
<1>1. ASSUME NEW c \in CampaignIds
      PROVE  HeldFor(c) = 0
  <2>1. /\ campaign[c] = NewCampaign
        /\ DOMAIN refunded[c] = Donors
        /\ \A d \in Donors : refunded[c][d] = 0
    BY DEF DeployedInit, EmptyStorage
  <2>2. Sum(refunded[c]) = 0
    BY <2>1, VaultAssumption, SumOfDomain, SumZero
  <2> QED
    BY <2>1, <2>2 DEF HeldFor, Remaining, NewCampaign
<1>2. balance[Vault] = 0
  BY AccountsFacts DEF DeployedInit, EmptyStorage
<1> DEFINE f == [c \in CampaignIds |-> HeldFor(c)]
<1>3. DOMAIN f = CampaignIds /\ \A c \in CampaignIds : f[c] = 0
  BY <1>1
<1>4. PoolAccounts <=> balance[Vault] = Sum(f)
  BY DEF PoolAccounts, HeldFor
<1> HIDE DEF f
<1>5. Sum(f) = 0
  BY <1>3, CampaignIdsFinite, SumOfDomain, SumZero
<1> QED
  BY <1>2, <1>4, <1>5

LEMMA NextPool ==
    DeployedInv /\ RefundsOnlyByClawback /\ PoolAccounts /\ [Next]_vars
        => PoolAccounts'
<1> SUFFICES ASSUME DeployedInv, RefundsOnlyByClawback, PoolAccounts, [Next]_vars
             PROVE  PoolAccounts'
  OBVIOUS
<1>a. /\ TypeOK /\ TypeOK' /\ DonorListExact
      /\ campaign \in [CampaignIds -> Campaign]
      /\ balance \in [Accounts -> Nat]
      /\ refunded \in [CampaignIds -> [Donors -> Nat]]
      /\ balance[Vault] \in Nat
  <2>1. TypeOK /\ TypeOK' /\ DonorListExact
    BY NextType DEF DeployedInv
  <2> QED
    BY <2>1, AccountsFacts DEF TypeOK
<1>b. \A x \in CampaignIds :
         /\ campaign[x].total_deposited \in Nat
         /\ campaign[x].total_released \in Nat
         /\ HeldFor(x) \in Int /\ Remaining(x) \in Int
  BY <1>a, CampaignFields, HeldType
\* A step that moves neither the vault nor a counter.
<1>1. ASSUME balance'[Vault] = balance[Vault], refunded' = refunded,
             \A x \in CampaignIds :
                /\ campaign'[x].total_deposited = campaign[x].total_deposited
                /\ campaign'[x].total_released = campaign[x].total_released
      PROVE  PoolAccounts'
  <2>1. [x \in CampaignIds |-> Remaining(x) - Sum(refunded[x])]
           = [x \in CampaignIds |-> Remaining(x)' - Sum(refunded'[x])]
    BY <1>1 DEF Remaining
  <2> QED
    BY <1>1, <2>1 DEF PoolAccounts, Sum
<1>2. ASSUME NEW plan \in MilestonePlans, CreateCampaign(plan)
      PROVE  PoolAccounts'
  BY <1>1, <1>2, CreateIsFresh DEF CreateCampaign
<1>3. ASSUME NEW c \in CampaignIds, NEW d \in Donors, NEW amount \in DepositAmounts,
             Deposit(c, d, amount)
      PROVE  PoolAccounts'
  <2>1. amount \in Nat
    BY <1>3, VaultAssumption DEF Deposit
  <2>2. balance'[Vault] = balance[Vault] + amount
    <3>1. d \in Accounts /\ d # Vault /\ Vault \in Accounts
      BY AccountsFacts
    <3> QED
      BY <1>3, <1>a, <3>1 DEF Deposit, Transfer
  <2>3. \A x \in CampaignIds \ {c} : campaign'[x] = campaign[x]
    BY <1>3, <1>a DEF Deposit
  <2>4. refunded' = refunded
    BY <1>3 DEF Deposit
  <2>5. /\ campaign'[c].total_deposited = campaign[c].total_deposited + amount
        /\ campaign'[c].total_released = campaign[c].total_released
    BY <1>3, <1>a DEF Deposit, Campaign
  <2>6. Sum(refunded[c]) \in Int /\ Sum(refunded'[c]) = Sum(refunded[c])
    BY <1>a, <2>4, HeldType
  <2>7. HeldFor(c)' = HeldFor(c) + amount
    BY <1>b, <2>1, <2>5, <2>6 DEF HeldFor, Remaining, Sum
  <2>8. \A x \in CampaignIds \ {c} : HeldFor(x)' = HeldFor(x)
    BY <2>3, <2>4 DEF HeldFor, Remaining, Sum
  <2> QED
    BY <1>a, <2>1, <2>2, <2>7, <2>8, OneCampaignMoves
<1>4. ASSUME NEW c \in CampaignIds, ReleaseMilestone(c)
      PROVE  PoolAccounts'
  <2> DEFINE m == milestone[c][CurrentIndex(c)]
  <2>1. m \in Milestone
    <3>1. CurrentIndex(c) \in DOMAIN milestone[c] /\ milestone[c] \in Seq(Milestone)
      BY <1>4, <1>a, CampaignFields
         DEF ReleaseMilestone, Releasable, HasCurrentMilestone, CurrentIndex, TypeOK
    <3> QED
      BY <3>1
  <2>2. m.amount \in Nat /\ m.recipient \in Accounts /\ m.recipient # Vault
    BY <1>4, <2>1, VaultAssumption, AccountsFacts
       DEF ReleaseMilestone, CanTransfer, Milestone
  <2>3. balance'[Vault] = balance[Vault] - m.amount
    BY <1>4, <1>a, <2>2, AccountsFacts DEF ReleaseMilestone, Transfer
  <2>4. campaign'[c] = Released(campaign[c], m.amount)
    BY <1>4, <1>a DEF ReleaseMilestone
  <2>5. /\ campaign'[c].total_deposited = campaign[c].total_deposited
        /\ campaign'[c].total_released = campaign[c].total_released + m.amount
    BY <1>a, <2>4 DEF Released, Campaign
  <2>6. refunded' = refunded /\ \A x \in CampaignIds \ {c} : campaign'[x] = campaign[x]
    BY <1>4, <1>a DEF ReleaseMilestone
  <2>7. Sum(refunded[c]) \in Int /\ Sum(refunded'[c]) = Sum(refunded[c])
    BY <1>a, <2>6, HeldType
  <2> HIDE DEF m
  <2>8. HeldFor(c)' = HeldFor(c) + (-m.amount)
    BY <1>b, <2>2, <2>5, <2>7 DEF HeldFor, Remaining, Sum
  <2>9. \A x \in CampaignIds \ {c} : HeldFor(x)' = HeldFor(x)
    BY <2>6 DEF HeldFor, Remaining, Sum
  <2>10. balance'[Vault] = balance[Vault] + (-m.amount) /\ -m.amount \in Int
    BY <1>a, <2>2, <2>3
  <2> QED
    BY <1>a, <2>8, <2>9, <2>10, OneCampaignMoves
<1>5. ASSUME NEW c \in CampaignIds, NEW flag \in BOOLEAN, SetPaused(c, flag)
      PROVE  PoolAccounts'
  BY <1>5, <1>a, <1>1 DEF SetPaused, Campaign
<1>6. ASSUME NEW c \in CampaignIds, NEW d \in Donors, VotePause(c, d)
      PROVE  PoolAccounts'
  BY <1>6, <1>a, <1>1 DEF VotePause, Campaign
<1>7. ASSUME NEW c \in CampaignIds, NEW d \in Donors, RevokeVote(c, d)
      PROVE  PoolAccounts'
  BY <1>7, <1>a, <1>1 DEF RevokeVote, Campaign
<1>8. ASSUME NEW c \in CampaignIds, ExecuteClawback(c)
      PROVE  PoolAccounts'
  <2>1. /\ campaign[c].total_deposited > 0
        /\ Remaining(c) > 0
        /\ ~campaign[c].clawback_executed
    BY <1>8 DEF ExecuteClawback, ClawbackAllowed, ThresholdMet
  <2>2. RefundTotal(c) \in Nat /\ balance'[Vault] = balance[Vault] - RefundTotal(c)
    BY <1>8, <1>a, AccountsFacts DEF ExecuteClawback
  <2>3. /\ \A x \in CampaignIds \ {c} : refunded'[x] = refunded[x]
        /\ \A x \in CampaignIds :
              /\ campaign'[x].total_deposited = campaign[x].total_deposited
              /\ campaign'[x].total_released = campaign[x].total_released
    BY <1>8, <1>a DEF ExecuteClawback, Campaign
  <2>4. /\ \A d \in Donors : refunded[c][d] = 0
        /\ \A d \in Donors : refunded'[c][d] = RefundTo(c, d)
    <3>1. \A d \in Donors : refunded[c][d] = 0 /\ RefundTo(c, d) \in Nat
      BY <1>a, <2>1, RefundNat DEF RefundsOnlyByClawback
    <3> QED
      BY <1>8, <1>a, <3>1 DEF ExecuteClawback
  <2>5. DOMAIN refunded[c] = Donors /\ DOMAIN refunded'[c] = Donors
    BY <1>a DEF TypeOK
  <2>6. Sum(refunded[c]) = 0
    BY <2>4, <2>5, VaultAssumption, SumOfDomain, SumZero
  <2>7. RefundTotal(c) = SumFunctionOnSet(refunded'[c], Donors)
    BY <1>a, <2>1, <2>4, RefundTotalIsPaid
  <2>8. Sum(refunded'[c]) = RefundTotal(c)
    BY <2>5, <2>7, SumOfDomain
  <2>9. HeldFor(c)' = HeldFor(c) + (-RefundTotal(c))
    BY <1>b, <2>2, <2>3, <2>6, <2>8 DEF HeldFor, Remaining, Sum
  <2>10. \A x \in CampaignIds \ {c} : HeldFor(x)' = HeldFor(x)
    BY <2>3 DEF HeldFor, Remaining, Sum
  <2>11. balance'[Vault] = balance[Vault] + (-RefundTotal(c)) /\ -RefundTotal(c) \in Int
    BY <1>a, <2>2
  <2> QED
    BY <1>a, <2>9, <2>10, <2>11, OneCampaignMoves
<1>9. CASE UNCHANGED <<campaign, balance, refunded>>
  BY <1>9, <1>1
<1> QED
  BY <1>2, <1>3, <1>4, <1>5, <1>6, <1>7, <1>8, <1>9
     DEF Next, vars, Initialize, VerifyMilestone, PauseCampaign, UnpauseCampaign

\* Whatever a deployed contract is called with, the vault holds exactly what
\* its campaigns still have coming: no token is lost and none is invented.
THEOREM PoolIsExact == DeployedSpec => []PoolAccounts
<1>1. DeployedInit => DeployedInv /\ RefundsOnlyByClawback /\ RefundsFair /\ PoolAccounts
  BY InitDeployed, InitPool
<1>2. DeployedInv /\ RefundsOnlyByClawback /\ RefundsFair /\ PoolAccounts /\ [Next]_vars
        => (DeployedInv /\ RefundsOnlyByClawback /\ RefundsFair /\ PoolAccounts)'
  BY NextDeployed, NextRefunds, NextPool
<1> QED
  BY <1>1, <1>2, PTL DEF DeployedSpec

-----------------------------------------------------------------------------
(* Who a clawback had behind it. *)

\* What keeps a clawback honest although the weight a vote counts with and the
\* weight a revocation takes back may differ: the weight counted never exceeds
\* what the donors who vote now have deposited.
WeightIsCovered ==
    \A c \in CampaignIds : campaign[c].pause_vote_weight <= VoterDeposits(c)

VoteInv == DeployedInv /\ WeightIsCovered /\ ClawbackHasMajority

LEMMA InitVotes == DeployedInit => WeightIsCovered /\ ClawbackHasMajority
<1> SUFFICES ASSUME DeployedInit, NEW c \in CampaignIds
             PROVE  /\ campaign[c].pause_vote_weight <= VoterDeposits(c)
                    /\ ~campaign[c].clawback_executed
  BY DEF WeightIsCovered, ClawbackHasMajority
<1>1. campaign[c] = NewCampaign /\ voters[c] = {}
  BY DEF DeployedInit, EmptyStorage
<1> QED
  BY <1>1, SumEmpty DEF NewCampaign, VoterDeposits

LEMMA VotersType ==
    ASSUME TypeOK, NEW c \in CampaignIds
    PROVE  /\ IsFiniteSet(voters[c])
           /\ voters[c] \subseteq Donors
           /\ \A d \in Donors : deposits[c][d] \in Nat
           /\ VoterDeposits(c) \in Int
           /\ campaign[c].pause_vote_weight \in Int
           /\ campaign[c].total_deposited \in Nat
<1>1. /\ voters[c] \subseteq Donors
      /\ deposits[c] \in [Donors -> Nat]
      /\ campaign[c] \in Campaign
  BY DEF TypeOK
<1>2. IsFiniteSet(voters[c])
  BY <1>1, VaultAssumption, FS_Subset
<1>3. \A d \in voters[c] : deposits[c][d] \in Int
  BY <1>1
<1>4. VoterDeposits(c) \in Int
  BY <1>2, <1>3, SumType DEF VoterDeposits
<1> QED
  BY <1>1, <1>2, <1>4, CampaignFields

\* The votes are covered after every step, too.
LEMMA NextCovered == DeployedInv /\ WeightIsCovered /\ [Next]_vars => WeightIsCovered'
<1> SUFFICES ASSUME DeployedInv, WeightIsCovered, [Next]_vars, NEW x \in CampaignIds
             PROVE  campaign'[x].pause_vote_weight <= VoterDeposits(x)'
  BY DEF WeightIsCovered
<1>a. /\ TypeOK
      /\ campaign \in [CampaignIds -> Campaign]
      /\ campaign[x] \in Campaign
      /\ deposits \in [CampaignIds -> [Donors -> Nat]]
      /\ deposits[x] \in [Donors -> Nat]
      /\ voters \in [CampaignIds -> SUBSET Donors]
  BY DEF DeployedInv, TypeOK
<1>b. campaign[x].pause_vote_weight <= VoterDeposits(x)
  BY DEF WeightIsCovered
<1>c. /\ IsFiniteSet(voters[x])
      /\ voters[x] \subseteq Donors
      /\ \A d \in Donors : deposits[x][d] \in Nat
      /\ VoterDeposits(x) \in Int
      /\ campaign[x].pause_vote_weight \in Int
  BY <1>a, VotersType
<1>1. ASSUME campaign'[x].pause_vote_weight = campaign[x].pause_vote_weight,
             deposits'[x] = deposits[x], voters'[x] = voters[x]
      PROVE  campaign'[x].pause_vote_weight <= VoterDeposits(x)'
  BY <1>1, <1>b DEF VoterDeposits
<1>2. ASSUME NEW plan \in MilestonePlans, CreateCampaign(plan)
      PROVE  campaign'[x].pause_vote_weight <= VoterDeposits(x)'
  BY <1>1, <1>2, CreateIsFresh DEF CreateCampaign
<1>3. ASSUME NEW c \in CampaignIds, NEW d \in Donors, NEW amount \in DepositAmounts,
             Deposit(c, d, amount)
      PROVE  campaign'[x].pause_vote_weight <= VoterDeposits(x)'
  <2>1. /\ voters' = voters
        /\ amount \in Nat
        /\ campaign'[x].pause_vote_weight = campaign[x].pause_vote_weight
    BY <1>3, <1>a, VaultAssumption DEF Deposit, Campaign
  <2>2. \A e \in Donors : deposits'[x][e] \in Nat /\ deposits[x][e] <= deposits'[x][e]
    <3>1. CASE x = c
      <4>1. \A e \in Donors : deposits'[x][e] = IF e = d THEN deposits[x][e] + amount
                                                         ELSE deposits[x][e]
        BY <1>3, <1>a, <3>1 DEF Deposit
      <4> QED
        BY <1>a, <2>1, <4>1
    <3>2. CASE x # c
      BY <1>3, <1>a, <3>2 DEF Deposit
    <3> QED
      BY <3>1, <3>2
  <2>3. \A e \in voters[x] : /\ deposits[x][e] \in Int
                             /\ deposits'[x][e] \in Int
                             /\ deposits[x][e] <= deposits'[x][e]
    BY <1>c, <2>2
  <2>4. SumFunctionOnSet(deposits[x], voters[x]) <= SumFunctionOnSet(deposits'[x], voters[x])
    BY <1>c, <2>3, SumMonotone
  <2>5. SumFunctionOnSet(deposits'[x], voters[x]) \in Int
    BY <1>c, <2>3, SumType
  <2> QED
    BY <1>b, <1>c, <2>1, <2>4, <2>5 DEF VoterDeposits
<1>4. ASSUME NEW c \in CampaignIds, ReleaseMilestone(c)
      PROVE  campaign'[x].pause_vote_weight <= VoterDeposits(x)'
  BY <1>4, <1>a, <1>1 DEF ReleaseMilestone, Released, Campaign
<1>5. ASSUME NEW c \in CampaignIds, NEW flag \in BOOLEAN, SetPaused(c, flag)
      PROVE  campaign'[x].pause_vote_weight <= VoterDeposits(x)'
  BY <1>5, <1>a, <1>1 DEF SetPaused, Campaign
<1>6. ASSUME NEW c \in CampaignIds, NEW d \in Donors, VotePause(c, d)
      PROVE  campaign'[x].pause_vote_weight <= VoterDeposits(x)'
  <2>1. deposits' = deposits
    BY <1>6 DEF VotePause
  <2>2. CASE x = c
    <3>1. campaign'[x].pause_vote_weight = campaign[x].pause_vote_weight + deposits[x][d]
      BY <1>6, <1>a, <2>2 DEF VotePause, Campaign
    <3>2. voters'[x] = voters[x] \cup {d} /\ d \notin voters[x]
      BY <1>6, <1>a, <2>2 DEF VotePause, MayVote
    <3>3. \A e \in voters[x] \cup {d} : deposits[x][e] \in Int
      BY <1>c
    <3>4. SumFunctionOnSet(deposits[x], voters[x] \cup {d})
            = deposits[x][d] + SumFunctionOnSet(deposits[x], voters[x])
      BY <1>c, <3>2, <3>3, SumAdd
    <3>5. VoterDeposits(x)' = deposits[x][d] + VoterDeposits(x)
      BY <2>1, <3>2, <3>4 DEF VoterDeposits
    <3>6. deposits[x][d] \in Int
      BY <1>c
    <3> QED
      BY <1>b, <1>c, <3>1, <3>5, <3>6
  <2>3. CASE x # c
    BY <1>6, <1>a, <1>1, <2>1, <2>3 DEF VotePause
  <2> QED
    BY <2>2, <2>3
<1>7. ASSUME NEW c \in CampaignIds, NEW d \in Donors, RevokeVote(c, d)
      PROVE  campaign'[x].pause_vote_weight <= VoterDeposits(x)'
  <2>1. deposits' = deposits
    BY <1>7 DEF RevokeVote
  <2>2. CASE x = c
    <3>1. campaign'[x].pause_vote_weight = campaign[x].pause_vote_weight - deposits[x][d]
      BY <1>7, <1>a, <2>2 DEF RevokeVote, Campaign
    <3>2. voters'[x] = voters[x] \ {d} /\ d \in voters[x]
      BY <1>7, <1>a, <2>2 DEF RevokeVote
    <3>3. \A e \in voters[x] : deposits[x][e] \in Int
      BY <1>c
    <3>4. SumFunctionOnSet(deposits[x], voters[x])
            = deposits[x][d] + SumFunctionOnSet(deposits[x], voters[x] \ {d})
      BY <1>c, <3>2, <3>3, SumRemove
    <3>5. VoterDeposits(x) = deposits[x][d] + VoterDeposits(x)'
      BY <2>1, <3>2, <3>4 DEF VoterDeposits
    <3>6. VoterDeposits(x)' \in Int
      <4>1. IsFiniteSet(voters[x] \ {d})
        BY <1>c, FS_Subset
      <4>2. SumFunctionOnSet(deposits[x], voters[x] \ {d}) \in Int
        BY <3>3, <4>1, SumType
      <4> QED
        BY <2>1, <3>2, <4>2 DEF VoterDeposits
    <3>7. deposits[x][d] \in Int
      BY <1>c
    <3> QED
      BY <1>b, <1>c, <3>1, <3>5, <3>6, <3>7
  <2>3. CASE x # c
    BY <1>7, <1>a, <1>1, <2>1, <2>3 DEF RevokeVote
  <2> QED
    BY <2>2, <2>3
<1>8. ASSUME NEW c \in CampaignIds, ExecuteClawback(c)
      PROVE  campaign'[x].pause_vote_weight <= VoterDeposits(x)'
  BY <1>8, <1>a, <1>1 DEF ExecuteClawback, Campaign
<1>9. CASE UNCHANGED <<campaign, deposits, voters>>
  BY <1>9, <1>1
<1> QED
  BY <1>2, <1>3, <1>4, <1>5, <1>6, <1>7, <1>8, <1>9
     DEF Next, vars, Initialize, VerifyMilestone, PauseCampaign, UnpauseCampaign

\* Only ExecuteClawback of the campaign itself sets its clawback flag.
LEMMA OnlyClawbackExecutes ==
    ASSUME DeployedInv, [Next]_vars, NEW x \in CampaignIds,
           ~campaign[x].clawback_executed, campaign'[x].clawback_executed
    PROVE  ExecuteClawback(x)
<1>a. /\ campaign \in [CampaignIds -> Campaign]
      /\ campaign[x] \in Campaign
  BY DEF DeployedInv, TypeOK
<1> SUFFICES ASSUME ~ExecuteClawback(x)
             PROVE  campaign'[x].clawback_executed = campaign[x].clawback_executed
  OBVIOUS
<1>1. ASSUME NEW plan \in MilestonePlans, CreateCampaign(plan)
      PROVE  campaign'[x].clawback_executed = campaign[x].clawback_executed
  BY <1>1, CreateIsFresh
<1>2. ASSUME NEW c \in CampaignIds, NEW d \in Donors, NEW amount \in DepositAmounts,
             Deposit(c, d, amount)
      PROVE  campaign'[x].clawback_executed = campaign[x].clawback_executed
  BY <1>2, <1>a DEF Deposit, Campaign
<1>3. ASSUME NEW c \in CampaignIds, ReleaseMilestone(c)
      PROVE  campaign'[x].clawback_executed = campaign[x].clawback_executed
  BY <1>3, <1>a DEF ReleaseMilestone, Released, Campaign
<1>4. ASSUME NEW c \in CampaignIds, NEW flag \in BOOLEAN, SetPaused(c, flag)
      PROVE  campaign'[x].clawback_executed = campaign[x].clawback_executed
  BY <1>4, <1>a DEF SetPaused, Campaign
<1>5. ASSUME NEW c \in CampaignIds, NEW d \in Donors, VotePause(c, d)
      PROVE  campaign'[x].clawback_executed = campaign[x].clawback_executed
  BY <1>5, <1>a DEF VotePause, Campaign
<1>6. ASSUME NEW c \in CampaignIds, NEW d \in Donors, RevokeVote(c, d)
      PROVE  campaign'[x].clawback_executed = campaign[x].clawback_executed
  BY <1>6, <1>a DEF RevokeVote, Campaign
<1>7. ASSUME NEW c \in CampaignIds, ExecuteClawback(c)
      PROVE  campaign'[x].clawback_executed = campaign[x].clawback_executed
  <2>1. c # x
    BY <1>7
  <2> QED
    BY <1>7, <1>a, <2>1 DEF ExecuteClawback
<1>8. CASE UNCHANGED campaign
  BY <1>8
<1> QED
  BY <1>1, <1>2, <1>3, <1>4, <1>5, <1>6, <1>7, <1>8
     DEF Next, vars, Initialize, VerifyMilestone, PauseCampaign, UnpauseCampaign

LEMMA NextMajority ==
    VoteInv /\ [Next]_vars => ClawbackHasMajority'
<1> SUFFICES ASSUME VoteInv, [Next]_vars, NEW x \in CampaignIds,
                    campaign'[x].clawback_executed
             PROVE  VoterDeposits(x)' * 100
                       >= campaign'[x].total_deposited * PAUSE_THRESHOLD_PCT
  BY DEF ClawbackHasMajority
<1>a. DeployedInv /\ TypeOK
  BY DEF VoteInv, DeployedInv
<1>1. CASE campaign[x].clawback_executed
  <2>1. VoterDeposits(x) * 100 >= campaign[x].total_deposited * PAUSE_THRESHOLD_PCT
    BY <1>1 DEF VoteInv, ClawbackHasMajority
  <2>2. /\ campaign'[x].total_deposited = campaign[x].total_deposited
        /\ deposits'[x] = deposits[x]
        /\ voters'[x] = voters[x]
    BY <1>a, <1>1, NextSettled
  <2> QED
    BY <2>1, <2>2 DEF VoterDeposits
<1>2. CASE ~campaign[x].clawback_executed
  <2>1. ExecuteClawback(x)
    BY <1>a, <1>2, OnlyClawbackExecutes
  <2>2. campaign[x].pause_vote_weight * 100
           >= campaign[x].total_deposited * PAUSE_THRESHOLD_PCT
    BY <2>1 DEF ExecuteClawback, ClawbackAllowed, ThresholdMet
  <2>3. /\ campaign'[x].total_deposited = campaign[x].total_deposited
        /\ VoterDeposits(x)' = VoterDeposits(x)
    BY <1>a, <2>1 DEF ExecuteClawback, VoterDeposits, TypeOK, Campaign
  <2>4. campaign[x].pause_vote_weight <= VoterDeposits(x)
    BY DEF VoteInv, WeightIsCovered
  <2>5. /\ VoterDeposits(x) \in Int
        /\ campaign[x].pause_vote_weight \in Int
        /\ campaign[x].total_deposited \in Nat
    BY <1>a, VotersType
  <2> QED
    BY <2>2, <2>3, <2>4, <2>5 DEF PAUSE_THRESHOLD_PCT
<1> QED
  BY <1>1, <1>2

\* However donors vote, deposit more and revoke, a clawback goes through only
\* with 60% of what was deposited behind it.
THEOREM MajorityBehindClawback == DeployedSpec => []ClawbackHasMajority
<1>1. DeployedInit => VoteInv
  BY InitDeployed, InitVotes DEF VoteInv
<1>2. VoteInv /\ [Next]_vars => VoteInv'
  BY NextDeployed, NextCovered, NextMajority DEF VoteInv
<1>3. VoteInv => ClawbackHasMajority
  BY DEF VoteInv
<1> QED
  BY <1>1, <1>2, <1>3, PTL DEF DeployedSpec

-----------------------------------------------------------------------------
(* What leaves the vault. *)

\* Rounding down loses less than one unit of the divisor.
LEMMA DivBounds ==
    ASSUME NEW n \in Nat, NEW t \in Nat \ {0}
    PROVE  /\ n \div t \in Nat
           /\ t * (n \div t) <= n
           /\ n <= t * (n \div t) + (t - 1)
  OBVIOUS

\* The refunds of a clawback add up to what remains less rounding: under one
\* unit per listed donor.
LEMMA RefundTotalBounds ==
    ASSUME TypeOK, DonorListExact, TotalsAgree, NEW c \in CampaignIds,
           campaign[c].total_deposited > 0, Remaining(c) > 0
    PROVE  /\ RefundTotal(c) \in Int
           /\ RefundTotal(c) <= Remaining(c)
           /\ RefundTotal(c) > Remaining(c) - Cardinality(Range(donorList[c]))
<1> DEFINE P == Range(donorList[c])
           T == campaign[c].total_deposited
           R == Remaining(c)
           paid == [d \in Donors |-> RefundTo(c, d)]
           spread == [d \in Donors |-> R * deposits[c][d]]
           least == [d \in Donors |-> T * paid[d]]
           most == [d \in Donors |-> least[d] + (T - 1)]
<1>1. /\ T \in Nat \ {0}
      /\ R \in Nat \ {0}
      /\ \A d \in Donors : deposits[c][d] \in Nat
      /\ deposits[c] \in [Donors -> Nat]
  BY DEF TypeOK, Campaign, Remaining
<1>2. P = {d \in Donors : deposits[c][d] > 0}
  BY DEF DonorListExact
<1>3. /\ P \in SUBSET Donors
      /\ \A d \in P : d \in Donors
      /\ \A d \in Donors \ P : deposits[c][d] = 0
  BY <1>1, <1>2
<1>4. IsFiniteSet(Donors) /\ IsFiniteSet(P) /\ Cardinality(P) \in Nat
  BY <1>3, VaultAssumption, FS_Subset, FS_CardinalityType
<1>5. \A d \in Donors : paid[d] = RefundTo(c, d)
  OBVIOUS
<1>6. RefundTotal(c) = SumFunctionOnSet(paid, P)
  BY <1>5, RefundTotalIsPaid
<1>7. SumFunctionOnSet(deposits[c], P) = T
  <2>1. T = Sum(deposits[c]) /\ DOMAIN deposits[c] = Donors
    BY <1>1 DEF TotalsAgree
  <2>2. Sum(deposits[c]) = SumFunctionOnSet(deposits[c], Donors)
    BY <2>1, SumOfDomain
  <2>3. \A d \in Donors : deposits[c][d] \in Int
    BY <1>1
  <2> HIDE DEF P
  <2>4. SumFunctionOnSet(deposits[c], Donors) = SumFunctionOnSet(deposits[c], P)
    BY <1>3, <1>4, <2>3, SumSupport
  <2> QED
    BY <2>1, <2>2, <2>4
<1>8. \A d \in Donors :
         /\ paid[d] \in Nat
         /\ T * paid[d] <= R * deposits[c][d]
         /\ R * deposits[c][d] <= T * paid[d] + (T - 1)
  <2> SUFFICES ASSUME NEW d \in Donors
               PROVE  /\ RefundTo(c, d) \in Nat
                      /\ T * RefundTo(c, d) <= R * deposits[c][d]
                      /\ R * deposits[c][d] <= T * RefundTo(c, d) + (T - 1)
    OBVIOUS
  <2>1. RefundTo(c, d) = (deposits[c][d] * R) \div T
    BY RefundToIsShare DEF Refund
  <2>2. deposits[c][d] * R \in Nat /\ deposits[c][d] * R = R * deposits[c][d]
    BY <1>1
  <2> HIDE DEF R, T
  <2> QED
    BY <1>1, <2>1, <2>2, DivBounds
<1>9. /\ \A d \in P : paid[d] \in Int /\ least[d] = T * paid[d]
      /\ \A d \in P : deposits[c][d] \in Int /\ spread[d] = R * deposits[c][d]
      /\ \A d \in P : least[d] \in Int /\ most[d] = least[d] + (T - 1)
      /\ \A d \in P : least[d] \in Int /\ spread[d] \in Int /\ least[d] <= spread[d]
      /\ \A d \in P : spread[d] \in Int /\ most[d] \in Int /\ spread[d] <= most[d]
      /\ T \in Int /\ R \in Int /\ T - 1 \in Int
  <2> HIDE DEF P, R, T, paid
  <2>1. \A d \in P : /\ paid[d] \in Int
                     /\ deposits[c][d] \in Int
                     /\ T * paid[d] \in Int
                     /\ R * deposits[c][d] \in Int
    BY <1>1, <1>3, <1>8
  <2> QED
    BY <1>1, <1>3, <1>8, <2>1
<1> HIDE DEF P, T, R, paid, spread, least, most
<1>10. SumFunctionOnSet(paid, P) \in Int
  BY <1>4, <1>9, SumType
<1>11. SumFunctionOnSet(least, P) = T * SumFunctionOnSet(paid, P)
  BY <1>4, <1>9, SumScaled
<1>12. SumFunctionOnSet(spread, P) = R * T
  BY <1>4, <1>7, <1>9, SumScaled
<1>13. SumFunctionOnSet(most, P) = SumFunctionOnSet(least, P) + (T - 1) * Cardinality(P)
  BY <1>4, <1>9, SumShifted
<1>14. SumFunctionOnSet(least, P) <= SumFunctionOnSet(spread, P)
  BY <1>4, <1>9, SumMonotone
<1>15. SumFunctionOnSet(spread, P) <= SumFunctionOnSet(most, P)
  BY <1>4, <1>9, SumMonotone
<1>16. Cardinality(P) > 0
  <2>1. P # {}
    BY <1>1, <1>7, SumEmpty
  <2> QED
    BY <1>4, <2>1, FS_EmptySet
<1> DEFINE s == SumFunctionOnSet(paid, P)
           k == Cardinality(P)
<1>17. /\ T * s <= R * T
       /\ R * T <= T * s + (T - 1) * k
  BY <1>11, <1>12, <1>13, <1>14, <1>15
<1>18. s \in Int /\ k \in Nat /\ k > 0
  BY <1>4, <1>10, <1>16
<1> HIDE DEF s, k
<1>19. s <= R
  BY <1>1, <1>17, <1>18
<1>20. s > R - k
  <2> SUFFICES ASSUME s <= R - k
               PROVE  FALSE
    BY <1>1, <1>18
  <2>1. T * s <= T * (R - k)
    BY <1>1, <1>18
  <2>2. T * (R - k) = R * T - T * k
    BY <1>1, <1>18
  <2>3. (T - 1) * k = T * k - k
    BY <1>1, <1>18
  <2>4. T * s \in Int /\ R * T \in Int /\ T * k \in Int
    BY <1>1, <1>18
  <2> QED
    BY <1>17, <1>18, <2>1, <2>2, <2>3, <2>4
<1> QED
  BY <1>6, <1>18, <1>19, <1>20 DEF s, k, P, R

\* A step that takes tokens out of the vault, taken apart.
LEMMA NextPayouts ==
    ASSUME DeployedInv, TotalsAgree, [Next]_vars, balance'[Vault] < balance[Vault]
    PROVE  LET out == balance[Vault] - balance'[Vault]
           IN \E c \in created :
               \/ /\ ~campaign[c].paused
                  /\ HasCurrentMilestone(c)
                  /\ milestone[c][CurrentIndex(c)].status = "Verified"
                  /\ milestone'[c][CurrentIndex(c)].status = "Released"
                  /\ out = milestone[c][CurrentIndex(c)].amount
                  /\ UNCHANGED refunded
               \/ /\ campaign[c].paused
                  /\ ~campaign[c].clawback_executed
                  /\ campaign'[c].clawback_executed
                  /\ out <= Remaining(c)
                  /\ out > Remaining(c) - Cardinality(Range(donorList[c]))
<1> DEFINE out == balance[Vault] - balance'[Vault]
           Paid(c) ==
               /\ ~campaign[c].paused
               /\ HasCurrentMilestone(c)
               /\ milestone[c][CurrentIndex(c)].status = "Verified"
               /\ milestone'[c][CurrentIndex(c)].status = "Released"
               /\ out = milestone[c][CurrentIndex(c)].amount
               /\ UNCHANGED refunded
           ClawedBack(c) ==
               /\ campaign[c].paused
               /\ ~campaign[c].clawback_executed
               /\ campaign'[c].clawback_executed
               /\ out <= Remaining(c)
               /\ out > Remaining(c) - Cardinality(Range(donorList[c]))
<1>a. /\ TypeOK /\ DonorListExact
      /\ campaign \in [CampaignIds -> Campaign]
      /\ milestone \in [CampaignIds -> Seq(Milestone)]
      /\ balance \in [Accounts -> Nat]
      /\ balance[Vault] \in Nat
  BY AccountsFacts DEF DeployedInv, TypeOK
<1>1. ASSUME NEW c \in CampaignIds, ReleaseMilestone(c)
      PROVE  c \in created /\ Paid(c)
  <2> DEFINE m == milestone[c][CurrentIndex(c)]
  <2>1. CurrentIndex(c) \in DOMAIN milestone[c]
    BY <1>1, <1>a, CampaignFields
       DEF ReleaseMilestone, Releasable, HasCurrentMilestone, CurrentIndex
  <2>2. m \in Milestone
    BY <1>a, <2>1
  <2>3. m.amount \in Nat /\ m.recipient \in Accounts /\ m.recipient # Vault
    BY <1>1, <2>2, VaultAssumption, AccountsFacts
       DEF ReleaseMilestone, CanTransfer, Milestone
  <2>4. balance'[Vault] = balance[Vault] - m.amount
    BY <1>1, <1>a, <2>3, AccountsFacts DEF ReleaseMilestone, Transfer
  <2>5. out = m.amount
    BY <1>a, <2>3, <2>4
  <2>6. milestone'[c][CurrentIndex(c)].status = "Released"
    BY <1>1, <1>a, <2>1 DEF ReleaseMilestone, Milestone
  <2> QED
    BY <1>1, <2>5, <2>6 DEF ReleaseMilestone, Releasable
<1>2. ASSUME NEW c \in CampaignIds, ExecuteClawback(c)
      PROVE  c \in created /\ ClawedBack(c)
  <2>1. /\ c \in created
        /\ campaign[c].paused
        /\ ~campaign[c].clawback_executed
        /\ campaign[c].total_deposited > 0
        /\ Remaining(c) > 0
    BY <1>2 DEF ExecuteClawback, ClawbackAllowed, ThresholdMet
  <2>2. campaign'[c].clawback_executed
    BY <1>2, <1>a DEF ExecuteClawback, Campaign
  <2>3. RefundTotal(c) \in Nat /\ balance'[Vault] = balance[Vault] - RefundTotal(c)
    BY <1>2, <1>a, AccountsFacts DEF ExecuteClawback
  <2>4. out = RefundTotal(c)
    BY <1>a, <2>3
  <2>5. /\ RefundTotal(c) <= Remaining(c)
        /\ RefundTotal(c) > Remaining(c) - Cardinality(Range(donorList[c]))
    BY <1>a, <2>1, RefundTotalBounds
  <2> QED
    BY <2>1, <2>2, <2>4, <2>5
<1>3. ASSUME NEW c \in CampaignIds, NEW d \in Donors, NEW amount \in DepositAmounts,
             Deposit(c, d, amount)
      PROVE  FALSE
  <2>1. amount \in Nat /\ d \in Accounts /\ d # Vault
    BY <1>3, AccountsFacts, VaultAssumption DEF Deposit
  <2>2. balance'[Vault] = balance[Vault] + amount
    BY <1>3, <1>a, <2>1, AccountsFacts DEF Deposit, Transfer
  <2> QED
    BY <1>a, <2>1, <2>2
<1>4. ~UNCHANGED balance
  BY <1>a
<1>5. \E c \in created : Paid(c) \/ ClawedBack(c)
  <2> HIDE DEF Paid, ClawedBack
  <2> QED
    BY <1>1, <1>2, <1>3, <1>4
       DEF Next, vars, Initialize, CreateCampaign, VerifyMilestone, PauseCampaign,
           UnpauseCampaign, SetPaused, VotePause, RevokeVote
<1> QED
  BY <1>5

\* In every run of a deployed contract tokens leave the vault only for a
\* verified milestone of an unpaused campaign or in a paused campaign's first
\* clawback, and then for all that remains up to rounding.
THEOREM PayoutsEarned == DeployedSpec => PayoutsAreEarned
<1>1. DeployedInit => DeployedInv /\ MilestonesInOrder /\ TotalsAgree
  BY InitDeployed, InitOrder, InitTotals
<1>2. DeployedInv /\ MilestonesInOrder /\ TotalsAgree /\ [Next]_vars
        => (DeployedInv /\ MilestonesInOrder /\ TotalsAgree)'
  BY NextDeployed, NextOrder, NextTotals DEF DeployedInv
<1>3. DeployedInv /\ TotalsAgree /\ [Next]_vars =>
        [balance'[Vault] < balance[Vault] =>
          LET out == balance[Vault] - balance'[Vault]
          IN \E c \in created :
               \/ /\ ~campaign[c].paused
                  /\ HasCurrentMilestone(c)
                  /\ milestone[c][CurrentIndex(c)].status = "Verified"
                  /\ milestone'[c][CurrentIndex(c)].status = "Released"
                  /\ out = milestone[c][CurrentIndex(c)].amount
                  /\ UNCHANGED refunded
               \/ /\ campaign[c].paused
                  /\ ~campaign[c].clawback_executed
                  /\ campaign'[c].clawback_executed
                  /\ out <= Remaining(c)
                  /\ out > Remaining(c) - Cardinality(Range(donorList[c]))]_vars
  BY NextPayouts
<1> QED
  BY <1>1, <1>2, <1>3, PTL DEF DeployedSpec, PayoutsAreEarned

-----------------------------------------------------------------------------
(* The vault implements the escrow. *)

\* The fields of a campaign's account, before and after a step.
LEMMA AccountFields ==
    ASSUME NEW c \in CampaignIds
    PROVE  /\ AccountOf(c).raised = campaign[c].total_deposited
           /\ AccountOf(c).spent = campaign[c].total_released
           /\ AccountOf(c).stage = campaign[c].current_milestone
           /\ AccountOf(c).approved <=> CurrentVerified(c)
           /\ AccountOf(c).frozen = campaign[c].paused
           /\ AccountOf(c).settled = campaign[c].clawback_executed
           /\ AccountOf(c)'.raised = campaign'[c].total_deposited
           /\ AccountOf(c)'.spent = campaign'[c].total_released
           /\ AccountOf(c)'.stage = campaign'[c].current_milestone
           /\ AccountOf(c)'.approved <=> CurrentVerified(c)'
           /\ AccountOf(c)'.frozen = campaign'[c].paused
           /\ AccountOf(c)'.settled = campaign'[c].clawback_executed
  BY DEF AccountOf

LEMMA AccountType ==
    ASSUME NEW c \in CampaignIds
    PROVE  /\ campaign[c] \in Campaign => AccountOf(c) \in Escrow!Account
           /\ campaign'[c] \in Campaign => AccountOf(c)' \in Escrow!Account
<1>1. CurrentVerified(c) \in BOOLEAN /\ CurrentVerified(c)' \in BOOLEAN
  BY DEF CurrentVerified
<1>2. ASSUME campaign[c] \in Campaign
      PROVE  AccountOf(c) \in Escrow!Account
  BY <1>1, <1>2, CampaignFields DEF AccountOf, Escrow!Account
<1>3. ASSUME campaign'[c] \in Campaign
      PROVE  AccountOf(c)' \in Escrow!Account
  BY <1>1, <1>3, CampaignFields DEF AccountOf, Escrow!Account
<1> QED
  BY <1>2, <1>3

(* The steps of the escrow, field by field. *)

LEMMA DonateStep ==
    ASSUME NEW e \in Escrow!Account, NEW f \in Escrow!Account,
           ~e.frozen, ~e.settled, f.raised > e.raised,
           f.spent = e.spent, f.stage = e.stage, f.approved <=> e.approved,
           f.frozen = e.frozen, f.settled = e.settled
    PROVE  Escrow!AccountStep(e, f)
<1>1. f = [e EXCEPT !.raised = f.raised]
  BY DEF Escrow!Account
<1> QED
  BY <1>1 DEF Escrow!Donate, Escrow!AccountStep

LEMMA ApproveStep ==
    ASSUME NEW e \in Escrow!Account, NEW f \in Escrow!Account,
           ~e.frozen, ~e.approved, f.approved,
           f.raised = e.raised, f.spent = e.spent, f.stage = e.stage,
           f.frozen = e.frozen, f.settled = e.settled
    PROVE  Escrow!AccountStep(e, f)
<1>1. f = [e EXCEPT !.approved = TRUE]
  BY DEF Escrow!Account
<1> QED
  BY <1>1 DEF Escrow!Approve, Escrow!AccountStep

LEMMA ReleaseStep ==
    ASSUME NEW e \in Escrow!Account, NEW f \in Escrow!Account,
           ~e.frozen, e.approved, ~f.approved, f.spent >= e.spent,
           f.stage = e.stage + 1,
           f.raised = e.raised, f.frozen = e.frozen, f.settled = e.settled
    PROVE  Escrow!AccountStep(e, f)
<1>1. f = [e EXCEPT !.spent = f.spent, !.stage = e.stage + 1, !.approved = FALSE]
  BY DEF Escrow!Account
<1> QED
  BY <1>1 DEF Escrow!Release, Escrow!AccountStep

LEMMA FlagChange ==
    ASSUME NEW e \in Escrow!Account, NEW f \in Escrow!Account,
           f.raised = e.raised, f.spent = e.spent, f.stage = e.stage,
           f.approved <=> e.approved, f.settled = e.settled
    PROVE  Escrow!AccountStep(e, f)
<1>1. CASE f.frozen = TRUE
  <2>1. f = [e EXCEPT !.frozen = TRUE]
    BY <1>1 DEF Escrow!Account
  <2> QED
    BY <2>1 DEF Escrow!Freeze, Escrow!AccountStep
<1>2. CASE f.frozen = FALSE
  <2>1. f = [e EXCEPT !.frozen = FALSE]
    BY <1>2 DEF Escrow!Account
  <2> QED
    BY <2>1 DEF Escrow!Thaw, Escrow!AccountStep
<1> QED
  BY <1>1, <1>2 DEF Escrow!Account

LEMMA SettleStep ==
    ASSUME NEW e \in Escrow!Account, NEW f \in Escrow!Account,
           e.frozen, ~e.settled, f.settled,
           f.raised = e.raised, f.spent = e.spent, f.stage = e.stage,
           f.approved <=> e.approved, f.frozen = e.frozen
    PROVE  Escrow!AccountStep(e, f)
<1>1. f = [e EXCEPT !.settled = TRUE]
  BY DEF Escrow!Account
<1> QED
  BY <1>1 DEF Escrow!Settle, Escrow!AccountStep

LEMMA SameFields ==
    ASSUME NEW e \in Escrow!Account, NEW f \in Escrow!Account,
           f.raised = e.raised, f.spent = e.spent, f.stage = e.stage,
           f.approved <=> e.approved, f.frozen = e.frozen, f.settled = e.settled
    PROVE  f = e
  BY DEF Escrow!Account

LEMMA InitRefines == DeployedInit => Escrow!Init
<1> SUFFICES ASSUME DeployedInit, NEW c \in CampaignIds
             PROVE  AccountOf(c) = Escrow!EmptyAccount
  BY DEF Escrow!Init
<1>1. campaign[c] = NewCampaign /\ milestone[c] = <<>>
  BY DEF DeployedInit, EmptyStorage
<1>2. CurrentVerified(c) = FALSE
  BY <1>1 DEF CurrentVerified, HasCurrentMilestone, NewCampaign
<1>3. AccountOf(c) = [raised |-> 0, spent |-> 0, stage |-> 0,
                      approved |-> CurrentVerified(c), frozen |-> FALSE,
                      settled |-> FALSE]
  BY <1>1 DEF AccountOf, NewCampaign
<1> QED
  BY <1>2, <1>3 DEF Escrow!EmptyAccount

\* One account moving by a step of the escrow, the others standing still.
LEMMA AccountStepIsNext ==
    ASSUME NEW c \in CampaignIds,
           Escrow!AccountStep(AccountOf(c), AccountOf(c)'),
           \A x \in CampaignIds \ {c} : AccountOf(x)' = AccountOf(x)
    PROVE  Escrow!Next
  BY DEF Escrow!Next

\* No account moving.
LEMMA AccountsStand ==
    ASSUME \A x \in CampaignIds : AccountOf(x)' = AccountOf(x)
    PROVE  UNCHANGED [c \in CampaignIds |-> AccountOf(c)]
  OBVIOUS

\* The accounts of the campaigns an invocation does not name.
LEMMA OtherAccounts ==
    ASSUME NEW c \in CampaignIds,
           \A x \in CampaignIds \ {c} :
              campaign'[x] = campaign[x] /\ milestone'[x] = milestone[x]
    PROVE  \A x \in CampaignIds \ {c} : AccountOf(x)' = AccountOf(x)
  BY DEF AccountOf, CurrentVerified, HasCurrentMilestone, CurrentIndex

\* A change of nothing but a campaign's pause flag and vote weight.
LEMMA FlagStep ==
    ASSUME NEW c \in CampaignIds, UNCHANGED milestone,
           campaign[c] \in Campaign, campaign'[c] \in Campaign,
           \A x \in CampaignIds \ {c} : campaign'[x] = campaign[x],
           campaign'[c].total_deposited = campaign[c].total_deposited,
           campaign'[c].total_released = campaign[c].total_released,
           campaign'[c].current_milestone = campaign[c].current_milestone,
           campaign'[c].clawback_executed = campaign[c].clawback_executed
    PROVE  Escrow!Next
<1>1. \A x \in CampaignIds \ {c} : AccountOf(x)' = AccountOf(x)
  BY OtherAccounts
<1>2. CurrentVerified(c)' <=> CurrentVerified(c)
  BY DEF CurrentVerified, HasCurrentMilestone, CurrentIndex
<1>3. Escrow!AccountStep(AccountOf(c), AccountOf(c)')
  BY <1>2, AccountFields, AccountType, FlagChange
<1> QED
  BY <1>1, <1>3, AccountStepIsNext

LEMMA NextRefines ==
    DeployedInv /\ MilestonesInOrder /\ [Next]_vars
        => [Escrow!Next]_[c \in CampaignIds |-> AccountOf(c)]
<1> SUFFICES ASSUME DeployedInv, MilestonesInOrder, [Next]_vars
             PROVE  [Escrow!Next]_[c \in CampaignIds |-> AccountOf(c)]
  OBVIOUS
<1>a. /\ campaign \in [CampaignIds -> Campaign]
      /\ milestone \in [CampaignIds -> Seq(Milestone)]
      /\ \A c \in CampaignIds : DOMAIN milestone[c] = 1 .. Len(milestone[c])
      /\ \A c \in CampaignIds : Len(milestone[c]) \in Nat
  BY DEF DeployedInv, TypeOK
<1>b. \A c \in CampaignIds : campaign[c] \in Campaign /\ campaign'[c] \in Campaign
  <2>1. TypeOK'
    BY NextType DEF DeployedInv
  <2> QED
    BY <1>a, <2>1 DEF TypeOK
<1>c. \A c \in CampaignIds :
         AccountOf(c) \in Escrow!Account /\ AccountOf(c)' \in Escrow!Account
  BY <1>b, AccountType
<1>1. ASSUME NEW plan \in MilestonePlans, CreateCampaign(plan)
      PROVE  UNCHANGED [c \in CampaignIds |-> AccountOf(c)]
  <2>0. PICK id \in CampaignIds \ created : id = campaignCount
    BY <1>1, CreateIsFresh
  <2>1. /\ campaign[id] = NewCampaign
        /\ campaign' = campaign
    BY <1>1, <2>0, CreateIsFresh
  <2>2. \A x \in CampaignIds \ {id} : AccountOf(x)' = AccountOf(x)
    BY <1>1, <1>a, <2>0, OtherAccounts, <2>1 DEF CreateCampaign
  <2>3. ~CurrentVerified(id)
    <3>1. milestone[id] = <<>>
      BY <2>0 DEF DeployedInv, IdsAreFresh
    <3> QED
      BY <2>1, <3>1 DEF CurrentVerified, HasCurrentMilestone, NewCampaign
  <2>4. ~CurrentVerified(id)'
    <3>1. plan \in Seq(MilestoneInput) /\ Len(plan) > 0
      BY <1>1, VaultAssumption DEF CreateCampaign
    <3>2. milestone'[id] = [i \in 1 .. Len(plan) |->
                              [amount    |-> plan[i].amount,
                               recipient |-> plan[i].recipient,
                               status    |-> "Pending"]]
      BY <1>1, <1>a, <2>0 DEF CreateCampaign
    <3>3. Len(plan) \in Nat /\ 1 \in 1 .. Len(plan)
      BY <3>1
    <3>4. milestone'[id][1].status = "Pending"
      BY <3>2, <3>3
    <3>5. campaign'[id].current_milestone + 1 = 1
      BY <2>1 DEF NewCampaign
    <3> QED
      BY <3>4, <3>5 DEF CurrentVerified, CurrentIndex
  <2>5. AccountOf(id)' = AccountOf(id)
    BY <1>c, <2>1, <2>3, <2>4, AccountFields, SameFields
  <2> QED
    BY <2>1, <2>2, <2>5, AccountsStand
<1>2. ASSUME NEW c \in CampaignIds, NEW d \in Donors, NEW amount \in DepositAmounts,
             Deposit(c, d, amount)
      PROVE  Escrow!Next
  <2>1. \A x \in CampaignIds \ {c} : AccountOf(x)' = AccountOf(x)
    BY <1>2, <1>a, OtherAccounts DEF Deposit
  <2>2. /\ amount \in Nat /\ amount > 0
        /\ campaign[c].total_deposited \in Nat
    BY <1>2, <1>b, VaultAssumption, CampaignFields DEF Deposit
  <2>3. campaign'[c] = [campaign[c] EXCEPT
                          !.total_deposited = campaign[c].total_deposited + amount]
    BY <1>2, <1>a DEF Deposit
  <2>4. /\ campaign'[c].total_deposited > campaign[c].total_deposited
        /\ campaign'[c].total_released = campaign[c].total_released
        /\ campaign'[c].current_milestone = campaign[c].current_milestone
        /\ campaign'[c].paused = campaign[c].paused
        /\ campaign'[c].clawback_executed = campaign[c].clawback_executed
    BY <1>b, <2>2, <2>3 DEF Campaign
  <2>5. CurrentVerified(c)' <=> CurrentVerified(c)
    BY <1>2, <2>4
       DEF Deposit, CurrentVerified, HasCurrentMilestone, CurrentIndex
  <2>6. Escrow!AccountStep(AccountOf(c), AccountOf(c)')
    BY <1>2, <1>c, <2>4, <2>5, AccountFields, DonateStep DEF Deposit, OpenForDeposits
  <2> QED
    BY <2>1, <2>6, AccountStepIsNext
<1>3. ASSUME NEW c \in CampaignIds, VerifyMilestone(c)
      PROVE  Escrow!Next
  <2>1. \A x \in CampaignIds \ {c} : AccountOf(x)' = AccountOf(x)
    BY <1>3, <1>a, OtherAccounts DEF VerifyMilestone
  <2>2. CurrentIndex(c) \in DOMAIN milestone[c]
    BY <1>3, <1>a, <1>b, CampaignFields
       DEF VerifyMilestone, HasCurrentMilestone, CurrentIndex
  <2>3. ~CurrentVerified(c)
    BY <1>3 DEF VerifyMilestone, CurrentVerified
  <2>4. CurrentVerified(c)'
    <3>1. /\ milestone'[c][CurrentIndex(c)].status = "Verified"
          /\ Len(milestone'[c]) = Len(milestone[c])
      BY <1>3, <1>a, <2>2 DEF VerifyMilestone, Milestone
    <3> QED
      BY <1>3, <3>1 DEF VerifyMilestone, CurrentVerified, HasCurrentMilestone,
                        CurrentIndex
  <2>5. campaign' = campaign /\ ~campaign[c].paused
    BY <1>3 DEF VerifyMilestone
  <2>6. Escrow!AccountStep(AccountOf(c), AccountOf(c)')
    BY <1>c, <2>3, <2>4, <2>5, AccountFields, ApproveStep
  <2> QED
    BY <2>1, <2>6, AccountStepIsNext
<1>4. ASSUME NEW c \in CampaignIds, ReleaseMilestone(c)
      PROVE  Escrow!Next
  <2> DEFINE m == milestone[c][CurrentIndex(c)]
             cur == campaign[c].current_milestone
  <2>1. \A x \in CampaignIds \ {c} : AccountOf(x)' = AccountOf(x)
    BY <1>4, <1>a, OtherAccounts DEF ReleaseMilestone
  <2>2. /\ CurrentIndex(c) \in DOMAIN milestone[c]
        /\ cur \in Nat
        /\ campaign[c].total_released \in Nat
    BY <1>4, <1>a, <1>b, CampaignFields
       DEF ReleaseMilestone, Releasable, HasCurrentMilestone, CurrentIndex
  <2>3. m.amount \in Nat
    <3>1. m \in Milestone
      BY <1>a, <2>2
    <3> QED
      BY <1>4, <3>1 DEF ReleaseMilestone, CanTransfer, Milestone
  <2>4. campaign'[c] = [campaign[c] EXCEPT
                          !.total_released = campaign[c].total_released + m.amount,
                          !.current_milestone = cur + 1]
    BY <1>4, <1>a DEF ReleaseMilestone, Released
  <2>5. /\ campaign'[c].total_deposited = campaign[c].total_deposited
        /\ campaign'[c].total_released >= campaign[c].total_released
        /\ campaign'[c].current_milestone = cur + 1
        /\ campaign'[c].paused = campaign[c].paused
        /\ campaign'[c].clawback_executed = campaign[c].clawback_executed
    BY <1>b, <2>2, <2>3, <2>4 DEF Campaign
  <2>6. CurrentVerified(c) /\ ~campaign[c].paused
    BY <1>4 DEF ReleaseMilestone, Releasable, CurrentVerified
  <2>7. ~CurrentVerified(c)'
    <3>1. /\ DOMAIN milestone'[c] = DOMAIN milestone[c]
          /\ Len(milestone'[c]) = Len(milestone[c])
          /\ \A i \in DOMAIN milestone[c] \ {cur + 1} :
                milestone'[c][i] = milestone[c][i]
      BY <1>4, <1>a, <2>2 DEF ReleaseMilestone, CurrentIndex
    <3>2. cur + 2 \in DOMAIN milestone[c]
             => milestone'[c][cur + 2].status # "Verified"
      BY <2>2, <3>1 DEF MilestonesInOrder
    <3> QED
      BY <1>a, <2>2, <2>5, <3>1, <3>2
         DEF CurrentVerified, HasCurrentMilestone, CurrentIndex
  <2>8. Escrow!AccountStep(AccountOf(c), AccountOf(c)')
    BY <1>c, <2>5, <2>6, <2>7, AccountFields, ReleaseStep
  <2> QED
    BY <2>1, <2>8, AccountStepIsNext
<1>5. ASSUME NEW c \in CampaignIds, NEW flag \in BOOLEAN, SetPaused(c, flag)
      PROVE  Escrow!Next
  BY <1>5, <1>a, <1>b, FlagStep DEF SetPaused, Campaign
<1>6. ASSUME NEW c \in CampaignIds, NEW d \in Donors, VotePause(c, d)
      PROVE  Escrow!Next
  BY <1>6, <1>a, <1>b, FlagStep DEF VotePause, Campaign
<1>7. ASSUME NEW c \in CampaignIds, NEW d \in Donors, RevokeVote(c, d)
      PROVE  Escrow!Next
  BY <1>7, <1>a, <1>b, FlagStep DEF RevokeVote, Campaign
<1>8. ASSUME NEW c \in CampaignIds, ExecuteClawback(c)
      PROVE  Escrow!Next
  <2>1. \A x \in CampaignIds \ {c} : AccountOf(x)' = AccountOf(x)
    BY <1>8, <1>a, OtherAccounts DEF ExecuteClawback
  <2>2. campaign'[c] = [campaign[c] EXCEPT !.clawback_executed = TRUE]
    BY <1>8, <1>a DEF ExecuteClawback
  <2>3. /\ campaign'[c].total_deposited = campaign[c].total_deposited
        /\ campaign'[c].total_released = campaign[c].total_released
        /\ campaign'[c].current_milestone = campaign[c].current_milestone
        /\ campaign'[c].paused = campaign[c].paused
        /\ campaign'[c].clawback_executed
    BY <1>b, <2>2 DEF Campaign
  <2>4. CurrentVerified(c)' <=> CurrentVerified(c)
    BY <1>8, <2>3
       DEF ExecuteClawback, CurrentVerified, HasCurrentMilestone, CurrentIndex
  <2>5. campaign[c].paused /\ ~campaign[c].clawback_executed
    BY <1>8 DEF ExecuteClawback, ClawbackAllowed
  <2>6. Escrow!AccountStep(AccountOf(c), AccountOf(c)')
    BY <1>c, <2>3, <2>4, <2>5, AccountFields, SettleStep
  <2> QED
    BY <2>1, <2>6, AccountStepIsNext
<1>9. CASE UNCHANGED <<campaign, milestone>>
  BY <1>9, AccountsStand
     DEF AccountOf, CurrentVerified, HasCurrentMilestone, CurrentIndex
<1> QED
  BY <1>1, <1>2, <1>3, <1>4, <1>5, <1>6, <1>7, <1>8, <1>9
     DEF Next, vars, Initialize, PauseCampaign, UnpauseCampaign

\* A vault whose first call was initialize keeps the escrow's promise for
\* every campaign, whatever the admin, the organisers and the donors call.
THEOREM VaultImplementsEscrow == DeployedSpec => ImplementsEscrow
<1>1. DeployedInit => DeployedInv /\ MilestonesInOrder
  BY InitDeployed, InitOrder
<1>2. DeployedInv /\ MilestonesInOrder /\ [Next]_vars
        => (DeployedInv /\ MilestonesInOrder)'
  BY NextDeployed, NextOrder DEF DeployedInv
<1>3. DeployedInit => Escrow!Init
  BY InitRefines
<1>4. DeployedInv /\ MilestonesInOrder /\ [Next]_vars
        => [Escrow!Next]_[c \in CampaignIds |-> AccountOf(c)]
  BY NextRefines
<1> QED
  BY <1>1, <1>2, <1>3, <1>4, PTL DEF DeployedSpec, ImplementsEscrow, Escrow!Spec
=============================================================================
