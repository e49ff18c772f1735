# LINGAP: a verification project

LINGAP is a donation platform: a FastAPI backend with a relational database,
three Soroban contracts on Stellar, and a Next.js client. Donors fund campaigns
through an escrow contract that pays institutions milestone by milestone; donors
can vote to pause a campaign and claw its unspent funds back. The backend keeps
its own ledger of balances and donations, reviews campaigns and fund releases,
and gates aid disbursements behind proofs.

This directory holds TLA+ models of that program, the TLC configurations that
check them and the TLAPS proofs about them. `PROJECT.json` maps every definition
to the lines it models and lists components, runs, mutants, findings, hazards
and theorems. Paths below are relative to `src/`.

1. [The system](#1-the-system)
2. [The modules](#2-the-modules)
3. [The runs](#3-the-runs)
4. [The proofs](#4-the-proofs)
5. [Where code and documentation disagree](#5-where-code-and-documentation-disagree)
6. [What is not modelled](#6-what-is-not-modelled)
7. [Plan](#7-plan)

## 1. The system

### Components

| Component | State it keeps | Operations | What makes it correct |
|---|---|---|---|
| **DonationVault contract** (`contracts/donation_vault/src/lib.rs`) | per campaign: totals, position in its milestones, `paused`, vote weight, `clawback_executed`; deposits, donor list and votes; one pool of tokens for all campaigns | `initialize`, `create_campaign`, `deposit`, `verify_milestone`, `release_milestone`, `pause_campaign`, `unpause_campaign`, `vote_pause`, `revoke_vote`, `execute_clawback` | no token is lost or invented; money leaves for a verified current milestone or a clawback with a majority, and not otherwise; refunds are fair and final |
| **Balance and donations** (`backend/app/api/v1/balance.py`, `donations.py`) | `donations`, `balance_transactions`, `donation_certificates` | top up with a verified payment; donate from the wallet or from the balance | a donation is charged once, to its donor; what counts as confirmed is paid for; nobody spends more than was credited |
| **Aid requests, proofs, progress** (`aid_requests.py`, `proofs.py`, `progress.py`, `beneficiaries.py`) | request status, risk level and `proof_count`; proof rows; progress and its verification; `total_received`; provenance records | create, approve, reject, disburse; upload and delete proofs; post and verify progress; verify a beneficiary | payments follow approval and, behind the gate, evidence; what is recorded as paid is not paid again; the books never claim more than was sent |
| **Campaign drives** (`campaigns.py`) | campaign rows, the change log `campaign_drive_changes`, the donations' `disbursed` mark | create, change cover, ask for deletion, ask for release; approve, reject, close a release | what the public sees was approved; a decision stands; donations are marked by their own campaign's release |
| **Soroban client** (`backend/app/stellar/`) | none of its own; account sequence number on Stellar | invoke, poll for confirmation, pay | what is reported as confirmed was applied |
| **Fund release engine** (`backend/fund_release_engine.py`, `fund_release.py`) | tables in memory that only tests fill | request, emergency request, milestone proof | a frozen account releases nothing |
| **Donor streaks** (`backend/app/streaks/`) | per donor: the cached streak, the unlocked rewards | recompute, scheduled when a confirmation is flushed or asked for | the streak is that of the months of the committed donations; nothing is unlocked that they do not bear out |
| **Volunteering** (`volunteer.py`) | opportunities with `slots_filled`, applications | offer, apply | no opportunity is overfilled |
| **Risk audit** (`backend/app/ai/`) | assessments, open scam flags, cached score and level per aid request | scan in the background or on demand, reuse by input hash, decide a flag | a scan leaves what it found, and opens no flag that is open; the rules are a lower bound of what the model says (which a score that is no number breaks) |
| **Credibility score** (`backend/app/credibility/`) | the latest score of a beneficiary | recompute | bounded |
| **Certificates** (`backend/app/certificates/`) | certificate rows | issue, render, anchor | one certificate per donation |
| **BeneficiaryRegistry, AidProvenance contracts** | counters and records | register, record | append-only, admin only |
| **Web client: donor's wallet** (`frontend/src/hooks/useFreighter.ts`, `lib/stellar.ts`, `app/(marketing)/detail`, `components/balance/TopUpModal.tsx`, `lib/pendingDonations.ts`) | the hook's connection, how far a page's handler is, donations waiting in localStorage | connect, build, sign and submit a payment, tell the backend, replay | what is recorded was paid; what was paid is recorded or the donor knows |
| **Web client: staff desk** (`app/(marketing)/admin`, `app/aid-requests`, `app/beneficiaries`, `campaigns/[id]/edit`) | copies of the server's lists, a dialog, calls in flight, a form | fetch, decide, save | a list never gets older; nothing hangs; a form asks for no cover that the campaign has not had, unless it was picked |
| **Web client: session** (`store/authStore.ts`, `lib/api.ts`, login, the two gates, navigation) | two tokens in localStorage, a copy per tab | sign in and out, rehydrate, refuse, redirect | the copies agree; a tab acts as who it shows until another tab signs in or out |
| **Web client: live pages** (home, discover, proof, escrow, community, profile, certificate, volunteer, my-campaigns, donor, detail, the voting panel) | per page a copy of records, a loading state, loads in flight | load, poll, switch, act and load again | what is shown belongs to what was asked for, is not replaced by something older, and catches up |
| **Web client: other pages** | none that outlives a call | one read or one call each | no protocol of their own |
| **Accounts, views, schemas, rendering** | users | log in, read | no protocol of their own |

### How they interact

- The client signs a payment in the donor's wallet, then tells the backend the
  hash. The backend asks Horizon whether the payment landed
  (`verify_transaction`, `verify_native_payment`). Payment and record are thus
  two systems that meet only in the hash.
- Escrow calls reach the vault through the Soroban client or straight from the
  wallet. The vault calls the token contract and no other.
- `donations.confirmed` is written by the ledger and read by the campaign
  review, which marks donations disbursed. An aid request's cached risk level is
  written by the risk audit and read by the disbursement gate. The listener of
  the streaks sees donations when they are flushed, before they are committed.
- Within the client the pages share localStorage (session, waiting donations)
  and the extension's permission; every tab has its own memory. Pages meet each
  other only through the backend's rows, which each of them copies when it likes.
- Within the backend components share only database rows. There is one event
  loop per process; handlers interleave at their awaits and take no locks.

### What is hard

- **Interleaving at awaits.** Almost every handler reads a row, awaits, and
  writes from what it read: balances, `proof_count`, `total_received`, verdicts.
- **Two commits, or a payment and a commit.** A donation and its charge are two
  commits; a disbursement pays before it commits. The process may die between.
- **Answers that never come.** Horizon may take a payment and not answer; a
  client may retry with the same hash.
- **Answers out of order.** A page that polls, switches and acts has several
  calls on their way; an answer may come after the effect that asked for it was
  replaced, or after a verdict that it does not know of.
- **Work in the background.** The recomputation of a streak and the scan of an
  aid request run beside the request that started them, in sessions of their
  own; a scan waits for a language model, which may be wrong, late or absent.
- **Pay first, ask later.** The wallet pays before the backend is asked whether
  it will take the donation, and the tab may be closed in between.
- **Several tabs, one browser.** The token every tab sends is shared; the user
  every tab shows is not.
- **Shared state.** One token pool for all campaigns, one `paused` flag for the
  admin and the donors, one log entry for two reviewers.
- **Sequences of legal calls.** Vote, deposit, revoke; clawback, unpause,
  release; create before initialize; reject after disbursing.
- **Rounding and unchecked numbers.** Refund shares round down; milestone
  amounts may be zero or negative.

`PROJECT.json` lists these hazards at their lines with the properties that
cover them.

## 2. The modules

    EscrowLifecycle          what an escrow promises (abstract)
         ^  implemented by
    VaultRefinement          refinement mapping
         | EXTENDS
    DonationVault            the contract
    DonationLedger           balances and donations
    AidDisbursement          aid requests, proofs, payment
    CampaignReview           campaign drives, change log, releases
    DonorWallet              the browser that pays, in front of DonationLedger
    ReviewDesk               the pages that decide, in front of CampaignReview
                             and AidDisbursement; the organizer's form
    WebSession               who is signed in, in which tab
    LivePages                the pages that show the server's records
    DonorStreaks             the streak, its listener, beside DonationLedger
    RiskAudit                the scans of an aid request, whose level
                             AidDisbursement reads

Each has an `MC...` module with the values of its constants for TLC, and a
`...Proofs` module with its theorems: `WebClientProofs` extends `WebSession` and
`LivePages`, `BackgroundProofs` extends `DonorStreaks` and `RiskAudit`, and
`DonationVaultProofs` has the refinement, too. In every module the comments name the code; some definitions are preceded by a variant nothing uses (`MayVoteAgain`
before `MayVote`): it is the plausible bug under which a property must fail.

**Granularity.** One action of the vault is one contract invocation: Soroban
runs it alone and a panic undoes all of it, so each `assert!` is a conjunct of
the guard and a panic is no step. One action of a backend module is the stretch
of a coroutine up to its next await on the database or the network: nothing
else in the process runs in between, and everything else may run after it. What
a request holds across the await (the row it read, the count it will add to) is
in its slot. A client module does the same with a page: JavaScript runs one
handler up to its next await, so an action is that stretch, and an answer is two
steps, one in which the server takes the call and one in which the page gets to
know. The server's own interleavings belong to the backend's modules; of them
`ReviewDesk` keeps what the pages can see, that a verdict is checked against the
row as it was read and written later. Reads see committed rows (PostgreSQL at READ COMMITTED) and lock
nothing; a flushed write holds its row until the commit. A handler that writes
after its only read, when nobody can undo what it read, is one action.

### DonationVault, EscrowLifecycle, VaultRefinement

| TLA+ | `contracts/donation_vault/src/lib.rs` |
|---|---|
| `campaign`, `milestone`, `deposits`, `donorList`, `voters`, `campaignCount` | the `DataKey` entries |
| `initialized`, `created` | whether `Admin`/`Token`, resp. `Campaign(id)`, are set |
| `balance`, `Transfer`, `CanTransfer` | the token contract as `token::Client` uses it |
| `refunded` | history: what `execute_clawback` paid each donor |
| `Initialize`, `CreateCampaign`, `Deposit`, `VerifyMilestone`, `ReleaseMilestone`, `PauseCampaign`, `UnpauseCampaign`, `VotePause`, `RevokeVote`, `ExecuteClawback` | the functions of those names |

`initialize` and `create_campaign` may come in any order, because
`create_campaign` asks neither for the admin nor for an initialized contract.
So there are two initial conditions: `Init`, the contract just deployed, and
`DeployedInit`, where `initialize` was the first call. Properties of shape hold
from `Init`; those of money need `DeployedInit` (campaign ids are otherwise
handed out twice). Authorisation is represented by who takes the action. The
milestones' descriptions and the organizer's address are left out, the queries
change nothing. `VaultAssumption` excludes the vault's own address as a donor
or recipient: nobody can sign for it, and paying it to itself would be no payout.

`EscrowLifecycle` says what an escrow promises about one campaign: donations
only while neither frozen nor settled, each release uses up one approval and
happens while not frozen, one settlement and only while frozen, nothing taken
back. It knows no votes, donors, plans or tokens. `VaultRefinement` maps
`total_deposited`, `total_released`, `current_milestone`, "the current milestone
is Verified", `paused` and `clawback_executed` to it. The abstract escrow lets a
settled account release again, because the contract does (section 5).

### DonationLedger

| TLA+ | code |
|---|---|
| `successful`, `paid` | the transactions that Stellar has applied, and what each paid to LINGAP, as Horizon shows them (external) |
| `donations`, `posted`, `certified` | the rows of `donations`, `balance_transactions`, `donation_certificates` |
| `pc`, `body` | where each request is, and its request body |
| `StartDonation` ... `CertifyDonation` | `create_donation`: lookup by hash, balance, insert and commit, charge and commit, verification, certificate |
| `StartTopUp`, `VerifyPayment`, `CreditTopUp` | `simulate_top_up` |
| `Abort` | the process dies, or a database call raises, between two stretches |
| `stranded`, `aborts` | history: the hashes whose own request died between the row and its charge; how many died |

`verify_transaction` asks only whether a transaction with that hash succeeded,
so a donation is confirmed by any of them, whatever it paid and to whom
(`VerifyDonation`); a top-up is checked for its destination and amount
(`Verified`). The UNIQUE `stellar_tx_hash` of donations is `CanInsert`; top-ups have an index
only, so nothing guards `CreditTopUp`. A reference made up by the backend is
drawn from `References`; a donation without a hash starts only while one is
free. Balances are computed from the rows, as in the code, and read as empty
when overdrawn. A request sent again is another `StartDonation` with the same body.

### AidDisbursement

| TLA+ | code |
|---|---|
| `status`, `approved`, `critical`, `proofCount` | columns of `aid_requests` |
| `uploaded`, `live` | `proof_artifacts`, those without `deleted_at` |
| `progress`, `decisions` | progress updates and their verifications |
| `received`, `provenance` | `beneficiaries.total_received`, `provenance_records` |
| `payments`, `sent` | what really left on Stellar (external) |
| `ReadForApproval`/`Approve`, `ReadForRejection`/`Reject` | `approve_request`, `reject_request` |
| `ReadForDisbursement`, `CountProofs`, `CountConfirmations`, `PayBeneficiary`, `RecordDisbursement` | `disburse_request` and its gate |
| `ReadForUpload`, `CheckDuplicate`, `StoreProof`; `ReadForDeletion`, `MarkDeleted`, `EraseProof` | upload and deletion of a proof |
| `CreateAidRequest`, `AssessRisk`, `CreateProgress`, `VerifyProgress`, `VerifyBeneficiary` | the one-stretch handlers |
| `overlapped`, `faults` | history: beneficiaries with two calls in flight at once; deaths and lost answers |

`send_payment` blocks the event loop, so reading the beneficiary and paying is
one stretch. A payment is made, refused, or made with its answer lost.
`EnforcesForeignKeys` says whether the database enforces foreign keys
(PostgreSQL, the configured one, does; the SQLite of the tests does not): where
it does, the commit of a disbursement always fails, after the payment. The
theorems hold for both values. `aid_race` takes the tests' database, so that
disbursements are recorded at all and their races have something to go wrong in.
On the configured one no payment is ever recorded (`PaymentsAreTracked`, section 5).

### CampaignReview

| TLA+ | code |
|---|---|
| `status`, `image` | columns of `campaign_drives` |
| `log` | `campaign_drive_changes`, in the order of `created_at`; the entries that are reviewed |
| `confirmed`, `disbursed` | `blockchain_confirmed` and the disbursed mark of donations |
| `UpdateImage`, `RequestDeletion`, `RequestRelease`, `LogChange` | the organizer's endpoints: read and check, then insert |
| `ReadForApproval`, `ApproveRelease`, `ApproveDeletion`, `ApproveImage`; `ReadForRejection`, `Reject` | the review endpoints: read the pending entry, then write |
| `ReadForClosing`, `ReadDonations`, `CloseRelease` | verification of a handoff: the entry is flushed and locked, the donations are read and marked |
| `ConfirmDonation` | `donations.py` |
| `overlapped`, `faults` | as above, per campaign |

The properties of this module and of `AidDisbursement` distinguish calls that
overlapped from calls that did not. Nothing in the code prevents overlap, so the
exact properties (`OnePending`, `DecidedOnce`, `LoneDisbursementExact`, `ProofsCounted`,
`RejectionStays`, half of `CoverIsReviewed`, `DeletedIsHidden` and
`DisbursedByRelease`) are about calls that had the row to themselves, however
many other rows were busy; what stays true of calls that race is stated
separately and without that condition (`PaidOnApproval`, `GateEvidence`,
`BooksNotInflated`, the other half of the three).

### DonorWallet

| TLA+ | code under `frontend/src/` |
|---|---|
| `allowed`, `linked`; `CheckWallet`, `ConnectCard`, `ConnectModal`, `AnswerModal` | `hooks/useFreighter.ts` and the buttons that call it |
| `step`, `attempt`; `StartPayment`, `DonateFromBalance`, `BuildPayment`, `SignAndSubmit`, `RecordPayment`, `Confirmed`, `Refresh` | `handleDonate` of `detail/[slug]/page.tsx` and of `detail/page.tsx`, `handleConfirm` of `TopUpModal.tsx`, with the payment of `lib/stellar.ts` |
| `NotSent`, `NoAnswer` and `told` | their `catch` blocks |
| `CloseTab`, `closed` | the donor leaves; nothing of the page survives |
| `pending`, `replaying`; `OpenDashboard`, `Replay`, `ReplayFails` | `lib/pendingDonations.ts`, `loadImpactData` in `donor/page.tsx` |
| `horizon`, `landed`, `sequence`; `Apply`, `Expire` | Stellar: one transaction per sequence number, or none in 180 s (external) |
| `inbox`, `donations`, `credited`; `AcceptDonation`, `AcceptTopUp`, `Refuse` | LINGAP's API as the client uses it |

Pages of the same kind differ in nothing, so one of each kind suffices. The
amounts are one unit. `AcceptDonation` charges the balance also for a donation
that the wallet has just paid for, because the page asks it to. Nothing writes
`lingap_pending_donations` any more (`addPendingDonation` has no caller), so
`Init` starts with what an earlier version may have left.

### ReviewDesk

| TLA+ | code under `frontend/src/app/` |
|---|---|
| `shown`, `loading`; `LoadAll`, `Open`, `Refresh`, `List`, `TakeLists` | the lists of `(marketing)/admin/page.tsx` and `loadAll`; the queries of `aid-requests` and `beneficiaries` |
| `dialog`; `OpenDialog`, `ClickInDialog`, `CloseDialog` | `reviewModal` |
| `Click`, `Send`, `Take`, `Succeed`, `FailVerdict` | the review handlers and mutations: `sent` until the server has taken the call, `taken` until the page knows |
| `form`; `OpenForm`, `PickCover`, `Save`, `SaveText`, `RequestDeletion`, `RequestRelease` | `(marketing)/campaigns/[id]/edit/page.tsx` |
| `normalizeCampaignImage`, `Uploads` | the function of `lib/api.ts`, applied to every campaign the client gets; `_cover_to_data_url`: an upload is stored as data |
| `log`, `proposed`, `cover`; `Appears`, `Accepts`, `Decide`, `Elsewhere` | the endpoints of campaigns, aid requests and beneficiaries: a verdict is checked against an entry of the row's log that was current at some time since it was sent, and appends another |
| `covers` | history: the covers the campaign has had |
| `picked` | history: which requests were made with a file |

One page is mounted, chosen in `Init`; all other staff, and pages that were
left, are `Elsewhere`. The console takes answers as they come and shows a list
it did not get as empty; react-query cancels the older fetch (`Fetch`) and keeps
the old list. The page's row is a copy, and offers what the copy allows. A row
on the server is the log of its statuses, so that two verdicts which both read
"pending" are both written, and so that a list can be told from an older one. A
cover is an image at an address: the backend's own images are stored at one
address and known to the client at another.

### WebSession

| TLA+ | code under `frontend/src/` |
|---|---|
| `token`, `auth` | localStorage: `lingap_token`, `lingap_auth` |
| `store`; `SetAuth`, `ClearAuth`, `Rehydrate` | `store/authStore.ts`, `onRehydrateStorage` included |
| `Request`, `Unauthorized` | the two interceptors of `lib/api.ts` |
| `Login`, `LoginAccepted`, `LoginRefused`, `LoginLost`, `AlreadySignedIn` | `login/page.tsx`, the form of `admin/page.tsx`; registering ends in a login |
| `Gate`, `Navigate`, `SignOut` | `MarketingAuthGate`, `AuthenticatedShell`, the two navigations |
| `session`, `Answered`, `Refused`, `Expire` | the server: whether a token is valid |
| `replaced` | history: tabs whose session another tab has changed since they loaded |

Only requests that need a user are modelled: the campaign endpoints that the
private pages poll depend on nothing but the database (`campaigns.py:979`,
`:1012`), and answer 200 whoever asks.

### LivePages

| TLA+ | code under `frontend/src/` |
|---|---|
| `page`, `key` | which page is mounted; the campaign, search, category or wallet its effect last ran for |
| `load`; `Switch`, `Type`, `Debounced`, `Poll`, `Answer`, `Take`, `Fail`, `Drop` | the effects: what they ask for, their interval or timer, their `mounted` or `active` flag, their `then` and `catch` |
| `sending`; `Send`, `Refetch`, `TopUpConfirmed`, `CommandFails` | a donation, an application, a vote, a top-up, and the load that follows it |
| `shown`, `loading`, `gone`, `word` | the state the page renders from; `notFound()`; what the last answer was |
| `...View` | what each part of each page then says: records, the client's own samples, nothing, an error, a spinner |
| `version` | the server's records, by how often they changed |

The pages differ in four respects, named by the sets at the top of the module:
whether they poll, whether they drop the answers of a replaced effect
(`Guarded`), whether they keep what they had after a failure (`Keeping`), and
whether they say that they load (`Flagged`). All pages are checked in one run,
each chosen in `Init`.

### DonorStreaks

| TLA+ | code under `backend/app/` |
|---|---|
| `Date`, `PrevMonth`, `MonthsBetween`, `Sorted`, `Runs`, `CurrentRun`, `TierForStreak`, `ComputeStreak` | `streaks/engine.py`, `tier_for_streak` |
| `donation`, `made` | `blockchain_confirmed` and `created_at`; "flushed" and "confirming" are not committed yet |
| `InsertConfirmed`, `InsertUnconfirmed`, `FlushConfirmation`, `Commit`, `Rollback` | `create_donation`, with the two listeners of `streaks/listener.py` |
| `task`; `RequestRecompute`, `ReadDonations`, `ReadRow`, `WriteRow`, `InsertFails`, `Raise` | `StreakService.recompute`, cut at its awaits, in the listener's task or in a request |
| `row`, `rewards`; `Streaks` | `donor_streaks` and its columns, `streak_rewards` (which tiers have a row) |
| `alone` | history: no other recomputation has written since this one read |

The engine counts calendar months in UTC, so the clock counts months. SQLAlchemy
writes only the columns that differ from what was loaded (`Written`): tasks that
overlap can leave a row that mixes two results. The reference definition
(`Spans`, `LatestSpan`) knows months as numbers and no loops.

### RiskAudit

| TLA+ | code under `backend/app/` |
|---|---|
| `VaguePurpose`, `Variance`, `Velocity`, `MissingReceipts`, `PriorFlags`, `Points`, `Rules`, `ScoreToLevel` | `ai/rules.py`, `ai/base.py` |
| `Merged`, `Unnamed`, `LowerBound`, `DerivedLevel`, `Bounded` | the end of `ai/llm.py` and the bounds of `ai/service.py`, for scores that may be NaN; `NoAnswer` is each fall back to the rules |
| `BuildFeatures`, `InputsHash` | `ai/features.py`, `stable_hash` |
| `Reuse`, `AskModel`, `TakeAnswer`, `ReadOpenFlags`, `Save`, `ScanFails` | `RiskService._run`, cut at the model's answer and at the queries that matter |
| `CreateAidRequest`, `ApproveRequest`, `ScanRisk`, `UpdateFlag` | who starts a scan; `PATCH /risk/flags` |
| `UploadProof`, `DeleteProof`, `ThreeDaysPass`, `OthersAsk` | what the features depend on, in one step each |
| `Progress`, `Features`, `Assessments` | what a scan holds: `RiskFeatures`, `RiskResult` |
| `cached`, `open`, `decided`, `assessed` | `cached_risk_score` and `cached_risk_level`, `scam_flags` that are open and those that are not, the hashes of `risk_assessments` |

`open` and `decided` count rows, since a flag can be there twice; an admin may
decide an open one and open a decided one again (`UpdateFlag`). The query of the open flags
flushes the update of the request's row, so a scan that changes it waits for
another that has (`RowIsFree`). A request can be made only for a verified
beneficiary and verification is never withdrawn, so the two rules for unverified
ones cannot fire and are left out. In `AidDisbursement` a scan may cache any
level (`AssessRisk`).

## 3. The runs

| Run | Result | Distinct states | What it shows |
|---|---|---|---|
| `vault_deployed` | passes | 270,845 | two donors and two campaigns in every order: totals, the pool, majorities, fair refunds, final clawbacks, earned payouts, and the refinement of `EscrowLifecycle` |
| `vault_bootstrap` | passes | 21,416 | the vault used before `initialize`, campaign 0 created twice: shape, donor list and milestone order hold even so |
| `vault_clawback_overspent` | violated | | `ClawedBackWithinDeposits`: released after the refund |
| `ledger_race` | passes | 586,800 | two requests of two users, same or different hashes, one death: charged at most once and correctly, confirmed only if its transaction succeeded, it is charged, or its own request died; credited only for what was paid |
| `aid_race` | passes | 542,820 | two overlapping calls of any kind and one fault: approval, evidence, books; without overlap, nothing is paid that a record shows as paid, and what is recorded is exact (on the tests' database) |
| `review_race` | passes | 718,921 | two overlapping calls and one death over two campaigns: decisions stand, covers, deletions and marks follow decisions |
| `wallet_race` | passes | 202,452 | a page of each kind, two new payments and one from storage; every party answers late, wrongly or not at all: recorded is paid, paid is recorded or the donor told, and it ends |
| `desk_race` | passes | 1,613,223 | each of the three pages with calls that fail and overtake each other, overlapping verdicts, other staff and the form: no list of the react-query pages is replaced by an older one, and a form saved without a file asks for no image the campaign has not had |
| `session_race` | passes | 125,981 | two tabs, two users, expiry, reloads and refusals anywhere: the copies agree, a tab acts as who it shows unless another one has signed in or out |
| `pages_race` | passes | 71,166 | each of the 14 pages, two keys, two loads in flight: the last word belongs to the key, absence was answered, searches are never overtaken, polling pages catch up |
| `streaks_race` | passes | 327,095 | three donations around the turn of a year, two recomputations and a fault: nothing unearned, and exact when not overlapped |
| `risk_race` | passes | 2,445,276 | two scans, any answer of the model, uploads, decisions, time and faults in between: an undisturbed scan leaves its own score and level, the score not below the rules', the level neither unless the score is 100, and all its flags, no row more where one was open |

**Bounds, and why they are enough.**

- *Vault.* Two donors with 3 and 1 tokens: one is a majority alone, the other
  never is, shares round, and both can be in the list in either order. Deposits
  of 0, 1 and 2: refused, and repeated. Two campaigns with the plan 1, 2 (and an
  empty plan, which is refused): one can spend the other's tokens, and the
  second milestone asks for more than some campaigns hold. The funds bound the
  deposits, the plan bounds the releases, and votes and pauses are flags, so
  no further bound is needed. `vault_bootstrap` uses one campaign id and a
  negative milestone.
- *Ledger.* Every race here is between two requests, so two slots; two users
  and two amounts so that a charge can hit the wrong one; one hash, so that
  they collide on it; one reference, so that a donation without a hash meets
  rows that have one.
  `MaxRows` bounds only the admission of top-ups, `MaxAborts` the deaths.
- *Aid.* One request, because calls on different requests meet only in the
  beneficiary's row, which two calls on one request meet in, too. Three proofs,
  two with the same file, against a minimum of two: the gate is reachable, and
  the duplicate check decides something. Two payments, one more than should ever
  happen; one death or lost answer.
- *Review.* Two campaigns with one donation each, so that a release can mark the
  wrong one; two log entries, so that a second request meets the first, and two
  reviewers meet on one entry; one image, asked for and removed again.
- *Wallet.* One page of each kind, so that two of them race for a sequence
  number and both kinds of recording meet; two attempts, which any page may take,
  so that a payment competes with another and a top-up can feed a donation; one
  stored item, in whatever number of dashboards.
- *Desk.* Two rows, so that one list holds two kinds or two rows of one kind, and
  a cover can be approved behind another's back; three entries for each, so that
  an overlapping verdict meets one that is written. On the react-query pages two
  calls, so that a fetch overlaps a fetch or a verdict; on the console one at a
  time (the constraint `OneConsoleCall`), since the run's properties say nothing
  of its lists and the verdicts that matter to the form may be anybody's. Two
  images, one of them the backend's, so that one is rewritten and one is not,
  and one is uploaded.
- *Session.* Two tabs, and two sessions of different roles, opened once each:
  a third sign-in would repeat the second.
- *Pages.* Two keys, two loads, two changes of each key's records and two moves
  of the user (away and back again, or a command and a move): a load can be
  overtaken by a newer one for the same key and for another.
- *Streaks.* Three months, December to February, so that runs cross a year,
  break and start again; three donations, so that every tier (1, 2 and 3 months
  here; 1, 3, 6, 12 in the code, as far apart as the rewards need not be) can be
  reached and a month can have two; two recomputations, and one fault, so that a
  task meets a rollback or vanishes.
- *Risk.* Two scans, since every race is between two, each forced or not; one
  proof, whose claim is 60% off; a vague and a short purpose; one row of each
  flag decided at a time (`MaxDecided`); a model that is alarmed and repeats
  itself, plays a flag down with a score that is no number, or does not answer.

Symmetry is used in safety runs only, over slots, users, references, donors,
donations, tasks or scans that nothing distinguishes. Deadlock is checked
everywhere but in `pages_race`: a page that asks once has nothing left to do
when it has its answer and the bounds are used up.

**Fairness.** Only liveness needs it, and the theorems are about `Spec`, which
has none. The liveness properties assume:

- `wallet_race`: weak fairness of each page's `Handler`. Every call a handler
  awaits is answered or fails: Freighter's window is answered or closed, and the
  two HTTP clients report an error when the connection is lost. Nothing is
  assumed of Horizon, of LINGAP or of the donor, who may close the tab. Which
  alternative is taken stays open: that a payment is recorded does not follow,
  only that the donor learns of it.
- `pages_race`: the interval fires; an answer that is asked
  for over and over is given (`SF` of `Answer`) and arrives (`SF` of `Take`:
  any load may fail, not all of them for ever); answers that no longer count are
  dropped.
- `DonationLedger` states a `FairSpec` with weak fairness of each request's
  `Step`, since the event loop eventually runs every coroutine that is ready; it
  is for `UnpaidIsCharged` (section 5); `WebSession` a `FairSession`, in which
  effects run (`Gate`) and requests are answered or refused, for
  `SignOutReachesTabs` (section 5).

## 4. The proofs

TLC checks the instances above; the theorems hold for all values of the
constants that satisfy the modules' assumptions (`VaultAssumption`,
`LedgerAssumption`, `AidAssumption`, `ReviewAssumption`, `WalletAssumption`,
`DeskAssumption`, `SessionAssumption`, `PagesAssumption`, `StreakAssumption`, `RiskAssumption`:
sets are disjoint or finite where needed, amounts are numbers, thresholds are
positive and ascend, functions have their domains, and a free slot or a missing
row is told from every call and row: `IdleAssumption`, `SlotAssumption`,
`RowAssumption`, `ProgressAssumption`). Of the model's answers `RiskAssumption`
only says that scores are numbers or NaN, which `float` reads as well: a severity or a level that is none of the four
counts for as little as the lowest in the code, too (`SEVERITY_RANK.get`, the
`ValueError` in `llm.py`). They
were all checked by TLC first where a run states them, the inductive invariants
included.

| Module | Theorem | Property |
|---|---|---|
| `DonationVaultProofs` | `TypeCorrect`, `DonorListCorrect`, `MilestoneOrder` | `TypeOK`, `DonorListExact`, `MilestonesInOrder`, from `Init` |
| | `ProgressKept`, `ClawbackSettles`, `RefundsAreFair` | `ProgressNeverReset`, `ClawbackIsFinal`, `RefundsFair`, from `DeployedInit` |
| | `CountersAreSums`, `PoolIsExact`, `MajorityBehindClawback`, `PayoutsEarned` | `TotalsAgree`, `PoolAccounts`, `ClawbackHasMajority`, `PayoutsAreEarned`, from `DeployedInit` |
| | `VaultImplementsEscrow` | `ImplementsEscrow` |
| `DonationLedgerProofs` | `LedgerTypeCorrect`, `ChargedOnce`, `ConfirmedBacked`, `CreditsBacked` | `TypeOK`, `DebitsMatchDonations`, `ConfirmedIsBacked`, `CreditsArePayments` |
| `AidDisbursementProofs` | `AidTypeCorrect`, `ApprovalBeforePayment`, `EvidenceBeforePayment`, `BooksNeverInflated` | `TypeOK`, `PaidOnApproval`, `GateEvidence`, `BooksNotInflated` |
| | `DisbursesExactly`, `CountIsExact`, `RejectedStays` | `LoneDisbursementExact`, `ProofsCounted`, `RejectionStays` |
| `CampaignReviewProofs` | `ReviewTypeCorrect`, `CoverShownAsDecided`, `HiddenAsDecided`, `MarkedAsDecided` | `TypeOK`, `CoverIsReviewed`, `DeletedIsHidden`, `DisbursedByRelease` |
| | `OneWaits`, `DecisionsStand` | `OnePending`, `DecidedOnce` |
| `DonorWalletProofs` | `WalletTypes`, `PaidBeforeRecorded`, `NeverLostUnseen`, `ReplayKeepsItems` | `TypeOK`, `RecordedIsPaid`, `LostOnlyWhenTold`, `KeptUntilRecorded` |
| `ReviewDeskProofs` | `DeskTypeCorrect`, `UnpickedAsksNothingNew`, `ListsNeverGetOlder`, `RefreshComesBack` | `TypeOK`, `UnpickedAsksBack`, `ListsMoveForward`, `LoadingHasLoad` |
| `WebClientProofs` | `SessionTypes`, `CopiesAgree`, `TabsSendTheirOwn` | `SessionTypeOK`, `StoredTogether`, `SendsWhatItShows` |
| | `PagesTypes`, `LastWordStands`, `NothingIsAnAnswer`, `SearchNeverOlder` | `TypeOK`, `LastWordIsKeys`, `AbsenceIsAnswered`, `NeverOlder` |
| `BackgroundProofs` | `StreakTypeCorrect`, `StreaksAreEarned`, `LoneTaskIsExact` | `TypeOK`, `NothingUnearned`, `LoneRecomputeIsExact` |
| | `AuditTypeCorrect`, `LoneScanCompletes` | `AuditTypeOK`, `LoneScanIsComplete` |

Where a module's `TypeOK` is proved, its run does not repeat it.

**Why the invariants need strengthening.**

- *Vault.* A refund is a share `deposit * remaining / total`. Fairness of the
  shares is arithmetic (`ShareBound`, `ShareMonotone`), but it needs that a
  donor is paid once (`DonorListExact`) and that nothing was refunded before
  (`RefundsOnlyByClawback`). That a campaign's counters never go back needs
  that an id not yet handed out has no entry (`IdsAreFresh`), which is what an
  early `create_campaign` breaks. The refinement needs `MilestonesInOrder`:
  after a release the next milestone is not Verified yet.
- *Vault, sums.* `TotalsAgree` and `PoolAccounts` add up deposits, milestones,
  refunds and campaigns; their steps rest on a theory of sums over finite sets
  at the end of the refund proofs: what a sum becomes when an element is added
  (`SumAdd`), when one summand changes (`SumChange`), when all are shares of a
  whole (`SumScaled`) and when a sequence is summed by its elements instead of
  its places (`SumReindexed`). The library's induction theorems take an operator,
  which the provers cannot instantiate; `SetInduction` takes the set of the
  subsets that have the property instead, and gets its minimal counterexample
  from the well-foundedness of the naturals (`WFMin`). `PoolAccounts` needs that
  a step moves the money of one campaign only (`OneCampaignMoves`).
  `ClawbackHasMajority` needs that the pause votes never weigh more than the
  deposits of those who voted (`WeightIsCovered`): `revoke_vote` may subtract
  more than the vote had added, never less. `PayoutsAreEarned` needs bounds on
  what rounding leaves of the refunds (`DivBounds`, `RefundTotalBounds`): less
  than one unit per donor.
- *Ledger.* The properties speak of rows; the danger is in requests that have
  passed their check. `PendingCharge` says that a request about to charge has
  its own confirmed and uncharged row, and `OneChargePerHash` that no two such
  requests share a hash, which rests on the UNIQUE column and on the charge
  following the insertion in the same request. `PendingCredit` and
  `CreditVerified` say the same of credits; they survive because a payment that
  landed never changes. `ConfirmedIsBacked` names the one exception by the hash
  that was left behind (`stranded`), not by there having been a death.
- *Aid.* A call acts on what it read some awaits ago. What makes it right is
  that what it relied on is never taken back: `approved_by`, a confirmation, an
  uploaded proof (deletion only sets `deleted_at`) and a verified beneficiary
  stay. `DisbursingApproved`, `CountedProofs` and `PayCleared` carry these facts
  through the stages of a call. For the books, `SeenBacked` says that the total
  a call read plus its own payment, which is still unrecorded, is within what
  was sent; `RecordsOwn` that the records written and those still to be written
  are within the payments.
- *Aid, calls that never overlap.* The exact properties hold for one beneficiary
  while calls on others interleave as they like. `SoloInv` says that a call
  whose beneficiary never had two is the only one there (`Alone`), that what it
  read, the status, the count, the missing duplicate, still stands
  (`ReadsStand`), that the total a call is about to add to is still the total,
  and that an aid request which may still be paid has no record of a payment
  (`BooksStand`). Payments may well outnumber records, after a lost answer or a
  refused commit; records never follow but one. TLC has checked `SoloInv` on
  `aid_race`.
- *Review.* `Pointed` and `OnlyReleasesClose` say what the entry a call works on
  can be; `Alone` that a campaign nobody overlapped on has at most one call at
  work; `Fresh` that what this call read is then still so; and
  `WaitingIsLatest` that a waiting deletion is the latest one, which is why
  looking at the latest request alone is enough to keep them to one.
- *Wallet.* The properties speak of rows and payments; a call that is on its way
  and a payment that Stellar has not applied yet lie in between. `SentIsPaid`
  says that a page that is telling LINGAP of a wallet payment tells of one that
  landed, `RowsArePaid` the same of calls on their way and of rows. `OwnAttempt` ties a working page to the attempt
  it started, so that two pages never work on one. `PaymentsAreSeen` extends
  `LostOnlyWhenTold` to payments that may still land.
- *Desk.* `UnpickedAsksBack` needs where a form's cover comes from: it is a cover
  the campaign has had, as the client rewrites it (`FormLoadedCover`), and
  covers change only to what image requests propose (`ImagesPropose`).
  `ListsMoveForward` needs that what a page shows is an entry the log already
  has (`ShownWasSo`), that what a fetch has listed is no older than what is shown
  (`ListedAfterShown`), and that there is but one fetch (`OneLoad`), which is
  what the console lacks. That logs only grow is what makes "older" mean
  something: overlapping verdicts add entries, also backward ones. TLC has
  checked their conjunction `DeskInv` on `desk_race`.
- *Session.* The two properties are inductive together: a reload restores what
  the tab then shows only because the two stored copies agree.
- *Pages.* `LastWordIsKeys` and `NeverOlder` need what the mounted flag means:
  `Own` says that a load still mounted is for the present key, `Once` that the
  pages that ask once have at most one such load, and `Told` what the last
  answer or failure left in `shown` and `gone`, and that a page that has heard
  nothing says that it loads.
- *Streaks, the engine.* `StreakIsExact` says that what `ComputeStreak` returns
  is exact for every finite set of donations. A sorted list of dates is an
  ascending list of months without a gap but where months are missing (`Gaps`,
  `NoGap`); the first loop's counter at a place is the length of the run that
  ends there (`RunSays`), so its maximum is the longest span (`LongestIsRun`);
  the second loop finds the run at the end of the list (`CurrentIsRun`), which
  is the span that ends at the last month (`LatestIsRun`). That there is such a
  list for every finite set, and that the recursive function is defined on it, are
  inductions of their own (`OrderExists`, `RunsExist`).
- *Streaks, the tasks.* `FromConfirmed` says that a task holds the exact streak
  of donations that are committed, hence stay: a rollback only takes back what
  no task has seen. More donations never shorten the longest streak
  (`MoreIsNoLess`), so a task that writes late writes too little, never too
  much, and a row mixed of two results has no column above both.
  `Undisturbed` says that to a task that is alone the row it loaded is still
  the row, and that this row shows no streak longer than the task's own;
  `RowStays` that a loaded row is not deleted. TLC has checked the conjunction
  `Inv` on `streaks_race`.
- *Audit.* The score of `Merged` is never below the rules' and stays within 0 and
  100, and its level is not below either unless the score is 100 (`MergedType`):
  a score that is no number passes `LowerBound` and gets the level "low", but
  `Bounded` makes it 100. It takes that a rules' score is a sum of naturals
  (`SumNat`). `Sound` says of a scan that has loaded the request and was not
  disturbed that the row still has what it loaded, without which a column equal
  to the loaded one and left out of the UPDATE would keep what another scan
  wrote; and, once it has read the flags, that those open are still these,
  without which it would add rows to an open flag or leave one unopened. TLC has
  checked `Sound` on `risk_race`.

**Model-checked only.** Liveness (`PaymentsResolve`,
`CatchesUp`), which this version of the prover does not do; and what section 5
lists, but for what is said to be proved.

## 5. Where code and documentation disagree

Counterexample of a run, `vault_clawback_overspent`: `unpause_campaign`,
`verify_milestone` and `release_milestone` do not look at `clawback_executed`,
so a campaign can spend what it has refunded (`lib.rs:222`; README.md:51:
"refund remaining unspent funds").

Properties that the modules state and no run lists. TLC decides them under the
constants given here; the rest of the constants as in the module's run.

| Property | Constants | Result |
|---|---|---|
| `VoteWeightIsDeposits` (`DonationVault`) | `DepositAmounts = {1, 2}`, `InitialFunds <- TwoEach` | refuted: `revoke_vote` subtracts the deposit at revocation, not the weight the vote added (`lib.rs:374`; line 298: "Vote weight = donor's total deposited amount."). `ClawbackHasMajority` shows that the error is on the safe side |
| `OnlyDonorPauseLifted` (`DonationVault`) | the same | refuted: `revoke_vote` clears `paused` below the threshold, also when it was the admin's (`lib.rs:381`; line 376: "Lift the donor-driven pause if weight drops below threshold.") |
| `CreditedWithinPaid` (`DonationLedger`) | `Amounts = {1, 2}`, `Requests = {r1}`, `MaxRows = 2`, `MaxAborts = 0` | refuted: a top-up sent again with its hash is credited again, since nothing looks for an earlier one (`balance.py:247`; line 224: "Verify the payment landed on-chain before crediting the balance.") |
| `NeverOverdrawn` (`DonationLedger`) | `Users = {ann}`, `References = {ref1, ref2}`, `Amounts = {1}`, `MaxAborts = 0` | refuted: two overlapping donations spend the balance read in `donations.py:164` |
| `ConfirmedIsPaid` (`DonationLedger`) | `ledger_race` | refuted: `verify_transaction` asks whether the hash is of a transaction that succeeded (`stellar/client.py:17`), so `donations.py:219` confirms a donation by a transaction that paid something else, or nothing, to somebody else |
| `UnpaidIsCharged` (`DonationLedger`, `FairSpec`) | `Users = {ann}`, `Amounts = {1}`, `MaxRows = 2`, `MaxAborts = 0`, no symmetry | holds: a donation confirmed without a transaction on Stellar is charged in the end, unless its own request dies before |
| `PaidOnce` (`AidDisbursement`) | `aid_race` | refuted: two overlapping disbursements both find the request approved and both pay (`aid_requests.py:198`) |
| `PaymentsAreTracked` (`AidDisbursement`) | `Slots = {k1}`, `MIN_PROOFS_FOR_DISBURSE = 1`, `EnforcesForeignKeys = TRUE`, `MaxFaults = 0` | refuted: `disburse_request` pays, then commits a provenance record whose `donation_id` refers to no donation (`aid_requests.py:219`); on PostgreSQL (`config.py:7`) the commit fails, the request stays approved, and every retry pays again (README.md:21: "every peso donated is tracked, verified, and efficiently disbursed") |
| `PaidIsTracked` (`DonorWallet`) | `wallet_race` | refuted: Horizon's answer is lost, or LINGAP refuses a donation that the wallet has paid for; the donor sees an error, and no code remembers the hash |
| `DriveCatchesUp` (`LivePages`, `FairSpec`) | `pages_race` | refuted: for a campaign that the client does not have itself, one failed poll sets `error`, the next render calls `notFound()`, and with the page goes its interval (`detail/[slug]/page.tsx:185`, `:220`; line 322: "Non-critical — polling loop will catch up") |
| `StaysCurrent` (`DonorStreaks`) | `Donations = {d1, d2}`, `LastMonth = 24`, `MaxFaults = 0` | refuted: the recomputation scheduled when a confirmation is flushed reads before the commit and misses the donation; nothing recomputes the streak until the next one (`streaks/listener.py:47`; line 3: "so streak state stays current") |
| `HeuristicsHeard` (`RiskAudit`) | `risk_race` | refuted: the rules' flags are merged with the model's by type alone, so a model that names the type as "low" keeps the rules' flag from being opened (`ai/llm.py:155`; line 150: "never let the LLM under-call obvious heuristic flags"). The score is at least the rules', and the level, too, unless the score is 100 (`LoneScanIsComplete`) |
| `RulesAreLowerBound` (`RiskAudit`) | `risk_race` | refuted: `float(data["score"])` reads NaN (`ai/llm.py:133`), `max(nan, rules)` is NaN (`:152`) and its level "low"; the service caches 100 beside it (`ai/service.py:97`), and the disbursement gate asks for the level (`ai/rules.py:3`: "as a lower-bound during LLM scoring so heuristics can't be silenced by a bad model response") |
| `AssessedOnce` (`RiskAudit`) | `risk_race` | refuted: the scans of creation and approval both look for an assessment of their inputs before either has saved one (`ai/service.py:80`; line 4: "Idempotent on ``inputs_hash``") |
| `DecidedStaysDecided` (`ReviewDesk`) | `desk_race` | refuted: an approval and a rejection of an aid request both find it pending and are both written (`aid_requests.py:120`), so that a row shown as rejected is approved later |
| `UnpickedAsksNothing` (`ReviewDesk`) | `desk_race` | refuted: `normalizeCampaignImage` rewrites the address of an image that the backend serves (`lib/api.ts:339`), the form sends it back (`campaigns/[id]/edit/page.tsx:82`), and saving any text asks for a new cover |
| `SignOutReachesTabs` (`WebSession`, `FairSession`) | `session_race` | refuted: a tab that only polls the campaign endpoints, which need no user, is never answered 401 (`escrow/page.tsx:59`, `campaigns.py:979`), keeps its user in memory and stays where it is |
| `TypeOK`, `LoadingHasLoad` (`ReviewDesk`) | `desk_race` | hold, and are proved: the shapes are kept, and the console's refresh button is disabled only while a fetch is on its way |

Noted while modelling, and represented in the models without a run of their own:

- Every campaign draws on one pool (`lib.rs:242`): a campaign may release more
  than was deposited into it, at the expense of others, whose clawback then fails.
- `create_campaign` before `initialize` hands out id 0, and `initialize` hands it
  out again (`lib.rs:68`).
- A process that dies between the two commits of a donation leaves it confirmed
  and never charged; a retry finds the row and returns it (`donations.py:181`).
- `reject_request` looks at no status, so that a disbursed request can be
  rejected (`aid_requests.py:245`).
- `ENFORCE_PROOF_GATE` is off by default.
- Verifying a handoff closes a release straight from "approved". The message in
  `campaigns.py:1360` says that a proof must be uploaded, but no endpoint sets
  `proof_uploaded`. It marks all donations of the campaign that are confirmed
  by then, whatever `amount_xlm` is and also those that came after the
  approval, although `campaigns.py:439` speaks of "funds that completed the
  full release flow".
- A request to remove the cover can be made and rejected, but never approved.
- A donation that the wallet pays for is charged to the donor's balance as well,
  and refused when that is too low, after the payment (`detail/[slug]/page.tsx:299`).
- The console takes lists in the order they come: one that was fetched before a
  verdict puts the decided row back as pending, with its buttons. The server
  refuses a second verdict, except that it rejects an aid request in any status.
- The edit form sends every field back as it was loaded. A text change saved
  from a form older than the last approved cover asks for the older cover; and
  where the cover is an image of the backend's, every save asks for it at the
  address the client has rewritten it to.
- On 401 the client removes `lingap_token` and leaves `lingap_auth`, so that the
  next reload restores the expired token, and the next request is refused again.
- A tab keeps showing its user when another tab has signed in as somebody else,
  and sends the other's token.
- The fetches of the volunteer page and of the voting panel have no flag that
  drops the answer of a replaced effect; the volunteer page shows nothing of
  another category only because it filters what it loaded.
- The hash of a scan's inputs covers neither the request's age nor the
  beneficiary's other requests: the scan at approval reuses an assessment from
  before the 72 hours for a receipt were over, unless staff force one.
- An open "prior_open_flags" flag is itself an open flag, so it keeps counting
  when all others were dismissed. A model that repeats a flag opens it twice.
- `detail/[slug]` never resets the amount its last donation confirmed.

## 6. What is not modelled

- *Authorisation, sessions, password hashing*: an action is taken by a caller
  with the role the code asks for.
- *Data nothing decides on*: pesos, notes, names, descriptions, the text and
  files of proofs, edits of a campaign's title or text (applied at once, seen by
  no reviewer), `anchor_proof` (writes a hash nothing reads).
- *Rendering, queries, formatting*: certificates' images, dashboards,
  leaderboards; of the client filtering, wording, layout and printing, sharing a
  certificate.
- *Client pages with one call and no state that outlives it* (starting a
  campaign, reports, the react-query dashboard and donations pages), the
  console's statistics, alerts and escrow health, which nothing depends on, the
  volunteer's own signups, switching the filter of the aid requests (its lists
  are cached apart, and may be shown old after a switch), disconnecting a wallet,
  and a voting panel without a numeric campaign id, which asks nothing.
- *Amounts in the client*: the wallet pays and LINGAP books one unit. Whether a
  balance suffices is decided by `DonationLedger`.
- *Fees, ledger entry expiry and i128 overflow* of the contract: amounts are far
  from 2^127, and entries are assumed alive.
- *The Soroban client*: it keeps no state. Its calls block the one server
  process, so they never overlap there, and an invocation that is applied after
  the poll gave up, or asked for again, is one at another time, which
  `DonationVault` allows. That the caller may have been told otherwise is not
  modelled.
- *Fund release*: the router answers from tables in memory that only tests fill,
  and the separate engine app always reports a verified receipt, so that nothing
  there ever freezes.
- *Volunteering*: one increment from a value read earlier, which nothing guards.
- *Certificates*: `donation_id` is unique, so one of two inserts fails; the rest
  is rendering and storage.
- *Credibility*: a floating-point weighted sum over counts, overwritten each time.
- *BeneficiaryRegistry and AidProvenance*: counters and an append-only list that
  nothing in the system reads back.
- *The spending snapshots* of a forced scan, which nothing reads back.

## 7. Plan

The modules of section 2 are done. What would come next, in this order:

| Module | Left |
|---|---|
| `AidDisbursement` | the composition with `RiskAudit` instead of `AssessRisk` |
| `Volunteering` | once applications are guarded |
