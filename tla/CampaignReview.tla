--------------------------- MODULE CampaignReview ---------------------------
(***************************************************************************)
(* Campaign drives and the review of their changes:                        *)
(* backend/app/api/v1/campaigns.py.                                        *)
(*                                                                         *)
(* Cover images, deletions and fund releases are asked for by the          *)
(* organizer, wait in campaign_drive_changes, and are decided by an admin. *)
(* As in DonationLedger an action is what a call does up to its next       *)
(* await; the calls take no locks and write what they decided from rows    *)
(* that may have changed since.  The log holds only entries that are       *)
(* reviewed: other edits of a campaign are applied at once.                *)
(*                                                                         *)
(* The variants no action uses (HiddenWhenAsked, ...) each stand before    *)
(* the definition they break, as in DonationVault.                         *)
(***************************************************************************)
EXTENDS Integers, Sequences

CONSTANTS
    Campaigns,    \* the drives that may be created
    FirstImage,   \* per campaign: image_src at its creation
    Images,
    NoImage,      \* image_src = None
    Donations,    \* the donations that may be confirmed
    PurposeOf,    \* per donation: its campaign
    Slots,        \* calls in flight at the same time
    MaxLog,       \* bound: entries of the change log
    MaxFaults,    \* bound: calls that die
    Idle          \* a free slot

ASSUME ReviewAssumption ==
    /\ FirstImage \in [Campaigns -> Images \cup {NoImage}]
    /\ NoImage \notin Images
    /\ PurposeOf \in [Donations -> Campaigns]
    /\ MaxLog \in Nat
    /\ MaxFaults \in Nat

VARIABLES
    status,      \* per campaign; "absent" before it is created
    image,       \* per campaign: image_src
    log,         \* campaign_drive_changes, in the order of created_at
    confirmed,   \* the donations with blockchain_confirmed
    disbursed,   \* those marked disbursed
    call,        \* what each slot is doing
    overlapped,  \* history: campaigns with two calls in flight at once
    faults

rows == <<status, image, log, confirmed, disbursed>>
vars == <<rows, call, overlapped, faults>>

Kinds    == {"image", "deletion", "release"}
Verdicts == {"pending", "approved", "rejected", "closed"}

Entry == [campaign : Campaigns, kind : Kinds, image : Images \cup {NoImage},
          verdict : Verdicts]

\* A call asks for an entry to be logged, or reviews the entry-th of the log;
\* seen is the image_src it read, marked the donations it is about to mark.
Call ==
    [step : {"log"}, entry : Entry]
      \cup
    [step : {"approve"}, entry : 1 .. MaxLog, seen : Images \cup {NoImage}]
      \cup
    [step : {"reject", "close"}, entry : 1 .. MaxLog]
      \cup
    [step : {"mark"}, entry : 1 .. MaxLog, marked : SUBSET Donations]

Init ==
    /\ status = [c \in Campaigns |-> "absent"]
    /\ image = FirstImage
    /\ log = <<>>
    /\ confirmed = {}
    /\ disbursed = {}
    /\ call = [k \in Slots |-> Idle]
    /\ overlapped = {}
    /\ faults = 0

-----------------------------------------------------------------------------
(* Calls. *)

At(k, step) == call[k] # Idle /\ call[k].step = step

About(c) == IF c.step = "log" THEN c.entry.campaign ELSE log[c.entry].campaign

BusyWith(c) == {k \in Slots : call[k] # Idle /\ About(call[k]) = c}

\* A call has read the rows of campaign c.
Begin(k, c, new) ==
    /\ call[k] = Idle
    /\ call' = [call EXCEPT ![k] = new]
    /\ overlapped' = IF BusyWith(c) = {} THEN overlapped ELSE overlapped \cup {c}
    /\ UNCHANGED <<rows, faults>>

Return(k) ==
    /\ call' = [call EXCEPT ![k] = Idle]
    /\ UNCHANGED <<overlapped, faults>>

\* The process dies, or a database call raises: nothing more is written.
Abort(k) ==
    /\ call[k] # Idle
    /\ faults < MaxFaults
    /\ faults' = faults + 1
    /\ call' = [call EXCEPT ![k] = Idle]
    /\ UNCHANGED <<rows, overlapped>>

-----------------------------------------------------------------------------
(* The organizer. *)

CreateCampaign(c) ==
    /\ status[c] = "absent"
    /\ status' = [status EXCEPT ![c] = "active"]
    /\ UNCHANGED <<image, log, confirmed, disbursed, call, overlapped, faults>>

Entries(c, kind) ==
    {i \in DOMAIN log : log[i].campaign = c /\ log[i].kind = kind}

Request(c, kind, img) ==
    [campaign |-> c, kind |-> kind, image |-> img, verdict |-> "pending"]

Asks(k, c, kind, img) ==
    /\ status[c] # "absent"
    /\ Begin(k, c, [step |-> "log", entry |-> Request(c, kind, img)])

UpdateImageAtOnce(k, c, img) ==
    /\ status[c] # "absent"
    /\ img # image[c]
    /\ image' = [image EXCEPT ![c] = img]
    /\ UNCHANGED <<status, log, confirmed, disbursed, call, overlapped, faults>>

\* Removing the image is a change, too.
UpdateImage(k, c, img) ==
    /\ img # image[c]
    /\ Asks(k, c, "image", img)

\* Only the latest deletion request counts.
RequestDeletion(k, c) ==
    /\ \A i \in Entries(c, "deletion") :
          log[i].verdict = "pending" => \E j \in Entries(c, "deletion") : j > i
    /\ Asks(k, c, "deletion", NoImage)

ReleaseApproved(c) == \E i \in Entries(c, "release") : log[i].verdict = "approved"

ReleasePending(c) == \E i \in Entries(c, "release") : log[i].verdict = "pending"

RequestRelease(k, c) ==
    /\ ~ReleasePending(c)
    /\ Asks(k, c, "release", NoImage)

LogChange(k) ==
    /\ At(k, "log")
    /\ Len(log) < MaxLog
    /\ log' = Append(log, call[k].entry)
    /\ Return(k)
    /\ UNCHANGED <<status, image, confirmed, disbursed>>

\* donations.py confirms a donation for whatever campaign it names.
ConfirmDonation(d) ==
    /\ status[PurposeOf[d]] # "absent"
    /\ confirmed' = confirmed \cup {d}
    /\ UNCHANGED <<status, image, log, disbursed, call, overlapped, faults>>

-----------------------------------------------------------------------------
(* The admin. *)

ReviewableAlways(entry) == entry.verdict # "closed"

Reviewable(entry) == entry.verdict = "pending"

ReadForApproval(k, i) ==
    /\ Reviewable(log[i])
    /\ log[i].kind = "image" => log[i].image # NoImage
    /\ Begin(k, log[i].campaign,
             [step |-> "approve", entry |-> i, seen |-> image[log[i].campaign]])

ReadForRejection(k, i) ==
    /\ Reviewable(log[i])
    /\ Begin(k, log[i].campaign, [step |-> "reject", entry |-> i])

\* Whoever closes a release holds its entry's row until the commit.
Unlocked(i) == \A j \in Slots : At(j, "mark") => call[j].entry # i

Decide(k, step, verdict) ==
    /\ At(k, step)
    /\ Unlocked(call[k].entry)
    /\ log' = [log EXCEPT ![call[k].entry].verdict = verdict]
    /\ Return(k)

ApproveRelease(k) ==
    /\ Decide(k, "approve", "approved")
    /\ log[call[k].entry].kind = "release"
    /\ UNCHANGED <<status, image, confirmed, disbursed>>

StatusKept(c) == status

Hidden(c) == [status EXCEPT ![c] = "draft"]

ApproveDeletion(k) ==
    /\ Decide(k, "approve", "approved")
    /\ log[call[k].entry].kind = "deletion"
    /\ status' = Hidden(log[call[k].entry].campaign)
    /\ UNCHANGED <<image, confirmed, disbursed>>

\* An image that is the one the call read is not written.
ApproveImage(k) ==
    LET entry == log[call[k].entry] IN
    /\ Decide(k, "approve", "approved")
    /\ entry.kind = "image"
    /\ image' = IF entry.image = call[k].seen
                THEN image ELSE [image EXCEPT ![entry.campaign] = entry.image]
    /\ UNCHANGED <<status, confirmed, disbursed>>

Reject(k) ==
    /\ Decide(k, "reject", "rejected")
    /\ UNCHANGED <<status, image, confirmed, disbursed>>

\* No endpoint ever sets proof_uploaded.
Closable(entry) == entry.verdict = "approved"

ReadForClosing(k, i) ==
    /\ log[i].kind = "release"
    /\ Closable(log[i])
    /\ Begin(k, log[i].campaign, [step |-> "close", entry |-> i])

DonationsOfAll(c) == confirmed

DonationsOf(c) == {d \in confirmed : PurposeOf[d] = c}

\* The entry's row is flushed, and so locked, before the donations are read.
ReadDonations(k) ==
    /\ At(k, "close")
    /\ Unlocked(call[k].entry)
    /\ call' = [call EXCEPT ![k] =
                   [step |-> "mark", entry |-> call[k].entry,
                    marked |-> DonationsOf(log[call[k].entry].campaign)]]
    /\ UNCHANGED <<rows, overlapped, faults>>

CloseRelease(k) ==
    /\ At(k, "mark")
    /\ log' = [log EXCEPT ![call[k].entry].verdict = "closed"]
    /\ disbursed' = disbursed \cup call[k].marked
    /\ Return(k)
    /\ UNCHANGED <<status, image, confirmed>>

-----------------------------------------------------------------------------

Next ==
    \/ \E c \in Campaigns : CreateCampaign(c)
    \/ \E d \in Donations : ConfirmDonation(d)
    \/ \E k \in Slots :
          \/ \E c \in Campaigns :
                \/ \E img \in Images \cup {NoImage} : UpdateImage(k, c, img)
                \/ RequestDeletion(k, c)
                \/ RequestRelease(k, c)
          \/ LogChange(k)
          \/ \E i \in DOMAIN log :
                \/ ReadForApproval(k, i)
                \/ ReadForRejection(k, i)
                \/ ReadForClosing(k, i)
          \/ ApproveRelease(k)
          \/ ApproveDeletion(k)
          \/ ApproveImage(k)
          \/ Reject(k)
          \/ ReadDonations(k)
          \/ CloseRelease(k)
          \/ Abort(k)

Spec == Init /\ [][Next]_vars

-----------------------------------------------------------------------------
(* Properties. *)

\* Every row and call has its declared shape, and a call reviews an entry that
\* is there.
TypeOK ==
    /\ status \in [Campaigns -> {"absent", "active", "draft"}]
    /\ image \in [Campaigns -> Images \cup {NoImage}]
    /\ log \in Seq(Entry)
    /\ Len(log) <= MaxLog
    /\ confirmed \subseteq Donations
    /\ disbursed \subseteq confirmed
    /\ call \in [Slots -> Call \cup {Idle}]
    /\ overlapped \subseteq Campaigns
    /\ faults \in 0 .. MaxFaults

Undisturbed(c) == c \notin overlapped

\* "Block duplicate pending requests": calls that do not overlap leave at most
\* one deletion and one release of a campaign waiting for the admin.
OnePending ==
    \A c \in Campaigns : Undisturbed(c) =>
        \A kind \in {"deletion", "release"} : \A i, j \in Entries(c, kind) :
            log[i].verdict = "pending" /\ log[j].verdict = "pending" => i = j

\* The cover is the first one, or one an admin decided about; and unless calls
\* overlapped the decision was to approve it.
CoverIsReviewed ==
    \A c \in Campaigns : image[c] # FirstImage[c] =>
        \E i \in Entries(c, "image") :
            /\ log[i].image = image[c]
            /\ log[i].verdict \in
                  IF Undisturbed(c) THEN {"approved"} ELSE {"approved", "rejected"}

\* A campaign whose deletion is approved is hidden for good, both by its status
\* and by the log, the two the public list looks at; they disagree only if an
\* approval and a rejection overlapped.
DeletedIsHidden ==
    \A c \in Campaigns :
        LET deleted == \E i \in Entries(c, "deletion") : log[i].verdict = "approved"
        IN  /\ deleted => status[c] = "draft"
            /\ status[c] = "draft" /\ Undisturbed(c) => deleted

\* A donation is marked disbursed only by a release of its own campaign that an
\* admin decided about, and that is closed for good unless calls overlapped.
DisbursedByRelease ==
    \A d \in disbursed : \E i \in Entries(PurposeOf[d], "release") :
        IF Undisturbed(PurposeOf[d])
        THEN log[i].verdict = "closed"
        ELSE log[i].verdict # "pending"

\* Unless calls overlap an admin decides once: a rejection and a closed release
\* are final, and an approval is followed by nothing but closing a release.
DecidedOnce ==
    [][\A i \in DOMAIN log :
          Undisturbed(log[i].campaign) /\ log[i].verdict # "pending" =>
              \/ log'[i].verdict = log[i].verdict
              \/ /\ log[i].kind = "release"
                 /\ log[i].verdict = "approved"
                 /\ log'[i].verdict = "closed"]_vars
=============================================================================
