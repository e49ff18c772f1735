----------------------------- MODULE ReviewDesk ------------------------------
(***************************************************************************)
(* The pages on which staff decide: the admin console, the aid requests    *)
(* and the beneficiaries; and the organizer's edit form, which asks for    *)
(* what the console decides.                                               *)
(*                                                                         *)
(* Every page works on a copy of the server's rows and tells neither the   *)
(* server nor another page how old its copy is.  The console fetches its   *)
(* lists whenever it likes, takes the answers in the order they come, and  *)
(* shows a list it did not get as an empty one.  The other two use         *)
(* react-query: a new fetch cancels the one before, and a fetch that fails *)
(* leaves the list as it was; the aid requests are seen under one filter   *)
(* (the lists under the others are cached apart).                          *)
(*                                                                         *)
(* The server checks a verdict against the row as it read it and writes    *)
(* later, so that verdicts overlap.  A row is the log of what it was: a    *)
(* verdict that is written may have read any entry since it was sent.  One *)
(* page is modelled; the verdicts of other staff, and those of calls whose *)
(* page was left, come from Elsewhere.                                     *)
(***************************************************************************)
EXTENDS Integers, FiniteSets, Sequences

CONSTANTS
    StaffPages,  \* the pages that are looked at
    Requests,    \* the rows there may be
    Images,      \* cover images of the one campaign
    Api,         \* those the backend serves at a path of its own, not as data
    NoCover,     \* no file picked, nothing proposed
    Slots,       \* bound: calls of the page in flight at the same time
    MaxChanges,  \* bound: entries of a row's log
    None         \* a free slot, a closed dialog, a form that is not open

\* What image_src may be: the image at the address that is stored, or at the
\* one that this browser uses for it.
Covers == [image : Images, at : {"stored", "browser"}]

Pages == {"console", "aid-requests", "beneficiaries"}

ASSUME DeskAssumption ==
    /\ StaffPages \subseteq Pages
    /\ NoCover \notin Covers
    /\ None \notin Covers \cup Requests
    /\ MaxChanges \in Nat \ {0}

VARIABLES
    page,        \* the page of this instance
    kind,        \* per row: what is asked for
    log,         \* per row: the statuses it has had on the server, oldest first
    proposed,    \* per image row: the cover that is asked for
    picked,      \* history: the image rows asked for with a new file
    cover,       \* the campaign's image_src
    covers,      \* history: the covers it has had
    shown,       \* per row: which entry of its log the page lists; 0 is none
    dialog,      \* reviewModal: the copy of an image row, or None
    loading,     \* statsLoading
    call,        \* what each slot is doing
    form         \* the edit form: the cover it loaded and the file picked

server  == <<log, proposed, picked, cover, covers>>
desk    == <<shown, dialog, loading, call>>
vars    == <<page, kind, server, desk, form>>

Console == {"image", "deletion", "release"}

KindsOf(p) == CASE p = "console"       -> Console
                [] p = "aid-requests"  -> {"aid"}
                [] p = "beneficiaries" -> {"beneficiary"}

Kinds    == UNION {KindsOf(p) : p \in Pages}
Statuses == {"pending", "approved", "rejected", "done"}
Verbs    == {"approve", "reject", "finish"}

Entry(r)       == Len(log[r])
StatusAt(r, n) == IF n = 0 THEN "absent" ELSE log[r][n]

Call ==
    [step : {"asked"}]
      \cup
    [step : {"listed"}, rows : [Requests -> Nat]]
      \cup
    [step : {"sent"}, request : Requests, verb : Verbs, since : Nat]
      \cup
    [step : {"taken"}, request : Requests, since : Nat]

\* A free slot is told from every call.
ASSUME SlotAssumption == None \notin Call

Init ==
    /\ page \in StaffPages
    /\ kind \in [Requests -> KindsOf(page)]
    /\ log = [r \in Requests |-> <<>>]
    /\ proposed = [r \in Requests |-> NoCover]
    /\ picked = {}
    /\ cover \in Covers
    /\ covers = {cover}
    /\ shown = [r \in Requests |-> 0]
    /\ dialog = None
    /\ loading = FALSE
    /\ call = [k \in Slots |-> None]
    /\ form = None

-----------------------------------------------------------------------------
(* What a page offers for a row that it shows with status s.  No button is *)
(* disabled while its call is on the way, except "Verify Beneficiary".     *)

Review(s) == IF s = "pending" THEN {"approve", "reject"} ELSE {}
Finish(s) == IF s = "approved" THEN {"finish"} ELSE {}

\* The image buttons are in the dialog.
EditOffers(s)        == Review(s)
DeletionOffers(s)    == Review(s)
ReleaseOffers(s)     == Review(s) \cup Finish(s)
AidOffers(s)         == Review(s) \cup Finish(s)
BeneficiaryOffers(s) == IF s = "pending" THEN {"approve"} ELSE {}

Offers(r, s) ==
    CASE kind[r] = "image"       -> EditOffers(s)
      [] kind[r] = "deletion"    -> DeletionOffers(s)
      [] kind[r] = "release"     -> ReleaseOffers(s)
      [] kind[r] = "aid"         -> AidOffers(s)
      [] kind[r] = "beneficiary" -> BeneficiaryOffers(s)

At(k, step) == call[k] # None /\ call[k].step = step

Verifying == page = "beneficiaries" /\ \E k \in Slots : At(k, "sent") \/ At(k, "taken")

OnServer == UNCHANGED <<page, kind, desk, form>>
OnDesk   == UNCHANGED <<page, kind, server, form>>

-----------------------------------------------------------------------------
(* The server. *)

\* Whether a verdict is taken on a row that was read with status s.  Rejecting
\* an aid request and verifying a beneficiary ask for no status.
Accepts(r, s, v) ==
    /\ s # "absent"
    /\ CASE v = "approve" -> s = "pending" \/ kind[r] = "beneficiary"
         [] v = "reject"  -> \/ s = "pending" /\ kind[r] # "beneficiary"
                             \/ kind[r] = "aid"
         [] v = "finish"  -> s = "approved" /\ kind[r] \in {"release", "aid"}

Outcome(v) == CASE v = "approve" -> "approved"
                [] v = "reject"  -> "rejected"
                [] v = "finish"  -> "done"

Becomes(r, s) ==
    /\ Entry(r) < MaxChanges
    /\ log' = [log EXCEPT ![r] = Append(@, s)]

\* The write of a verdict that found the row at entry n.  The session writes
\* only what differs from what it read.  "done" is a release that is closed, or
\* aid that is disbursed.
Decide(r, n, v) ==
    /\ Accepts(r, StatusAt(r, n), v)
    /\ IF Outcome(v) = StatusAt(r, n) THEN UNCHANGED log
       ELSE Becomes(r, Outcome(v))
    /\ \/ /\ kind[r] = "image" /\ v = "approve"
          /\ cover' = proposed[r]
          /\ covers' = covers \cup {proposed[r]}
       \/ /\ kind[r] = "image" /\ v = "approve" => proposed[r] \in covers
          /\ UNCHANGED <<cover, covers>>
    /\ UNCHANGED <<proposed, picked>>

\* Other staff on other pages, and a call whose page was left.
Elsewhere(r, v) ==
    /\ \E n \in 1..Entry(r) : Decide(r, n, v)
    /\ OnServer

Appears(r) ==
    /\ Entry(r) = 0
    /\ Becomes(r, "pending")

\* A dialog of the page itself or of somebody else's.
NewAidRequest(r) ==
    /\ kind[r] = "aid"
    /\ Appears(r)
    /\ UNCHANGED <<proposed, picked, cover, covers>>
    /\ OnServer

AddBeneficiary(r) ==
    /\ kind[r] = "beneficiary"
    /\ Appears(r)
    /\ UNCHANGED <<proposed, picked, cover, covers>>
    /\ OnServer

-----------------------------------------------------------------------------
(* Fetching the lists. *)

IsLoad(c) == c # None /\ c.step \in {"asked", "listed"}

\* The older fetch is not cancelled: no action uses this.
FetchBesides(k) == [call EXCEPT ![k] = [step |-> "asked"]]

\* A call that is under way in slot k, and what it does to older ones.
Fetch(k) ==
    IF page = "console"
    THEN [call EXCEPT ![k] = [step |-> "asked"]]
    ELSE [j \in Slots |-> CASE j = k           -> [step |-> "asked"]
                            [] IsLoad(call[j]) -> None
                            [] OTHER           -> call[j]]

LoadAll(k) ==
    /\ call' = Fetch(k)
    /\ loading' = (page = "console")

\* The page is opened, or loaded again.
Open(k) ==
    /\ shown' = [r \in Requests |-> 0]
    /\ dialog' = None
    /\ call' = [j \in Slots |-> IF j = k THEN [step |-> "asked"] ELSE None]
    /\ loading' = (page = "console")
    /\ OnDesk

\* The console's button, which is there while the last fetch counted pending
\* requests (left out); react-query fetches on its own.
Refresh(k) ==
    /\ call[k] = None
    /\ ~loading
    /\ LoadAll(k)
    /\ UNCHANGED <<shown, dialog>>
    /\ OnDesk

\* The console's lists are asked for in one go, and answered at their own
\* times: no property compares rows of two lists.
List(k) ==
    /\ At(k, "asked")
    /\ call' = [call EXCEPT ![k] = [step |-> "listed",
                                    rows |-> [r \in Requests |-> Entry(r)]]]
    /\ UNCHANGED <<shown, dialog, loading>>
    /\ OnDesk

\* failed: the lists that were refused or whose answer was lost.
TakeLists(k, failed) ==
    /\ At(k, "listed")
    /\ shown' = [r \in Requests |->
                    IF kind[r] \notin failed THEN call[k].rows[r]
                    ELSE IF page = "console" THEN 0
                    ELSE shown[r]]
    /\ call' = [call EXCEPT ![k] = None]
    /\ loading' = FALSE
    /\ UNCHANGED dialog
    /\ OnDesk

-----------------------------------------------------------------------------
(* Deciding. *)

OpenDialog(r) ==
    /\ kind[r] = "image"
    /\ shown[r] # 0
    /\ dialog' = [request |-> r, entry |-> shown[r]]
    /\ UNCHANGED <<shown, loading, call>>
    /\ OnDesk

CloseDialog ==
    /\ dialog # None
    /\ dialog' = None
    /\ UNCHANGED <<shown, loading, call>>
    /\ OnDesk

Send(k, r, v) ==
    /\ call[k] = None
    /\ call' = [call EXCEPT ![k] = [step |-> "sent", request |-> r, verb |-> v,
                                    since |-> Entry(r)]]
    /\ UNCHANGED <<shown, dialog, loading>>
    /\ OnDesk

ClickInDialog(k, v) ==
    /\ dialog # None
    /\ v \in Offers(dialog.request, StatusAt(dialog.request, dialog.entry))
    /\ Send(k, dialog.request, v)

Click(k, r, v) ==
    /\ kind[r] # "image"
    /\ v \in Offers(r, StatusAt(r, shown[r]))
    /\ ~Verifying
    /\ Send(k, r, v)

\* The server's handler, from the row it reads to its commit.
Take(k) ==
    /\ At(k, "sent")
    /\ LET r == call[k].request IN
       /\ \E n \in call[k].since .. Entry(r) : Decide(r, n, call[k].verb)
       /\ call' = [call EXCEPT ![k] = [step |-> "taken", request |-> r,
                                       since |-> Len(log'[r])]]
    /\ UNCHANGED <<page, kind, shown, dialog, loading, form>>

\* The console puts the answered row, which was read again after the commit,
\* in place of the listed one, if it still lists it, and leaves its other
\* copy, the dialog's, alone.
Replaced(k) ==
    LET r == call[k].request IN
    IF page = "console" /\ shown[r] # 0
    THEN \E n \in call[k].since .. Entry(r) : shown' = [shown EXCEPT ![r] = n]
    ELSE UNCHANGED shown

\* The dialog's handlers close it and fetch everything, whatever the answer
\* was; react-query's fetch what is now out of date.
Settle(k) ==
    IF kind[call[k].request] = "image" THEN dialog' = None /\ LoadAll(k)
    ELSE /\ call' = [call EXCEPT ![k] = None]
         /\ UNCHANGED <<dialog, loading>>

Succeed(k) ==
    /\ At(k, "taken")
    /\ Replaced(k)
    /\ IF page = "console" THEN Settle(k)
       ELSE LoadAll(k) /\ UNCHANGED dialog
    /\ OnDesk

\* Refused, lost, or its answer is, or late: a message, if any.  A verdict that
\* the server has read the row for is still written: it is Elsewhere's now.
FailVerdict(k) ==
    /\ At(k, "sent") \/ At(k, "taken")
    /\ UNCHANGED shown
    /\ Settle(k)
    /\ OnDesk

-----------------------------------------------------------------------------
(* The organizer's edit form. *)

OnForm == UNCHANGED <<page, kind, server, desk>>

\* The client's copy of a campaign has an image of the backend's at the address
\* of the API that this browser uses.
normalizeCampaignImage(c) ==
    IF c.image \in Api THEN [c EXCEPT !.at = "browser"] ELSE c

\* Of no concern to the other two pages.
OpenForm ==
    /\ page = "console"
    /\ form' = [loaded |-> normalizeCampaignImage(cover), file |-> NoCover]
    /\ OnForm

\* An upload becomes data, which no address is for.
Uploads == {c \in Covers : c.image \notin Api /\ c.at = "stored"}

\* A file that is not an image is refused and forgets the one before.
PickCover(file) ==
    /\ form # None
    /\ form' = [form EXCEPT !.file = file]
    /\ OnForm

\* The cover is forgotten when no file is picked: no action uses this.
SentOnlyIfPicked == form.file

\* Without a new file the form sends back the cover it once loaded.
Sent == IF form.file # NoCover THEN form.file ELSE form.loaded

\* Other fields are changed at once.  The form is left, unless the answer is
\* lost: then it stays as it was, to be sent again.
Save(r) ==
    /\ form # None
    /\ kind[r] = "image"
    /\ Sent # cover
    /\ Appears(r)
    /\ proposed' = [proposed EXCEPT ![r] = Sent]
    /\ picked' = IF form.file # NoCover THEN picked \cup {r} ELSE picked
    /\ form' \in {None, form}
    /\ UNCHANGED <<page, kind, cover, covers, desk>>

\* The cover is the one the campaign has.
SaveText ==
    /\ form # None
    /\ Sent = cover
    /\ form' = None
    /\ OnForm

NonePending(r) ==
    \A q \in Requests : kind[q] = kind[r] => StatusAt(q, Entry(q)) # "pending"

\* The server refuses a second request while one is pending, and the form of a
\* release stays open.
RequestDeletion(r) ==
    /\ form # None
    /\ kind[r] = "deletion"
    /\ NonePending(r)
    /\ Appears(r)
    /\ form' \in {None, form}
    /\ UNCHANGED <<page, kind, proposed, picked, cover, covers, desk>>

RequestRelease(r) ==
    /\ form # None
    /\ kind[r] = "release"
    /\ NonePending(r)
    /\ Appears(r)
    /\ UNCHANGED <<page, kind, proposed, picked, cover, covers, desk, form>>

-----------------------------------------------------------------------------

Next ==
    \/ \E r \in Requests :
          \/ \E v \in Verbs : Elsewhere(r, v)
          \/ NewAidRequest(r) \/ AddBeneficiary(r)
          \/ OpenDialog(r)
          \/ Save(r) \/ RequestDeletion(r) \/ RequestRelease(r)
    \/ \E k \in Slots :
          \/ Open(k) \/ Refresh(k) \/ List(k)
          \/ \E failed \in SUBSET KindsOf(page) : TakeLists(k, failed)
          \/ \E v \in Verbs : ClickInDialog(k, v)
          \/ \E r \in Requests, v \in Verbs : Click(k, r, v)
          \/ Take(k) \/ Succeed(k) \/ FailVerdict(k)
    \/ CloseDialog
    \/ OpenForm
    \/ \E file \in Uploads \cup {NoCover} : PickCover(file)
    \/ SaveText

Spec == Init /\ [][Next]_vars

-----------------------------------------------------------------------------
(* Properties. *)

\* Every part of the state has its declared shape, and a page lists only rows
\* of the kinds it is for.
TypeOK ==
    /\ page \in StaffPages
    /\ kind \in [Requests -> KindsOf(page)]
    /\ log \in [Requests -> Seq(Statuses)]
    /\ proposed \in [Requests -> Covers \cup {NoCover}]
    /\ picked \subseteq Requests
    /\ cover \in Covers
    /\ covers \subseteq Covers
    /\ shown \in [Requests -> Nat]
    /\ dialog \in {None} \cup [request : Requests, entry : Nat \ {0}]
    /\ loading \in BOOLEAN
    /\ call \in [Slots -> Call \cup {None}]
    /\ form \in {None} \cup [loaded : Covers, file : Covers \cup {NoCover}]

\* A list of a react-query page is never replaced by an older one: whatever
\* calls and fetches overlap, and whichever fail, each row is shown as it was
\* when it was shown before, or as it became later, as long as the filter
\* stays.  What was decided is shown undecided only if the server's row fell
\* back.  (The console's lists do go back: one fetched before a verdict and
\* answered after it puts the pending row and its buttons back.)
ListsMoveForward ==
    [][page # "console" =>
          \A r \in Requests : shown'[r] # 0 => shown'[r] >= shown[r]]_vars

\* The console's refresh button is disabled only while a fetch is on its way,
\* so that it comes back: also when two fetches overlap, some lists fail, or
\* the dialog's handlers start a fetch in the middle of another.
LoadingHasLoad == loading => \E k \in Slots : IsLoad(call[k])

\* An organizer who saves the form without picking a file asks for no image
\* that the campaign has not had: the form, which sends every field back, asks
\* for the cover it has, at the browser's address, or for one that an approval
\* has replaced since it was loaded.
UnpickedAsksBack ==
    \A r \in Requests \ picked : kind[r] = "image" /\ Entry(r) # 0 =>
        \E c \in covers : proposed[r] = normalizeCampaignImage(c)

-----------------------------------------------------------------------------
(* What does not hold. *)

\* Once decided a row is not shown undecided, or decided otherwise, again:
\* overlapping verdicts are both written, the later one over the earlier.
DecidedStaysDecided ==
    [][page # "console" => \A r \in Requests :
          LET before == StatusAt(r, shown[r])
              after  == StatusAt(r, shown[r])'
          IN  before = "rejected" => after \in {"absent", "rejected"}]_vars

\* A form saved without a new file asks for a new cover only if another was
\* approved since it was loaded: an image of the backend's is asked for at
\* another address.
UnpickedAsksNothing ==
    \A r \in Requests \ picked :
        kind[r] = "image" /\ Entry(r) # 0 => Cardinality(covers) > 1
=============================================================================
