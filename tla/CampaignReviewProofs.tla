------------------------ MODULE CampaignReviewProofs ------------------------
(***************************************************************************)
(* What holds of reviewed campaigns for any campaigns, images, donations   *)
(* and number of calls in flight.                                          *)
(*                                                                         *)
(* The heart of it is Fresh: as long as no two calls were at work on a     *)
(* campaign at once (Alone), what the one call there has read is still     *)
(* so.  Whatever happens, an entry once decided never waits again          *)
(* (Pointed), which is all that calls that overlap can rely on.            *)
(***************************************************************************)
EXTENDS CampaignReview, SequenceTheorems, TLAPS

\* What a call holds is there: an entry to log, or one of the log to review.
Pointed ==
    \A k \in Slots : call[k] # Idle =>
        /\ call[k].step = "log" => /\ call[k].entry \in Entry
                                   /\ call[k].entry.verdict = "pending"
        /\ call[k].step # "log" => call[k].entry \in DOMAIN log
        /\ call[k].step \in {"close", "mark"} =>
              /\ log[call[k].entry].kind = "release"
              /\ log[call[k].entry].verdict # "pending"
        /\ call[k].step = "mark" =>
              /\ call[k].marked \subseteq confirmed
              /\ \A d \in call[k].marked : PurposeOf[d] = log[call[k].entry].campaign

OnlyReleasesClose ==
    \A i \in DOMAIN log : log[i].verdict = "closed" => log[i].kind = "release"

Alone ==
    \A j, k \in Slots :
        /\ call[j] # Idle /\ call[k] # Idle
        /\ About(call[j]) = About(call[k])
        /\ About(call[j]) \notin overlapped
        => j = k

\* What the lone call of a campaign has read still holds.
Fresh ==
    \A k \in Slots : call[k] # Idle /\ About(call[k]) \notin overlapped =>
        /\ call[k].step \in {"approve", "reject"} =>
              log[call[k].entry].verdict = "pending"
        /\ call[k].step \in {"close", "mark"} =>
              log[call[k].entry].verdict = "approved"
        /\ call[k].step = "log" /\ call[k].entry.kind # "image" =>
              \A i \in DOMAIN log :
                  /\ log[i].campaign = call[k].entry.campaign
                  /\ log[i].kind = call[k].entry.kind
                  => log[i].verdict # "pending"

\* The one entry that waits is the latest of its kind.
WaitingIsLatest ==
    \A i, j \in DOMAIN log :
        /\ log[i].campaign \notin overlapped
        /\ log[i].kind # "image"
        /\ log[j].campaign = log[i].campaign
        /\ log[j].kind = log[i].kind
        /\ log[i].verdict = "pending"
        => j <= i

CallsInv == Pointed /\ OnlyReleasesClose /\ Alone /\ Fresh /\ WaitingIsLatest

RowsInv == CoverIsReviewed /\ DeletedIsHidden /\ DisbursedByRelease

ReviewInv == TypeOK /\ CallsInv /\ RowsInv

-----------------------------------------------------------------------------
(* The shapes. *)

LEMMA LogFacts ==
    ASSUME TypeOK
    PROVE  /\ Len(log) \in Nat
           /\ DOMAIN log = 1 .. Len(log)
           /\ DOMAIN log \subseteq 1 .. MaxLog
           /\ \A i \in DOMAIN log : log[i] \in Entry
  BY ReviewAssumption DEF TypeOK

LEMMA CallFacts ==
    ASSUME TypeOK, NEW k \in Slots, call[k] # Idle
    PROVE  /\ call[k] \in Call
           /\ call[k].step \in {"log", "approve", "reject", "close", "mark"}
  BY DEF TypeOK, Call

LEMMA AboutCampaign ==
    ASSUME TypeOK, Pointed, NEW k \in Slots, call[k] # Idle
    PROVE  About(call[k]) \in Campaigns
  BY LogFacts, CallFacts DEF Pointed, About, Entry

\* Deciding an entry changes its verdict and nothing else of the log.
LEMMA DecidedLog ==
    ASSUME TypeOK, NEW i \in DOMAIN log, NEW v \in Verdicts,
           log' = [log EXCEPT ![i].verdict = v]
    PROVE  /\ log' \in Seq(Entry)
           /\ Len(log') = Len(log)
           /\ DOMAIN log' = DOMAIN log
           /\ log'[i].verdict = v
           /\ \A j \in DOMAIN log :
                 /\ log'[j].campaign = log[j].campaign
                 /\ log'[j].kind = log[j].kind
                 /\ log'[j].image = log[j].image
                 /\ j # i => log'[j] = log[j]
<1>1. [log[i] EXCEPT !.verdict = v] \in Entry
  BY LogFacts DEF Entry
<1>2. log' = [log EXCEPT ![i] = [log[i] EXCEPT !.verdict = v]]
  OBVIOUS
<1>3. log' \in Seq(Entry) /\ Len(log') = Len(log) /\ DOMAIN log' = DOMAIN log
  BY <1>1, <1>2 DEF TypeOK
<1>4. log'[i] = [log[i] EXCEPT !.verdict = v]
  BY <1>2
<1>5. \A j \in DOMAIN log : j # i => log'[j] = log[j]
  BY <1>2
<1>6. log[i] \in Entry
  BY LogFacts
<1> QED
  BY <1>3, <1>4, <1>5, <1>6 DEF Entry

LEMMA AppendedLog ==
    ASSUME TypeOK, NEW e \in Entry, log' = Append(log, e)
    PROVE  /\ log' \in Seq(Entry)
           /\ Len(log') = Len(log) + 1
           /\ DOMAIN log' = DOMAIN log \cup {Len(log) + 1}
           /\ log'[Len(log) + 1] = e
           /\ \A j \in DOMAIN log : log'[j] = log[j] /\ j <= Len(log)
  BY LogFacts DEF TypeOK

LEMMA InitReview == Init => ReviewInv
<1> SUFFICES ASSUME Init PROVE ReviewInv
  OBVIOUS
<1>1. TypeOK
  BY ReviewAssumption DEF Init, TypeOK
<1>2. DOMAIN log = {}
  BY DEF Init
<1>3. CallsInv
  BY <1>2 DEF Init, CallsInv, Pointed, OnlyReleasesClose, Alone, Fresh, WaitingIsLatest
<1>4. RowsInv
  BY <1>2 DEF Init, RowsInv, CoverIsReviewed, DeletedIsHidden, DisbursedByRelease,
              Entries
<1> QED
  BY <1>1, <1>3, <1>4 DEF ReviewInv

-----------------------------------------------------------------------------
(* Steps that only move calls. *)

\* A campaign that two calls work on is no reason for anything to be undecided.
LEMMA QuietRows ==
    ASSUME RowsInv, UNCHANGED rows, overlapped \subseteq overlapped'
    PROVE  RowsInv'
<1>1. CoverIsReviewed'
  BY DEF RowsInv, CoverIsReviewed, Entries, Undisturbed, rows
<1>2. DeletedIsHidden'
  BY DEF RowsInv, DeletedIsHidden, Entries, Undisturbed, rows
<1>3. DisbursedByRelease'
  <2> SUFFICES ASSUME NEW d \in disbursed
               PROVE  \E i \in Entries(PurposeOf[d], "release") :
                         IF PurposeOf[d] \notin overlapped'
                         THEN log[i].verdict = "closed"
                         ELSE log[i].verdict # "pending"
    BY DEF DisbursedByRelease, Entries, Undisturbed, rows
  <2>1. PICK i \in Entries(PurposeOf[d], "release") :
           IF PurposeOf[d] \notin overlapped
           THEN log[i].verdict = "closed"
           ELSE log[i].verdict # "pending"
    BY DEF RowsInv, DisbursedByRelease, Undisturbed
  <2> QED
    BY <2>1
<1> QED
  BY <1>1, <1>2, <1>3 DEF RowsInv

LEMMA QuietType ==
    ASSUME TypeOK, UNCHANGED rows, call' \in [Slots -> Call \cup {Idle}],
           overlapped' \subseteq Campaigns, faults' \in 0 .. MaxFaults
    PROVE  TypeOK'
  BY DEF TypeOK, rows

LEMMA BeginStep ==
    ASSUME ReviewInv, NEW k \in Slots, NEW c \in Campaigns, NEW new \in Call,
           Begin(k, c, new),
           About(new) = c,
           new.step # "mark",
           new.step = "log" => new.entry \in Entry /\ new.entry.verdict = "pending",
           new.step # "log" => new.entry \in DOMAIN log,
           new.step \in {"approve", "reject"} => log[new.entry].verdict = "pending",
           new.step = "close" => /\ log[new.entry].kind = "release"
                                 /\ log[new.entry].verdict = "approved",
           c \notin overlapped /\ new.step = "log" /\ new.entry.kind # "image" =>
              \A i \in DOMAIN log :
                  log[i].campaign = c /\ log[i].kind = new.entry.kind
                  => log[i].verdict # "pending"
    PROVE  ReviewInv'
<1>1. /\ UNCHANGED <<rows, faults>>
      /\ call' = [call EXCEPT ![k] = new]
      /\ overlapped \subseteq overlapped'
      /\ overlapped' \subseteq overlapped \cup {c}
      /\ BusyWith(c) # {} => c \in overlapped'
      /\ call[k] = Idle
  BY DEF Begin
<1>2. call'[k] = new /\ \A j \in Slots \ {k} : call'[j] = call[j]
  BY <1>1 DEF ReviewInv, TypeOK
<1>3. TypeOK'
  BY <1>1, QuietType DEF ReviewInv, TypeOK
<1>4. \A j \in Slots \ {k} : call[j] # Idle /\ About(call[j]) = c => c \in overlapped'
  BY <1>1 DEF BusyWith
<1>5. Pointed'
  BY <1>1, <1>2 DEF ReviewInv, CallsInv, Pointed, rows
<1>6. OnlyReleasesClose'
  BY <1>1 DEF ReviewInv, CallsInv, OnlyReleasesClose, rows
<1>7. Alone'
  <2> SUFFICES ASSUME NEW i \in Slots, NEW j \in Slots, i # j,
                      call'[i] # Idle, call'[j] # Idle,
                      About(call'[i]) = About(call'[j]),
                      About(call'[i]) \notin overlapped'
               PROVE  FALSE
    BY <1>1 DEF Alone, About, rows
  <2>1. CASE i = k \/ j = k
    BY <1>2, <1>4, <2>1
  <2>2. CASE i # k /\ j # k
    BY <1>1, <1>2, <2>2 DEF ReviewInv, CallsInv, Alone
  <2> QED
    BY <2>1, <2>2
<1>8. Fresh'
  <2> SUFFICES ASSUME NEW j \in Slots, call'[j] # Idle,
                      About(call'[j]) \notin overlapped'
               PROVE  /\ call'[j].step \in {"approve", "reject"} =>
                            log[call'[j].entry].verdict = "pending"
                      /\ call'[j].step \in {"close", "mark"} =>
                            log[call'[j].entry].verdict = "approved"
                      /\ call'[j].step = "log" /\ call'[j].entry.kind # "image" =>
                            \A i \in DOMAIN log :
                                /\ log[i].campaign = call'[j].entry.campaign
                                /\ log[i].kind = call'[j].entry.kind
                                => log[i].verdict # "pending"
    BY <1>1 DEF Fresh, About, rows
  <2>1. CASE j = k
    BY <1>1, <1>2, <2>1 DEF About
  <2>2. CASE j # k
    BY <1>1, <1>2, <2>2 DEF ReviewInv, CallsInv, Fresh
  <2> QED
    BY <2>1, <2>2
<1>9. WaitingIsLatest'
  BY <1>1 DEF ReviewInv, CallsInv, WaitingIsLatest, rows
<1>10. RowsInv'
  BY <1>1, QuietRows DEF ReviewInv
<1> QED
  BY <1>3, <1>5, <1>6, <1>7, <1>8, <1>9, <1>10 DEF ReviewInv, CallsInv

LEMMA MoveStep ==
    ASSUME ReviewInv, NEW k \in Slots, Abort(k) \/ ReadDonations(k)
    PROVE  ReviewInv'
<1> USE LogFacts DEF ReviewInv
<1>1. /\ UNCHANGED <<rows, overlapped>>
      /\ call[k] # Idle
      /\ \A j \in Slots \ {k} : call'[j] = call[j]
  BY DEF Abort, ReadDonations, At, TypeOK
<1>2. \/ call'[k] = Idle
      \/ /\ call[k].step = "close" /\ call'[k].step = "mark"
         /\ call'[k].entry = call[k].entry
         /\ call'[k].marked = DonationsOf(log[call[k].entry].campaign)
  BY DEF Abort, ReadDonations, At, TypeOK
<1>3. TypeOK'
  <2>1. call[k].step = "close" => call[k].entry \in 1 .. MaxLog
    BY <1>1 DEF CallsInv, Pointed
  <2>2. call' \in [Slots -> Call \cup {Idle}]
    <3>1. CASE Abort(k)
      BY <3>1 DEF Abort, TypeOK
    <3>2. CASE ReadDonations(k)
      <4> DEFINE new == [step |-> "mark", entry |-> call[k].entry,
                         marked |-> DonationsOf(log[call[k].entry].campaign)]
      <4>1. DonationsOf(log[call[k].entry].campaign) \subseteq Donations
        BY DEF DonationsOf, TypeOK
      <4>2. new \in Call
        BY <2>1, <3>2, <4>1 DEF ReadDonations, At, Call
      <4> QED
        BY <3>2, <4>2 DEF ReadDonations, TypeOK
    <3> QED
      BY <3>1, <3>2
  <2>3. faults' \in 0 .. MaxFaults /\ overlapped' \subseteq Campaigns
    BY ReviewAssumption DEF Abort, ReadDonations, TypeOK
  <2> QED
    BY <1>1, <2>2, <2>3, QuietType
<1>4. Pointed'
  <2>1. call'[k] # Idle => /\ call'[k].marked \subseteq confirmed
                           /\ \A d \in call'[k].marked :
                                 PurposeOf[d] = log[call'[k].entry].campaign
    BY <1>2 DEF DonationsOf
  <2> QED
    BY <1>1, <1>2, <2>1 DEF CallsInv, Pointed, rows
<1>5. OnlyReleasesClose' /\ WaitingIsLatest'
  BY <1>1 DEF CallsInv, OnlyReleasesClose, WaitingIsLatest, rows
<1>6. \A j \in Slots : call'[j] # Idle =>
         call[j] # Idle /\ About(call'[j]) = About(call[j])
  BY <1>1, <1>2 DEF About
<1>7. Alone'
  BY <1>1, <1>6 DEF CallsInv, Alone, About, rows
<1>8. Fresh'
  BY <1>1, <1>2, <1>6 DEF CallsInv, Fresh, About, rows
<1>9. RowsInv'
  BY <1>1, QuietRows
<1> QED
  BY <1>3, <1>4, <1>5, <1>7, <1>8, <1>9 DEF CallsInv

LEMMA AskStep ==
    ASSUME ReviewInv, NEW k \in Slots, NEW c \in Campaigns,
           \/ \E img \in Images \cup {NoImage} : UpdateImage(k, c, img)
           \/ RequestDeletion(k, c)
           \/ RequestRelease(k, c)
    PROVE  ReviewInv'
<1>1. ASSUME NEW kind \in Kinds, NEW img \in Images \cup {NoImage},
             Asks(k, c, kind, img),
             c \notin overlapped /\ kind # "image" =>
                \A i \in DOMAIN log : log[i].campaign = c /\ log[i].kind = kind
                                      => log[i].verdict # "pending"
      PROVE  ReviewInv'
  <2> DEFINE new == [step |-> "log", entry |-> Request(c, kind, img)]
  <2>1. /\ Request(c, kind, img) \in Entry
        /\ new.step = "log"
        /\ new.entry.kind = kind
        /\ new.entry.campaign = c
        /\ new.entry.verdict = "pending"
    BY DEF Request, Entry, Verdicts
  <2>2. new \in Call
    BY <2>1 DEF Call
  <2>3. Begin(k, c, new)
    BY <1>1 DEF Asks
  <2>4. About(new) = c
    BY <2>1 DEF About
  <2> HIDE DEF new
  <2> QED
    BY <1>1, <2>1, <2>2, <2>3, <2>4, BeginStep DEF new
<1>2. ASSUME NEW img \in Images \cup {NoImage}, UpdateImage(k, c, img)
      PROVE  ReviewInv'
  BY <1>1, <1>2 DEF UpdateImage, Kinds
<1>3. CASE RequestDeletion(k, c)
  <2>1. ASSUME c \notin overlapped, NEW i \in DOMAIN log,
               log[i].campaign = c, log[i].kind = "deletion",
               log[i].verdict = "pending"
        PROVE  FALSE
    <3>1. PICK j \in Entries(c, "deletion") : j > i
      BY <1>3, <2>1 DEF RequestDeletion, Entries
    <3>2. j <= i
      BY <2>1, <3>1 DEF ReviewInv, CallsInv, WaitingIsLatest, Entries
    <3> QED
      BY <3>1, <3>2, LogFacts DEF ReviewInv, Entries
  <2> QED
    BY <1>1, <1>3, <2>1 DEF RequestDeletion, Kinds
<1>4. CASE RequestRelease(k, c)
  <2>1. \A i \in DOMAIN log : log[i].campaign = c /\ log[i].kind = "release"
                              => log[i].verdict # "pending"
    BY <1>4 DEF RequestRelease, ReleasePending, Entries
  <2> QED
    BY <1>1, <1>4, <2>1 DEF RequestRelease, Kinds
<1> QED
  BY <1>2, <1>3, <1>4

LEMMA ReadStep ==
    ASSUME ReviewInv, NEW k \in Slots, NEW i \in DOMAIN log,
           ReadForApproval(k, i) \/ ReadForRejection(k, i) \/ ReadForClosing(k, i)
    PROVE  ReviewInv'
<1>1. /\ log[i].campaign \in Campaigns
      /\ i \in 1 .. MaxLog
      /\ image[log[i].campaign] \in Images \cup {NoImage}
  BY LogFacts DEF ReviewInv, TypeOK, Entry
<1>2. CASE ReadForApproval(k, i)
  <2> DEFINE new == [step |-> "approve", entry |-> i, seen |-> image[log[i].campaign]]
  <2>1. new \in Call /\ new.step = "approve" /\ new.entry = i
    BY <1>1 DEF Call
  <2>2. Begin(k, log[i].campaign, new) /\ About(new) = log[i].campaign
    BY <1>2 DEF ReadForApproval, About
  <2>3. log[i].verdict = "pending"
    BY <1>2 DEF ReadForApproval, Reviewable
  <2> HIDE DEF new
  <2> QED
    BY <1>1, <2>1, <2>2, <2>3, BeginStep
<1>3. CASE ReadForRejection(k, i)
  <2> DEFINE new == [step |-> "reject", entry |-> i]
  <2>1. new \in Call /\ new.step = "reject" /\ new.entry = i
    BY <1>1 DEF Call
  <2>2. Begin(k, log[i].campaign, new) /\ About(new) = log[i].campaign
    BY <1>3 DEF ReadForRejection, About
  <2>3. log[i].verdict = "pending"
    BY <1>3 DEF ReadForRejection, Reviewable
  <2> HIDE DEF new
  <2> QED
    BY <1>1, <2>1, <2>2, <2>3, BeginStep
<1>4. CASE ReadForClosing(k, i)
  <2> DEFINE new == [step |-> "close", entry |-> i]
  <2>1. new \in Call /\ new.step = "close" /\ new.entry = i
    BY <1>1 DEF Call
  <2>2. Begin(k, log[i].campaign, new) /\ About(new) = log[i].campaign
    BY <1>4 DEF ReadForClosing, About
  <2>3. log[i].kind = "release" /\ log[i].verdict = "approved"
    BY <1>4 DEF ReadForClosing, Closable
  <2> HIDE DEF new
  <2> QED
    BY <1>1, <2>1, <2>2, <2>3, BeginStep
<1> QED
  BY <1>2, <1>3, <1>4

-----------------------------------------------------------------------------
(* Steps that change rows. *)

LEMMA RowStep ==
    ASSUME ReviewInv,
           \/ \E c \in Campaigns : CreateCampaign(c)
           \/ \E d \in Donations : ConfirmDonation(d)
    PROVE  ReviewInv'
<1>1. /\ UNCHANGED <<image, log, disbursed, call, overlapped, faults>>
      /\ confirmed \subseteq confirmed'
  BY DEF CreateCampaign, ConfirmDonation
<1>2. \A c \in Campaigns : status'[c] = "draft" <=> status[c] = "draft"
  BY DEF CreateCampaign, ConfirmDonation, ReviewInv, TypeOK
<1>3. TypeOK'
  BY DEF CreateCampaign, ConfirmDonation, ReviewInv, TypeOK
<1>4. Pointed'
  BY <1>1 DEF ReviewInv, CallsInv, Pointed
<1>5. OnlyReleasesClose' /\ WaitingIsLatest'
  BY <1>1 DEF ReviewInv, CallsInv, OnlyReleasesClose, WaitingIsLatest
<1>6. Alone' /\ Fresh'
  BY <1>1 DEF ReviewInv, CallsInv, Alone, Fresh, About
<1>7. CoverIsReviewed' /\ DisbursedByRelease'
  BY <1>1 DEF ReviewInv, RowsInv, CoverIsReviewed, DisbursedByRelease, Entries, Undisturbed
<1>8. DeletedIsHidden'
  BY <1>1, <1>2 DEF ReviewInv, RowsInv, DeletedIsHidden, Entries, Undisturbed
<1> QED
  BY <1>3, <1>4, <1>5, <1>6, <1>7, <1>8 DEF ReviewInv, CallsInv, RowsInv

LEMMA LogStep ==
    ASSUME ReviewInv, NEW k \in Slots, LogChange(k)
    PROVE  ReviewInv'
<1> USE LogFacts DEF ReviewInv
<1> DEFINE n == Len(log) + 1
<1>1. /\ call[k] # Idle /\ call[k].step = "log"
      /\ call[k].entry \in Entry /\ call[k].entry.verdict = "pending"
      /\ UNCHANGED <<status, image, confirmed, disbursed, overlapped, faults>>
      /\ call' = [call EXCEPT ![k] = Idle]
      /\ log' = Append(log, call[k].entry)
      /\ Len(log) < MaxLog
  BY DEF LogChange, At, Return, CallsInv, Pointed
<1>2. /\ log' \in Seq(Entry)
      /\ Len(log') = n
      /\ DOMAIN log' = DOMAIN log \cup {n}
      /\ log'[n] = call[k].entry
      /\ \A j \in DOMAIN log : log'[j] = log[j] /\ j <= Len(log)
  BY <1>1, AppendedLog
<1>3. call'[k] = Idle /\ \A j \in Slots \ {k} : call'[j] = call[j]
  BY <1>1 DEF TypeOK
<1>4. TypeOK'
  BY <1>1, <1>2, ReviewAssumption DEF TypeOK
<1> HIDE DEF n
<1>5. \A j \in Slots : call'[j] # Idle =>
         call[j] # Idle /\ call'[j] = call[j] /\ About(call[j])' = About(call[j])
  BY <1>2, <1>3 DEF CallsInv, Pointed, About
<1>6. Pointed'
  BY <1>1, <1>2, <1>5 DEF CallsInv, Pointed
<1>7. OnlyReleasesClose'
  BY <1>1, <1>2 DEF CallsInv, OnlyReleasesClose
<1>8. Alone'
  BY <1>1, <1>5 DEF CallsInv, Alone
<1>9. About(call[k]) = call[k].entry.campaign
  BY <1>1 DEF About
<1>10. Fresh'
  <2> SUFFICES ASSUME NEW j \in Slots, call'[j] # Idle,
                      (About(call[j]) \notin overlapped)'
               PROVE  /\ call[j].step \in {"approve", "reject"} =>
                            log'[call[j].entry].verdict = "pending"
                      /\ call[j].step \in {"close", "mark"} =>
                            log'[call[j].entry].verdict = "approved"
                      /\ call[j].step = "log" /\ call[j].entry.kind # "image" =>
                            \A i \in DOMAIN log' :
                                /\ log'[i].campaign = call[j].entry.campaign
                                /\ log'[i].kind = call[j].entry.kind
                                => log'[i].verdict # "pending"
    BY <1>5 DEF Fresh
  <2>1. /\ call[j] # Idle /\ j # k /\ About(call[j]) \notin overlapped
    BY <1>1, <1>3, <1>5
  <2>2. call[j].step # "log" => call[j].entry \in DOMAIN log
    BY <2>1 DEF CallsInv, Pointed
  <2>3. call[j].step = "log" => call[j].entry.campaign # call[k].entry.campaign
    BY <1>1, <1>9, <2>1 DEF CallsInv, Alone, About
  <2> QED
    BY <1>2, <2>1, <2>2, <2>3 DEF CallsInv, Fresh
<1>11. WaitingIsLatest'
  <2> SUFFICES ASSUME NEW i \in DOMAIN log', NEW j \in DOMAIN log',
                      log'[i].campaign \notin overlapped,
                      log'[i].kind # "image",
                      log'[j].campaign = log'[i].campaign,
                      log'[j].kind = log'[i].kind,
                      log'[i].verdict = "pending"
               PROVE  j <= i
    BY <1>1 DEF WaitingIsLatest
  <2>1. CASE i = n
    BY <1>2, <2>1 DEF n
  <2>2. CASE i # n /\ j = n
    <3>1. /\ i \in DOMAIN log /\ log'[i] = log[i]
          /\ call[k].entry.campaign = log[i].campaign
          /\ call[k].entry.kind = log[i].kind
      BY <1>2, <2>2
    <3>2. log[i].verdict # "pending"
      BY <1>1, <1>9, <3>1 DEF CallsInv, Fresh
    <3> QED
      BY <3>1, <3>2
  <2>3. CASE i # n /\ j # n
    BY <1>2, <2>3 DEF CallsInv, WaitingIsLatest
  <2> QED
    BY <2>1, <2>2, <2>3
<1>12. CoverIsReviewed'
  <2> SUFFICES ASSUME NEW c \in Campaigns, image[c] # FirstImage[c]
               PROVE  \E i \in Entries(c, "image")' :
                        /\ log'[i].image = image[c]
                        /\ log'[i].verdict \in
                              IF c \notin overlapped
                              THEN {"approved"} ELSE {"approved", "rejected"}
    BY <1>1 DEF CoverIsReviewed, Undisturbed
  <2>1. PICK i \in Entries(c, "image") :
           /\ log[i].image = image[c]
           /\ log[i].verdict \in
                 IF c \notin overlapped
                 THEN {"approved"} ELSE {"approved", "rejected"}
    BY DEF RowsInv, CoverIsReviewed, Undisturbed
  <2>2. log'[i] = log[i] /\ i \in Entries(c, "image")'
    BY <1>2 DEF Entries
  <2> QED
    BY <2>1, <2>2
<1>13. DeletedIsHidden'
  <2> SUFFICES ASSUME NEW c \in Campaigns
               PROVE  (\E i \in Entries(c, "deletion")' : log'[i].verdict = "approved")
                      <=> \E i \in Entries(c, "deletion") : log[i].verdict = "approved"
    BY <1>1 DEF RowsInv, DeletedIsHidden, Undisturbed
  <2> QED
    BY <1>1, <1>2 DEF Entries
<1>14. DisbursedByRelease'
  <2> SUFFICES ASSUME NEW d \in disbursed
               PROVE  \E i \in Entries(PurposeOf[d], "release")' :
                         IF PurposeOf[d] \notin overlapped
                         THEN log'[i].verdict = "closed"
                         ELSE log'[i].verdict # "pending"
    BY <1>1 DEF DisbursedByRelease, Undisturbed
  <2>1. PICK i \in Entries(PurposeOf[d], "release") :
           IF PurposeOf[d] \notin overlapped
           THEN log[i].verdict = "closed"
           ELSE log[i].verdict # "pending"
    BY DEF RowsInv, DisbursedByRelease, Undisturbed
  <2>2. log'[i] = log[i] /\ i \in Entries(PurposeOf[d], "release")'
    BY <1>2 DEF Entries
  <2> QED
    BY <2>1, <2>2
<1> QED
  BY <1>4, <1>6, <1>7, <1>8, <1>10, <1>11, <1>12, <1>13, <1>14 DEF CallsInv, RowsInv

-----------------------------------------------------------------------------
(* Verdicts. *)

\* Call k ends by giving its entry verdict v.
Gives(k, v) ==
    /\ call[k] # Idle
    /\ \/ v = "approved" /\ call[k].step = "approve"
       \/ v = "rejected" /\ call[k].step = "reject"
       \/ v = "closed" /\ call[k].step = "mark"
    /\ log' = [log EXCEPT ![call[k].entry].verdict = v]
    /\ call' = [call EXCEPT ![k] = Idle]
    /\ UNCHANGED <<confirmed, overlapped, faults>>

\* What a verdict changes, and what it may rely on unless calls overlapped.
LEMMA GivenFacts ==
    ASSUME ReviewInv, NEW k \in Slots, NEW v, Gives(k, v)
    PROVE  /\ call[k].entry \in DOMAIN log
           /\ v \in {"approved", "rejected", "closed"}
           /\ log' \in Seq(Entry)
           /\ Len(log') = Len(log)
           /\ DOMAIN log' = DOMAIN log
           /\ log'[call[k].entry].verdict = v
           /\ \A j \in DOMAIN log :
                 /\ log'[j].campaign = log[j].campaign
                 /\ log'[j].kind = log[j].kind
                 /\ log'[j].image = log[j].image
                 /\ j # call[k].entry => log'[j] = log[j]
           /\ v = "closed" => log[call[k].entry].kind = "release"
           /\ log[call[k].entry].campaign \notin overlapped =>
                 IF v = "closed" THEN log[call[k].entry].verdict = "approved"
                                 ELSE log[call[k].entry].verdict = "pending"
<1>1. call[k] # Idle /\ call[k].step \in {"approve", "reject", "mark"}
  BY DEF Gives
<1>2. call[k].entry \in DOMAIN log
  BY <1>1 DEF ReviewInv, CallsInv, Pointed
<1>3. v \in Verdicts /\ v \in {"approved", "rejected", "closed"}
  BY DEF Gives, Verdicts
<1>4. log' = [log EXCEPT ![call[k].entry].verdict = v]
  BY DEF Gives
<1>5. v = "closed" => log[call[k].entry].kind = "release"
  BY <1>1 DEF Gives, ReviewInv, CallsInv, Pointed
<1>6. log[call[k].entry].campaign \notin overlapped =>
         IF v = "closed" THEN log[call[k].entry].verdict = "approved"
                         ELSE log[call[k].entry].verdict = "pending"
  BY <1>1 DEF Gives, ReviewInv, CallsInv, Fresh, About
<1> QED
  BY <1>2, <1>3, <1>4, <1>5, <1>6, DecidedLog DEF ReviewInv

LEMMA GivenCalls ==
    ASSUME ReviewInv, NEW k \in Slots, NEW v, Gives(k, v)
    PROVE  CallsInv'
<1> USE LogFacts, GivenFacts DEF ReviewInv
<1> DEFINE i0 == call[k].entry
<1>1. /\ call[k] # Idle /\ call[k].step # "log"
      /\ overlapped' = overlapped /\ confirmed' = confirmed
      /\ call'[k] = Idle
      /\ \A j \in Slots \ {k} : call'[j] = call[j]
  BY DEF Gives, TypeOK
<1>2. \A j \in Slots : call'[j] # Idle =>
         /\ call[j] # Idle /\ j # k /\ call'[j] = call[j]
         /\ About(call[j])' = About(call[j])
  BY <1>1 DEF CallsInv, Pointed, About
<1>3. Pointed'
  BY <1>1, <1>2 DEF CallsInv, Pointed
<1>4. OnlyReleasesClose'
  BY DEF CallsInv, OnlyReleasesClose
<1>5. Alone'
  BY <1>1, <1>2 DEF CallsInv, Alone
<1>6. Fresh'
  <2> SUFFICES ASSUME NEW j \in Slots, call'[j] # Idle,
                      (About(call[j]) \notin overlapped)'
               PROVE  /\ call[j].step \in {"approve", "reject"} =>
                            log'[call[j].entry].verdict = "pending"
                      /\ call[j].step \in {"close", "mark"} =>
                            log'[call[j].entry].verdict = "approved"
                      /\ call[j].step = "log" /\ call[j].entry.kind # "image" =>
                            \A i \in DOMAIN log' :
                                /\ log'[i].campaign = call[j].entry.campaign
                                /\ log'[i].kind = call[j].entry.kind
                                => log'[i].verdict # "pending"
    BY <1>2 DEF Fresh
  <2>1. call[j] # Idle /\ j # k /\ About(call[j]) \notin overlapped
    BY <1>1, <1>2
  <2>2. About(call[j]) # About(call[k])
    BY <1>1, <2>1 DEF CallsInv, Alone
  <2>3. call[j].step # "log" => call[j].entry \in DOMAIN log /\ call[j].entry # i0
    BY <1>1, <2>1, <2>2 DEF CallsInv, Pointed, About
  <2>4. /\ call[j].step \in {"approve", "reject"} =>
              log'[call[j].entry].verdict = "pending"
        /\ call[j].step \in {"close", "mark"} =>
              log'[call[j].entry].verdict = "approved"
    BY <2>1, <2>3 DEF CallsInv, Fresh
  <2>5. ASSUME call[j].step = "log", call[j].entry.kind # "image",
               NEW i \in DOMAIN log,
               log[i].campaign = call[j].entry.campaign,
               log[i].kind = call[j].entry.kind
        PROVE  log'[i].verdict # "pending"
    <3>1. log[i].verdict # "pending"
      BY <2>1, <2>5 DEF CallsInv, Fresh
    <3> QED
      BY <3>1
  <2> QED
    BY <2>4, <2>5
<1>7. WaitingIsLatest'
  BY <1>1 DEF CallsInv, WaitingIsLatest
<1> QED
  BY <1>3, <1>4, <1>5, <1>6, <1>7 DEF CallsInv

\* The donations marked before stay accounted for.
LEMMA GivenDisbursed ==
    ASSUME ReviewInv, NEW k \in Slots, NEW v, Gives(k, v), NEW d \in disbursed
    PROVE  \E i \in Entries(PurposeOf[d], "release")' :
              IF PurposeOf[d] \notin overlapped'
              THEN log'[i].verdict = "closed"
              ELSE log'[i].verdict # "pending"
<1> USE GivenFacts DEF ReviewInv
<1>1. PICK i \in Entries(PurposeOf[d], "release") :
         IF PurposeOf[d] \notin overlapped
         THEN log[i].verdict = "closed"
         ELSE log[i].verdict # "pending"
  BY DEF RowsInv, DisbursedByRelease, Undisturbed
<1>2. i \in DOMAIN log /\ i \in Entries(PurposeOf[d], "release")'
  BY DEF Entries
<1>3. overlapped' = overlapped
  BY DEF Gives
<1>4. CASE i = call[k].entry
  BY <1>1, <1>2, <1>3, <1>4 DEF Entries
<1>5. CASE i # call[k].entry
  BY <1>1, <1>2, <1>3, <1>5
<1> QED
  BY <1>4, <1>5

\* A cover that is not replaced keeps the decision it rests on.
LEMMA GivenCover ==
    ASSUME ReviewInv, NEW k \in Slots, NEW v, Gives(k, v),
           NEW c \in Campaigns, image'[c] = image[c], image[c] # FirstImage[c]
    PROVE  \E i \in Entries(c, "image")' :
              /\ log'[i].image = image'[c]
              /\ log'[i].verdict \in
                    IF c \notin overlapped'
                    THEN {"approved"} ELSE {"approved", "rejected"}
<1> USE GivenFacts DEF ReviewInv
<1>1. PICK i \in Entries(c, "image") :
         /\ log[i].image = image[c]
         /\ log[i].verdict \in
               IF c \notin overlapped
               THEN {"approved"} ELSE {"approved", "rejected"}
  BY DEF RowsInv, CoverIsReviewed, Undisturbed
<1>2. i \in DOMAIN log /\ i \in Entries(c, "image")'
  BY DEF Entries
<1>3. overlapped' = overlapped
  BY DEF Gives
<1>4. CASE i = call[k].entry
  <2>1. v # "closed"
    BY <1>4 DEF Entries
  <2> QED
    BY <1>1, <1>2, <1>3, <1>4, <2>1 DEF Entries
<1>5. CASE i # call[k].entry
  BY <1>1, <1>2, <1>3, <1>5
<1> QED
  BY <1>4, <1>5

\* Where the entry is not an approved deletion before or after, it hides and
\* shows nothing.
LEMMA GivenDeleted ==
    ASSUME ReviewInv, NEW k \in Slots, NEW v, Gives(k, v),
           log[call[k].entry].kind # "deletion" \/ v = "rejected",
           status' = status
    PROVE  DeletedIsHidden'
<1> USE GivenFacts DEF ReviewInv
<1> SUFFICES ASSUME NEW c \in Campaigns
             PROVE  /\ (\E i \in Entries(c, "deletion")' : log'[i].verdict = "approved")
                          => status[c] = "draft"
                    /\ status[c] = "draft" /\ c \notin overlapped =>
                          \E i \in Entries(c, "deletion")' : log'[i].verdict = "approved"
  BY DEF Gives, DeletedIsHidden, Undisturbed
<1>1. ASSUME NEW i \in Entries(c, "deletion")', log'[i].verdict = "approved"
      PROVE  status[c] = "draft"
  <2>1. i \in Entries(c, "deletion") /\ i # call[k].entry
    BY <1>1 DEF Entries
  <2> QED
    BY <1>1, <2>1 DEF RowsInv, DeletedIsHidden, Entries
<1>2. ASSUME status[c] = "draft", c \notin overlapped
      PROVE  \E i \in Entries(c, "deletion")' : log'[i].verdict = "approved"
  <2>1. PICK i \in Entries(c, "deletion") : log[i].verdict = "approved"
    BY <1>2 DEF RowsInv, DeletedIsHidden, Undisturbed
  <2>2. i \in DOMAIN log /\ i \in Entries(c, "deletion")' /\ i # call[k].entry
    BY <1>2, <2>1 DEF Entries
  <2> QED
    BY <2>1, <2>2
<1> QED
  BY <1>1, <1>2

LEMMA GivenType ==
    ASSUME ReviewInv, NEW k \in Slots, NEW v, Gives(k, v),
           status' \in [Campaigns -> {"absent", "active", "draft"}],
           image' \in [Campaigns -> Images \cup {NoImage}],
           disbursed' \subseteq confirmed
    PROVE  TypeOK'
<1>1. call' \in [Slots -> Call \cup {Idle}]
  BY DEF Gives, ReviewInv, TypeOK
<1> QED
  BY <1>1, GivenFacts DEF Gives, ReviewInv, TypeOK

LEMMA DecideStep ==
    ASSUME ReviewInv, NEW k \in Slots,
           ApproveRelease(k) \/ ApproveDeletion(k) \/ ApproveImage(k) \/ Reject(k)
    PROVE  ReviewInv'
<1> DEFINE e == log[call[k].entry]
<1>1. /\ call[k] # Idle
      /\ UNCHANGED <<confirmed, disbursed, overlapped, faults>>
      /\ call' = [call EXCEPT ![k] = Idle]
  BY DEF ApproveRelease, ApproveDeletion, ApproveImage, Reject, Decide, At, Return
<1>2. PICK given \in {"approved", "rejected"} :
         /\ Gives(k, given)
         /\ Reject(k) => given = "rejected"
         /\ ApproveRelease(k) \/ ApproveDeletion(k) \/ ApproveImage(k)
               => given = "approved"
  BY <1>1 DEF ApproveRelease, ApproveDeletion, ApproveImage, Reject, Decide, At, Gives
<1>3. e \in Entry /\ e.campaign \in Campaigns /\ e.image \in Images \cup {NoImage}
  BY <1>2, GivenFacts, LogFacts DEF ReviewInv, Entry
<1>4. TypeOK'
  <2>1. status' \in [Campaigns -> {"absent", "active", "draft"}]
    BY <1>3 DEF ApproveRelease, ApproveDeletion, ApproveImage, Reject, Hidden,
                ReviewInv, TypeOK
  <2>2. image' \in [Campaigns -> Images \cup {NoImage}]
    BY <1>3 DEF ApproveRelease, ApproveDeletion, ApproveImage, Reject, ReviewInv, TypeOK
  <2>3. disbursed' \subseteq confirmed
    BY <1>1 DEF ReviewInv, TypeOK
  <2> QED
    BY <1>2, <2>1, <2>2, <2>3, GivenType
<1>5. CallsInv'
  BY <1>2, GivenCalls
<1>6. DisbursedByRelease'
  BY <1>1, <1>2, GivenDisbursed DEF DisbursedByRelease, Undisturbed
<1>7. CoverIsReviewed'
  <2> SUFFICES ASSUME NEW c \in Campaigns, image'[c] # FirstImage[c]
               PROVE  \E i \in Entries(c, "image")' :
                        /\ log'[i].image = image'[c]
                        /\ log'[i].verdict \in
                              IF c \notin overlapped'
                              THEN {"approved"} ELSE {"approved", "rejected"}
    BY DEF CoverIsReviewed, Undisturbed
  <2>1. CASE image'[c] = image[c]
    BY <1>2, <2>1, GivenCover
  <2>2. CASE image'[c] # image[c]
    <3>1. ApproveImage(k) /\ e.kind = "image" /\ given = "approved"
      BY <1>2, <2>2
         DEF ApproveRelease, ApproveDeletion, ApproveImage, Reject
    <3>2. c = e.campaign /\ image'[c] = e.image
      BY <1>3, <2>2, <3>1 DEF ApproveImage, ReviewInv, TypeOK
    <3>3. /\ call[k].entry \in Entries(c, "image")'
          /\ log'[call[k].entry].image = image'[c]
          /\ log'[call[k].entry].verdict = "approved"
      BY <1>2, <3>1, <3>2, GivenFacts DEF Entries
    <3> QED
      BY <3>3
  <2> QED
    BY <2>1, <2>2
<1>8. DeletedIsHidden'
  <2>1. CASE ApproveRelease(k) \/ ApproveImage(k) \/ Reject(k)
    <3>1. status' = status /\ (e.kind # "deletion" \/ given = "rejected")
      BY <1>2, <2>1 DEF ApproveRelease, ApproveImage, Reject
    <3> QED
      BY <1>2, <3>1, GivenDeleted
  <2>2. CASE ApproveDeletion(k)
    <3> SUFFICES ASSUME NEW c \in Campaigns
                 PROVE  /\ (\E i \in Entries(c, "deletion")' :
                               log'[i].verdict = "approved") => status'[c] = "draft"
                        /\ status'[c] = "draft" /\ c \notin overlapped =>
                              \E i \in Entries(c, "deletion")' :
                                 log'[i].verdict = "approved"
      BY <1>1 DEF DeletedIsHidden, Undisturbed
    <3>1. /\ e.kind = "deletion" /\ given = "approved"
          /\ status'[e.campaign] = "draft"
          /\ c # e.campaign => status'[c] = status[c]
      BY <1>2, <1>3, <2>2 DEF ApproveDeletion, Hidden, ReviewInv, TypeOK
    <3>2. CASE c = e.campaign
      <4>1. /\ call[k].entry \in Entries(c, "deletion")'
            /\ log'[call[k].entry].verdict = "approved"
        BY <1>2, <3>1, <3>2, GivenFacts DEF Entries
      <4> QED
        BY <3>1, <3>2, <4>1
    <3>3. CASE c # e.campaign
      <4>1. /\ Entries(c, "deletion")' = Entries(c, "deletion")
            /\ \A i \in Entries(c, "deletion") : log'[i] = log[i]
        BY <1>2, <3>3, GivenFacts DEF Entries
      <4> QED
        BY <3>1, <3>3, <4>1 DEF ReviewInv, RowsInv, DeletedIsHidden, Undisturbed
    <3> QED
      BY <3>2, <3>3
  <2> QED
    BY <2>1, <2>2
<1> QED
  BY <1>4, <1>5, <1>6, <1>7, <1>8 DEF ReviewInv, RowsInv

LEMMA CloseStep ==
    ASSUME ReviewInv, NEW k \in Slots, CloseRelease(k)
    PROVE  ReviewInv'
<1> DEFINE e == log[call[k].entry]
<1>1. /\ Gives(k, "closed")
      /\ call[k] # Idle /\ call[k].step = "mark"
      /\ UNCHANGED <<status, image, confirmed, overlapped>>
      /\ disbursed' = disbursed \cup call[k].marked
  BY DEF CloseRelease, At, Return, Gives
<1>2. /\ call[k].marked \subseteq confirmed
      /\ \A d \in call[k].marked : PurposeOf[d] = e.campaign
      /\ e.kind = "release"
  BY <1>1 DEF ReviewInv, CallsInv, Pointed
<1>3. TypeOK'
  BY <1>1, <1>2, GivenType DEF ReviewInv, TypeOK
<1>4. CallsInv'
  BY <1>1, GivenCalls
<1>5. CoverIsReviewed'
  BY <1>1, GivenCover DEF CoverIsReviewed, Undisturbed
<1>6. DeletedIsHidden'
  BY <1>1, <1>2, GivenDeleted
<1>7. DisbursedByRelease'
  <2> SUFFICES ASSUME NEW d \in disbursed'
               PROVE  \E i \in Entries(PurposeOf[d], "release")' :
                         IF PurposeOf[d] \notin overlapped'
                         THEN log'[i].verdict = "closed"
                         ELSE log'[i].verdict # "pending"
    BY DEF DisbursedByRelease, Undisturbed
  <2>1. CASE d \in disbursed
    BY <1>1, <2>1, GivenDisbursed
  <2>2. CASE d \in call[k].marked
    <3>1. /\ call[k].entry \in Entries(PurposeOf[d], "release")'
          /\ log'[call[k].entry].verdict = "closed"
      BY <1>1, <1>2, <2>2, GivenFacts DEF Entries
    <3> QED
      BY <3>1
  <2> QED
    BY <1>1, <2>1, <2>2
<1> QED
  BY <1>3, <1>4, <1>5, <1>6, <1>7 DEF ReviewInv, RowsInv

-----------------------------------------------------------------------------
(* The invariant. *)

LEMMA NextReview == ReviewInv /\ [Next]_vars => ReviewInv'
<1> SUFFICES ASSUME ReviewInv, [Next]_vars PROVE ReviewInv'
  OBVIOUS
<1>1. CASE UNCHANGED vars
  BY <1>1 DEF vars, rows, ReviewInv, TypeOK, CallsInv, Pointed, OnlyReleasesClose, Alone,
     Fresh, WaitingIsLatest, About, RowsInv, CoverIsReviewed, DeletedIsHidden,
     DisbursedByRelease, Entries, Undisturbed
<1>2. CASE Next
  BY <1>2, MoveStep, AskStep, ReadStep, RowStep, LogStep, DecideStep, CloseStep DEF Next
<1> QED
  BY <1>1, <1>2

LEMMA ReviewInvariant == Spec => []ReviewInv
<1>1. Init => ReviewInv
  BY InitReview
<1>2. ReviewInv /\ [Next]_vars => ReviewInv'
  BY NextReview
<1> QED
  BY <1>1, <1>2, PTL DEF Spec

\* Rows and calls keep their shapes, and only confirmed donations are marked
\* disbursed, for any number of calls that overlap or die.
THEOREM ReviewTypeCorrect == Spec => []TypeOK
<1>1. ReviewInv => TypeOK
  BY DEF ReviewInv
<1> QED
  BY <1>1, ReviewInvariant, PTL

\* No cover is shown that no admin decided about, however the calls of organizer
\* and admin race, and none an admin rejected unless they did.
THEOREM CoverShownAsDecided == Spec => []CoverIsReviewed
<1>1. ReviewInv => CoverIsReviewed
  BY DEF ReviewInv, RowsInv
<1> QED
  BY <1>1, ReviewInvariant, PTL

\* An approved deletion hides its campaign for good, and nothing else does unless
\* an approval and a rejection raced.
THEOREM HiddenAsDecided == Spec => []DeletedIsHidden
<1>1. ReviewInv => DeletedIsHidden
  BY DEF ReviewInv, RowsInv
<1> QED
  BY <1>1, ReviewInvariant, PTL

\* No donation is marked disbursed but by a release of its own campaign that an
\* admin decided about, with donations confirmed at any time in between.
THEOREM MarkedAsDecided == Spec => []DisbursedByRelease
<1>1. ReviewInv => DisbursedByRelease
  BY DEF ReviewInv, RowsInv
<1> QED
  BY <1>1, ReviewInvariant, PTL

\* The duplicates check of deletion and release requests suffices for calls
\* that do not overlap, although the one for deletions looks at the latest only.
THEOREM OneWaits == Spec => []OnePending
<1>1. ReviewInv => OnePending
  <2> SUFFICES ASSUME ReviewInv, NEW c \in Campaigns, c \notin overlapped,
                      NEW kind \in {"deletion", "release"},
                      NEW i \in Entries(c, kind), NEW j \in Entries(c, kind),
                      log[i].verdict = "pending", log[j].verdict = "pending"
               PROVE  i = j
    BY DEF OnePending, Undisturbed
  <2>1. i <= j /\ j <= i
    BY DEF ReviewInv, CallsInv, WaitingIsLatest, Entries
  <2> QED
    BY <2>1, LogFacts DEF ReviewInv, Entries
<1> QED
  BY <1>1, ReviewInvariant, PTL

\* What a step does to the log: nothing, one entry more, or one verdict.
LEMMA LogChanges ==
    ASSUME ReviewInv, Next
    PROVE  \/ log' = log
           \/ \E k \in Slots : LogChange(k)
           \/ \E k \in Slots, v \in {"approved", "rejected", "closed"} : Gives(k, v)
<1>1. ASSUME NEW k \in Slots,
             ApproveRelease(k) \/ ApproveDeletion(k) \/ ApproveImage(k) \/ Reject(k)
      PROVE  \E v \in {"approved", "rejected", "closed"} : Gives(k, v)
  BY <1>1 DEF ApproveRelease, ApproveDeletion, ApproveImage, Reject, Decide, At, Return,
              Gives
<1>2. ASSUME NEW k \in Slots, CloseRelease(k) PROVE Gives(k, "closed")
  BY <1>2 DEF CloseRelease, At, Return, Gives
<1>3. ASSUME NEW k \in Slots, Abort(k) \/ ReadDonations(k) PROVE log' = log
  BY <1>3 DEF Abort, ReadDonations, rows
<1>4. ASSUME NEW k \in Slots, NEW i \in DOMAIN log,
             ReadForApproval(k, i) \/ ReadForRejection(k, i) \/ ReadForClosing(k, i)
      PROVE  log' = log
  BY <1>4 DEF ReadForApproval, ReadForRejection, ReadForClosing, Begin, rows
<1>5. ASSUME NEW k \in Slots, NEW c \in Campaigns,
             \/ \E img \in Images \cup {NoImage} : UpdateImage(k, c, img)
             \/ RequestDeletion(k, c)
             \/ RequestRelease(k, c)
      PROVE  log' = log
  BY <1>5 DEF UpdateImage, RequestDeletion, RequestRelease, Asks, Begin, rows
<1>6. ASSUME \/ \E c \in Campaigns : CreateCampaign(c)
             \/ \E d \in Donations : ConfirmDonation(d)
      PROVE  log' = log
  BY <1>6 DEF CreateCampaign, ConfirmDonation
<1> QED
  BY <1>1, <1>2, <1>3, <1>4, <1>5, <1>6 DEF Next

\* An admin's decision on an entry is taken once: without overlapping calls a
\* rejection and a closed release are final, and an approval can only be
\* followed by closing the release.
THEOREM DecisionsStand == Spec => DecidedOnce
<1> DEFINE Kept == \A i \in DOMAIN log :
              Undisturbed(log[i].campaign) /\ log[i].verdict # "pending" =>
                  \/ log'[i].verdict = log[i].verdict
                  \/ /\ log[i].kind = "release"
                     /\ log[i].verdict = "approved"
                     /\ log'[i].verdict = "closed"
<1>1. ReviewInv /\ [Next]_vars => [Kept]_vars
  <2> SUFFICES ASSUME ReviewInv, Next PROVE Kept
    OBVIOUS
  <2>1. CASE log' = log
    BY <2>1
  <2>2. ASSUME NEW k \in Slots, LogChange(k) PROVE Kept
    <3>1. call[k].entry \in Entry /\ log' = Append(log, call[k].entry)
      BY <2>2 DEF LogChange, At, ReviewInv, CallsInv, Pointed
    <3> QED
      BY <3>1, AppendedLog DEF ReviewInv
  <2>3. ASSUME NEW k \in Slots, NEW v \in {"approved", "rejected", "closed"}, Gives(k, v)
        PROVE  Kept
    BY <2>3, GivenFacts DEF Undisturbed
  <2> QED
    BY <2>1, <2>2, <2>3, LogChanges
<1> QED
  BY <1>1, ReviewInvariant, PTL DEF Spec, DecidedOnce
=============================================================================
