-------------------------- MODULE ReviewDeskProofs --------------------------
(***************************************************************************)
(* What holds of the staff's pages for any rows, images, length of the     *)
(* logs and number of calls in flight.                                     *)
(*                                                                         *)
(* An unpicked request needs what the open form remembers: the cover it    *)
(* loaded was the campaign's (FormLoadedCover).  The lists move forward    *)
(* since no log shrinks, the one fetch under way lists no less than is     *)
(* shown (ListedAfterShown), and there is but one (OneLoad).               *)
(***************************************************************************)
EXTENDS ReviewDesk, SequenceTheorems, TLAPS

\* An image row that was asked for has the cover that is asked for.
ImagesPropose ==
    \A r \in Requests : kind[r] = "image" /\ Entry(r) # 0 => proposed[r] \in Covers

FormLoadedCover ==
    form # None => \E c \in covers : form.loaded = normalizeCampaignImage(c)

ShownWasSo == \A r \in Requests : shown[r] <= Entry(r)

ListedAfterShown ==
    \A k \in Slots : At(k, "listed") => \A r \in Requests :
        /\ shown[r] <= call[k].rows[r]
        /\ call[k].rows[r] <= Entry(r)

OneLoad == \A j, k \in Slots : IsLoad(call[j]) /\ IsLoad(call[k]) => j = k

\* What the react-query pages keep; the console's fetches overlap.
QueryInv == page # "console" => ShownWasSo /\ ListedAfterShown /\ OneLoad

FormInv ==
    /\ cover \in covers
    /\ ImagesPropose
    /\ FormLoadedCover
    /\ UnpickedAsksBack

DeskInv == TypeOK /\ FormInv /\ QueryInv

-----------------------------------------------------------------------------
(* The shapes. *)

LEMMA EntryType == ASSUME TypeOK PROVE \A r \in Requests : Entry(r) \in Nat
  BY DEF TypeOK, Entry

LEMMA CallFacts ==
    ASSUME TypeOK, NEW k \in Slots, call[k] # None
    PROVE  /\ call[k] \in Call
           /\ call[k].step \in {"asked", "listed", "sent", "taken"}
           /\ call[k].step = "listed" => call[k].rows \in [Requests -> Nat]
           /\ call[k].step = "sent" => /\ call[k].request \in Requests
                                       /\ call[k].verb \in Verbs
                                       /\ call[k].since \in Nat
           /\ call[k].step = "taken" => /\ call[k].request \in Requests
                                        /\ call[k].since \in Nat
<1>1. call[k] \in Call
  BY DEF TypeOK
<1> QED
  BY <1>1 DEF Call

LEMMA NormalType == \A c \in Covers : normalizeCampaignImage(c) \in Covers
  BY DEF Covers, normalizeCampaignImage

\* A fetch begins.
LEMMA FetchType ==
    ASSUME TypeOK, NEW k \in Slots, LoadAll(k)
    PROVE  call' \in [Slots -> Call \cup {None}] /\ loading' \in BOOLEAN
<1>1. [step |-> "asked"] \in Call
  BY DEF Call
<1>2. CASE page = "console"
  BY <1>1, <1>2 DEF TypeOK, LoadAll, Fetch
<1>3. CASE page # "console"
  BY <1>1, <1>3 DEF TypeOK, LoadAll, Fetch
<1> QED
  BY <1>2, <1>3

LEMMA SettleType ==
    ASSUME TypeOK, NEW k \in Slots, Settle(k)
    PROVE  /\ call' \in [Slots -> Call \cup {None}]
           /\ loading' \in BOOLEAN
           /\ dialog' = None \/ dialog' = dialog
<1>1. CASE dialog' = None /\ LoadAll(k)
  BY <1>1, FetchType
<1>2. CASE call' = [call EXCEPT ![k] = None] /\ UNCHANGED <<dialog, loading>>
  BY <1>2 DEF TypeOK
<1> QED
  BY <1>1, <1>2 DEF Settle

\* A row's log gets an entry.
LEMMA BecomesType ==
    ASSUME TypeOK, NEW r \in Requests, NEW s \in Statuses, Becomes(r, s)
    PROVE  /\ log' \in [Requests -> Seq(Statuses)]
           /\ Entry(r)' = Entry(r) + 1
           /\ \A q \in Requests : q # r => Entry(q)' = Entry(q)
<1>1. Append(log[r], s) \in Seq(Statuses) /\ Len(Append(log[r], s)) = Len(log[r]) + 1
  BY DEF TypeOK
<1> QED
  BY <1>1 DEF Becomes, TypeOK, Entry

LEMMA OutcomeType == \A v \in Verbs : Outcome(v) \in Statuses
  BY DEF Verbs, Outcome, Statuses

LEMMA DecideType ==
    ASSUME TypeOK, ImagesPropose, NEW r \in Requests, NEW v \in Verbs,
           NEW n \in Nat, n <= Entry(r), Decide(r, n, v)
    PROVE  /\ log' \in [Requests -> Seq(Statuses)]
           /\ \A q \in Requests : Entry(q) <= Entry(q)'
           /\ \A q \in Requests : Entry(q)' # 0 => Entry(q) # 0
           /\ covers \subseteq covers' /\ covers' \subseteq Covers
           /\ cover' = cover \/ cover' \in covers'
           /\ cover' \in Covers
           /\ UNCHANGED <<proposed, picked>>
<1>1. n # 0
  BY DEF Decide, Accepts, StatusAt
<1>2. Entry(r) \in Nat /\ Entry(r) # 0
  BY <1>1, EntryType
<1>3. CASE UNCHANGED log
  <2>1. \A q \in Requests : Entry(q) \in Nat /\ Entry(q)' = Entry(q)
    BY <1>3, EntryType DEF Entry
  <2>2. /\ log' \in [Requests -> Seq(Statuses)]
        /\ \A q \in Requests : Entry(q) <= Entry(q)'
        /\ \A q \in Requests : Entry(q)' # 0 => Entry(q) # 0
    BY <1>3, <2>1 DEF TypeOK
  <2> QED
    BY <1>2, <2>2 DEF Decide, ImagesPropose, TypeOK
<1>4. CASE Becomes(r, Outcome(v))
  <2>1. /\ log' \in [Requests -> Seq(Statuses)]
        /\ Entry(r)' = Entry(r) + 1
        /\ \A q \in Requests : q # r => Entry(q)' = Entry(q)
    BY <1>4, BecomesType, OutcomeType
  <2>2. /\ \A q \in Requests : Entry(q) <= Entry(q)'
        /\ \A q \in Requests : Entry(q)' # 0 => Entry(q) # 0
    BY <1>2, <2>1, EntryType
  <2> QED
    BY <1>2, <2>1, <2>2 DEF Decide, ImagesPropose, TypeOK
<1> QED
  BY <1>3, <1>4 DEF Decide

LEMMA AppearsType ==
    ASSUME TypeOK, NEW r \in Requests, Appears(r)
    PROVE  /\ log' \in [Requests -> Seq(Statuses)]
           /\ \A q \in Requests : Entry(q) <= Entry(q)'
           /\ \A q \in Requests : q # r => Entry(q)' = Entry(q)
<1>1. "pending" \in Statuses
  BY DEF Statuses
<1> QED
  BY <1>1, BecomesType, EntryType DEF Appears

LEMMA SendType ==
    ASSUME TypeOK, NEW k \in Slots, NEW r \in Requests, NEW v \in Verbs, Send(k, r, v)
    PROVE  TypeOK'
<1>1. [step |-> "sent", request |-> r, verb |-> v, since |-> Entry(r)] \in Call
  BY EntryType DEF Call
<1> QED
  BY <1>1 DEF Send, OnDesk, TypeOK, server

LEMMA InitType == Init => TypeOK
<1> SUFFICES ASSUME Init PROVE TypeOK
  OBVIOUS
<1>1. log \in [Requests -> Seq(Statuses)]
  <2>1. <<>> \in Seq(Statuses)
    BY EmptySeq
  <2> QED
    BY <2>1 DEF Init
<1>2. page \in StaffPages /\ covers \subseteq Covers
  BY DeskAssumption DEF Init
<1>3. /\ kind \in [Requests -> KindsOf(page)]
      /\ proposed \in [Requests -> Covers \cup {NoCover}]
      /\ picked \subseteq Requests /\ cover \in Covers
  BY DEF Init
<1>4. /\ shown \in [Requests -> Nat]
      /\ dialog \in {None} \cup [request : Requests, entry : Nat \ {0}]
      /\ loading \in BOOLEAN
      /\ call \in [Slots -> Call \cup {None}]
      /\ form \in {None} \cup [loaded : Covers, file : Covers \cup {NoCover}]
  BY DEF Init
<1> QED
  BY <1>1, <1>2, <1>3, <1>4 DEF TypeOK

\* A verdict of the page is written.
LEMMA TakeDecides ==
    ASSUME TypeOK, NEW k \in Slots, Take(k)
    PROVE  /\ call[k].request \in Requests /\ call[k].verb \in Verbs
           /\ \E n \in Nat : /\ n <= Entry(call[k].request)
                             /\ Decide(call[k].request, n, call[k].verb)
<1>1. /\ call[k].request \in Requests
      /\ call[k].verb \in Verbs
      /\ call[k].since \in Nat
  BY CallFacts DEF Take, At
<1>2. Entry(call[k].request) \in Nat
  BY <1>1, EntryType
<1>3. PICK n \in call[k].since .. Entry(call[k].request) :
          Decide(call[k].request, n, call[k].verb)
  BY DEF Take
<1>4. n \in Nat /\ n <= Entry(call[k].request)
  BY <1>1, <1>2, <1>3
<1> QED
  BY <1>1, <1>3, <1>4

LEMMA TypeStep == DeskInv /\ [Next]_vars => TypeOK'
<1> SUFFICES ASSUME DeskInv, [Next]_vars PROVE TypeOK'
  OBVIOUS
<1> USE DEF DeskInv, FormInv
<1>1. CASE UNCHANGED vars
  BY <1>1 DEF vars, server, desk, TypeOK
<1>2. ASSUME NEW r \in Requests, NEW v \in Verbs, Elsewhere(r, v) PROVE TypeOK'
  <2>1. PICK n \in Nat : n <= Entry(r) /\ Decide(r, n, v)
    BY <1>2, EntryType DEF Elsewhere
  <2> QED
    BY <1>2, <2>1, DecideType DEF Elsewhere, OnServer, desk, TypeOK
<1>3. ASSUME NEW r \in Requests, NewAidRequest(r) \/ AddBeneficiary(r) PROVE TypeOK'
  BY <1>3, AppearsType DEF NewAidRequest, AddBeneficiary, OnServer, desk, TypeOK
<1>4. ASSUME NEW r \in Requests, OpenDialog(r) PROVE TypeOK'
  BY <1>4 DEF OpenDialog, OnDesk, server, TypeOK
<1>5. ASSUME NEW r \in Requests, Save(r) PROVE TypeOK'
  <2>1. Sent \in Covers
    BY <1>5 DEF Save, Sent, TypeOK
  <2> QED
    BY <1>5, <2>1, AppearsType DEF Save, desk, TypeOK
<1>6. ASSUME NEW r \in Requests, RequestDeletion(r) \/ RequestRelease(r) PROVE TypeOK'
  BY <1>6, AppearsType DEF RequestDeletion, RequestRelease, desk, TypeOK
<1>7. ASSUME NEW k \in Slots, Open(k) PROVE TypeOK'
  <2>1. [step |-> "asked"] \in Call
    BY DEF Call
  <2> QED
    BY <1>7, <2>1 DEF Open, OnDesk, server, TypeOK
<1>8. ASSUME NEW k \in Slots, Refresh(k) PROVE TypeOK'
  BY <1>8, FetchType DEF Refresh, OnDesk, server, TypeOK
<1>9. ASSUME NEW k \in Slots, List(k) PROVE TypeOK'
  <2>1. [step |-> "listed", rows |-> [r \in Requests |-> Entry(r)]] \in Call
    BY EntryType DEF Call
  <2> QED
    BY <1>9, <2>1 DEF List, OnDesk, server, TypeOK
<1>10. ASSUME NEW k \in Slots, NEW failed \in SUBSET KindsOf(page), TakeLists(k, failed)
       PROVE  TypeOK'
  <2>1. call[k].rows \in [Requests -> Nat]
    BY <1>10, CallFacts DEF TakeLists, At
  <2>2. shown' \in [Requests -> Nat]
    BY <1>10, <2>1 DEF TakeLists, TypeOK
  <2> QED
    BY <1>10, <2>2 DEF TakeLists, OnDesk, server, TypeOK
<1>11. ASSUME NEW k \in Slots, NEW v \in Verbs, ClickInDialog(k, v) PROVE TypeOK'
  <2>1. dialog.request \in Requests
    BY <1>11 DEF ClickInDialog, TypeOK
  <2> QED
    BY <1>11, <2>1, SendType DEF ClickInDialog
<1>12. ASSUME NEW k \in Slots, NEW r \in Requests, NEW v \in Verbs, Click(k, r, v)
       PROVE  TypeOK'
  BY <1>12, SendType DEF Click
<1>13. ASSUME NEW k \in Slots, Take(k) PROVE TypeOK'
  <2> DEFINE r == call[k].request
  <2>1. r \in Requests /\ call[k].verb \in Verbs
    BY <1>13, TakeDecides
  <2>2. PICK n \in Nat : n <= Entry(r) /\ Decide(r, n, call[k].verb)
    BY <1>13, TakeDecides
  <2>3. /\ log' \in [Requests -> Seq(Statuses)]
        /\ cover' \in Covers /\ covers' \subseteq Covers
        /\ UNCHANGED <<proposed, picked>>
    BY <2>1, <2>2, DecideType
  <2>4. [step |-> "taken", request |-> r, since |-> Len(log'[r])] \in Call
    BY <2>1, <2>3 DEF Call
  <2>5. call' \in [Slots -> Call \cup {None}]
    BY <1>13, <2>4 DEF Take, TypeOK
  <2> QED
    BY <1>13, <2>3, <2>5 DEF Take, TypeOK
<1>14. ASSUME NEW k \in Slots, Succeed(k) PROVE TypeOK'
  <2>1. call[k].request \in Requests /\ call[k].since \in Nat
    BY <1>14, CallFacts DEF Succeed, At
  <2>2. \A n \in call[k].since .. Entry(call[k].request) : n \in Nat
    BY <2>1, EntryType
  <2>3. shown' \in [Requests -> Nat]
    BY <1>14, <2>1, <2>2 DEF Succeed, Replaced, TypeOK
  <2>4. call' \in [Slots -> Call \cup {None}] /\ loading' \in BOOLEAN
        /\ (dialog' = None \/ dialog' = dialog)
    BY <1>14, SettleType, FetchType DEF Succeed
  <2> QED
    BY <1>14, <2>3, <2>4 DEF Succeed, OnDesk, server, TypeOK
<1>15. ASSUME NEW k \in Slots, FailVerdict(k) PROVE TypeOK'
  BY <1>15, SettleType DEF FailVerdict, OnDesk, server, TypeOK
<1>16. CASE CloseDialog
  BY <1>16 DEF CloseDialog, OnDesk, server, TypeOK
<1>17. CASE OpenForm
  BY <1>17, NormalType DEF OpenForm, OnForm, server, desk, TypeOK
<1>18. ASSUME NEW file \in Uploads \cup {NoCover}, PickCover(file) PROVE TypeOK'
  BY <1>18 DEF PickCover, Uploads, OnForm, server, desk, TypeOK
<1>19. CASE SaveText
  BY <1>19 DEF SaveText, OnForm, server, desk, TypeOK
<1> QED
  BY <1>1, <1>2, <1>3, <1>4, <1>5, <1>6, <1>7, <1>8, <1>9, <1>10, <1>11, <1>12, <1>13,
     <1>14, <1>15, <1>16, <1>17, <1>18, <1>19 DEF Next

-----------------------------------------------------------------------------
(* What becomes of a row. *)

\* What a step does to the server's rows: nothing, a decision, a new row.
LEMMA ServerChanges ==
    ASSUME TypeOK, Next
    PROVE  \/ UNCHANGED server
           \/ \E r \in Requests, v \in Verbs, n \in Nat : n <= Entry(r) /\ Decide(r, n, v)
           \/ \E r \in Requests : /\ Appears(r) /\ kind[r] # "image"
                                  /\ UNCHANGED <<proposed, picked, cover, covers>>
           \/ \E r \in Requests : Save(r)
<1>1. ASSUME NEW r \in Requests, NEW v \in Verbs, Elsewhere(r, v)
      PROVE  \E n \in Nat : n <= Entry(r) /\ Decide(r, n, v)
  BY <1>1, EntryType DEF Elsewhere
<1>2. ASSUME NEW r \in Requests,
             \/ NewAidRequest(r) \/ AddBeneficiary(r)
             \/ RequestDeletion(r) \/ RequestRelease(r)
      PROVE  /\ Appears(r) /\ kind[r] # "image"
             /\ UNCHANGED <<proposed, picked, cover, covers>>
  BY <1>2 DEF NewAidRequest, AddBeneficiary, RequestDeletion, RequestRelease
<1>3. ASSUME NEW r \in Requests, OpenDialog(r) PROVE UNCHANGED server
  BY <1>3 DEF OpenDialog, OnDesk
<1>4. ASSUME NEW k \in Slots,
             \/ Open(k) \/ Refresh(k) \/ List(k) \/ Succeed(k) \/ FailVerdict(k)
             \/ \E failed \in SUBSET KindsOf(page) : TakeLists(k, failed)
             \/ \E v \in Verbs : ClickInDialog(k, v)
             \/ \E r \in Requests, v \in Verbs : Click(k, r, v)
      PROVE  UNCHANGED server
  BY <1>4 DEF Open, Refresh, List, Succeed, FailVerdict, TakeLists, ClickInDialog, Click,
     Send, OnDesk
<1>5. ASSUME NEW k \in Slots, Take(k)
      PROVE  \E r \in Requests, v \in Verbs, n \in Nat : n <= Entry(r) /\ Decide(r, n, v)
  BY <1>5, TakeDecides
<1>6. ASSUME \/ CloseDialog \/ OpenForm \/ SaveText
             \/ \E file \in Uploads \cup {NoCover} : PickCover(file)
      PROVE  UNCHANGED server
  BY <1>6 DEF CloseDialog, OpenForm, SaveText, PickCover, OnDesk, OnForm
<1> QED
  BY <1>1, <1>2, <1>3, <1>4, <1>5, <1>6 DEF Next

LEMMA SameRows == [Next]_vars => UNCHANGED <<page, kind>>
  BY DEF Next, vars, Elsewhere, NewAidRequest, AddBeneficiary, OpenDialog, Save,
     RequestDeletion, RequestRelease, Open, Refresh, List, TakeLists, ClickInDialog,
     Click, Send, Take, Succeed, FailVerdict, CloseDialog, OpenForm, PickCover, SaveText,
     OnServer, OnDesk, OnForm

\* No log shrinks, and none but a new row's leaves the empty log.
LEMMA LogsGrow ==
    ASSUME TypeOK, FormInv, Next
    PROVE  \A r \in Requests : Entry(r) \in Nat /\ Entry(r) <= Entry(r)'
<1>1. CASE UNCHANGED server
  BY <1>1, EntryType DEF server, Entry
<1>2. ASSUME NEW r \in Requests, NEW v \in Verbs, NEW n \in Nat, n <= Entry(r),
             Decide(r, n, v)
      PROVE  \A q \in Requests : Entry(q) <= Entry(q)'
  BY <1>2, DecideType DEF FormInv
<1>3. ASSUME NEW r \in Requests, Appears(r) PROVE \A q \in Requests : Entry(q) <= Entry(q)'
  BY <1>3, AppearsType
<1> QED
  BY <1>1, <1>2, <1>3, EntryType, ServerChanges DEF Save

-----------------------------------------------------------------------------
(* The form. *)

\* A form that stays open keeps the cover it loaded.
LEMMA FormChanges ==
    ASSUME TypeOK, Next
    PROVE  \/ form' = None
           \/ form'.loaded = normalizeCampaignImage(cover) /\ UNCHANGED server
           \/ form # None /\ form'.loaded = form.loaded
<1>1. CASE OpenForm
  BY <1>1 DEF OpenForm, OnForm, TypeOK
<1>2. ASSUME NEW file \in Uploads \cup {NoCover}, PickCover(file)
      PROVE  form # None /\ form'.loaded = form.loaded
  BY <1>2 DEF PickCover, TypeOK
<1>3. CASE form' = None \/ form' = form
  BY <1>3
<1> QED
  BY <1>1, <1>2, <1>3 DEF Next, Elsewhere, NewAidRequest, AddBeneficiary, OpenDialog, Save,
     RequestDeletion, RequestRelease, Open, Refresh, List, TakeLists, ClickInDialog,
     Click, Send, Take, Succeed, FailVerdict, CloseDialog, SaveText, OnServer, OnDesk

LEMMA FormStep ==
    ASSUME TypeOK, FormInv, Next
    PROVE  FormInv'
<1>1. UNCHANGED <<page, kind>>
  BY SameRows
\* The covers it has had are never forgotten.
<1>2. cover' \in covers' /\ covers \subseteq covers'
  BY ServerChanges, DecideType DEF server, FormInv, Save
<1>3. FormLoadedCover'
  <2> SUFFICES ASSUME form' # None
               PROVE  \E c \in covers' : form'.loaded = normalizeCampaignImage(c)
    BY DEF FormLoadedCover, normalizeCampaignImage
  <2>1. CASE form'.loaded = normalizeCampaignImage(cover) /\ UNCHANGED server
    BY <1>2, <2>1 DEF server
  <2>2. CASE form # None /\ form'.loaded = form.loaded
    BY <1>2, <2>2 DEF FormInv, FormLoadedCover
  <2> QED
    BY <2>1, <2>2, FormChanges
<1>4. ImagesPropose' /\ UnpickedAsksBack'
  <2> DEFINE Asked(r, P) == \E c \in covers : P[r] = normalizeCampaignImage(c)
  \* Nobody asks for an image.
  <2>1. ASSUME UNCHANGED <<proposed, picked>>,
               \A r \in Requests : kind[r] = "image" /\ Entry(r)' # 0 => Entry(r) # 0
        PROVE  ImagesPropose' /\ UnpickedAsksBack'
    <3>1. ImagesPropose'
      BY <1>1, <2>1 DEF FormInv, ImagesPropose
    <3>2. ASSUME NEW r \in Requests, r \notin picked', kind'[r] = "image", Entry(r)' # 0
          PROVE  \E c \in covers' : proposed'[r] = normalizeCampaignImage(c)
      BY <1>1, <1>2, <2>1, <3>2 DEF FormInv, UnpickedAsksBack
    <3> QED
      BY <3>1, <3>2 DEF UnpickedAsksBack, normalizeCampaignImage
  <2>2. CASE UNCHANGED server
    BY <2>1, <2>2 DEF server, Entry
  <2>3. ASSUME NEW r \in Requests, NEW v \in Verbs, NEW n \in Nat, n <= Entry(r),
               Decide(r, n, v)
        PROVE  ImagesPropose' /\ UnpickedAsksBack'
    BY <2>1, <2>3, DecideType DEF FormInv
  <2>4. ASSUME NEW r \in Requests, Appears(r), kind[r] # "image",
               UNCHANGED <<proposed, picked, cover, covers>>
        PROVE  ImagesPropose' /\ UnpickedAsksBack'
    BY <2>1, <2>4, AppearsType
  <2>5. ASSUME NEW r \in Requests, Save(r) PROVE ImagesPropose' /\ UnpickedAsksBack'
    <3>1. /\ Sent \in Covers
          /\ proposed'[r] = Sent
          /\ \A q \in Requests : q # r => proposed'[q] = proposed[q]
          /\ picked \subseteq picked'
      BY <2>5 DEF Save, Sent, TypeOK
    <3>2. \A q \in Requests : q # r => Entry(q)' = Entry(q)
      BY <2>5, AppearsType DEF Save
    <3>3. ImagesPropose'
      BY <1>1, <3>1, <3>2 DEF FormInv, ImagesPropose
    <3>4. ASSUME NEW q \in Requests, q \notin picked', kind'[q] = "image", Entry(q)' # 0
          PROVE  \E c \in covers' : proposed'[q] = normalizeCampaignImage(c)
      <4>1. CASE q = r
        <5>1. form # None /\ form.file = NoCover
          BY <2>5, <3>4, <4>1 DEF Save
        <5>2. proposed'[r] = form.loaded
          BY <3>1, <5>1 DEF Sent
        <5> QED
          BY <1>2, <4>1, <5>1, <5>2 DEF FormInv, FormLoadedCover
      <4>2. CASE q # r
        BY <1>1, <1>2, <3>1, <3>2, <3>4, <4>2 DEF FormInv, UnpickedAsksBack
      <4> QED
        BY <4>1, <4>2
    <3> QED
      BY <3>3, <3>4 DEF UnpickedAsksBack, normalizeCampaignImage
  <2> QED
    BY <2>2, <2>3, <2>4, <2>5, ServerChanges
<1> QED
  BY <1>2, <1>3, <1>4 DEF FormInv

-----------------------------------------------------------------------------
(* The lists. *)

\* Calls that end, or go on with something else than a list.
LEMMA FewerLoads ==
    ASSUME QueryInv, FormInv, TypeOK, TypeOK', Next,
           page # "console", UNCHANGED <<page, shown>>,
           \A k \in Slots : IsLoad(call'[k]) => call'[k] = call[k]
    PROVE  QueryInv'
<1>1. \A r \in Requests : /\ shown[r] \in Nat
                          /\ Entry(r) \in Nat /\ Entry(r)' \in Nat
                          /\ Entry(r) <= Entry(r)'
  BY LogsGrow, EntryType DEF TypeOK, Entry
<1>2. ShownWasSo'
  BY <1>1 DEF QueryInv, ShownWasSo
<1>3. OneLoad'
  BY DEF QueryInv, OneLoad
<1>4. ASSUME NEW k \in Slots, At(k, "listed")', NEW r \in Requests
      PROVE  shown'[r] <= call'[k].rows[r] /\ call'[k].rows[r] <= Entry(r)'
  <2>1. call'[k] = call[k] /\ At(k, "listed")
    BY <1>4 DEF At, IsLoad
  <2>2. call[k].rows[r] \in Nat
    BY <2>1, CallFacts DEF At
  <2>3. shown[r] <= call[k].rows[r] /\ call[k].rows[r] <= Entry(r)
    BY <2>1 DEF QueryInv, ListedAfterShown
  <2> QED
    BY <1>1, <2>1, <2>2, <2>3
<1> QED
  BY <1>2, <1>3, <1>4 DEF QueryInv, ListedAfterShown

\* The one fetch that is left has just been asked for.
LEMMA OnlyAsked ==
    ASSUME QueryInv, TypeOK, TypeOK', UNCHANGED log, NEW k \in Slots,
           \A r \in Requests : shown'[r] = shown[r] \/ shown'[r] = 0,
           call'[k] = [step |-> "asked"],
           \A j \in Slots : j # k => ~IsLoad(call'[j]),
           page # "console"
    PROVE  QueryInv'
<1>1. ShownWasSo'
  <2>1. \A r \in Requests : Entry(r) \in Nat /\ Entry(r)' = Entry(r)
    BY EntryType DEF Entry
  <2> QED
    BY <2>1 DEF QueryInv, ShownWasSo
<1>2. \A j \in Slots : ~At(j, "listed")'
  BY DEF At, IsLoad
<1>3. OneLoad'
  BY DEF OneLoad
<1> QED
  BY <1>1, <1>2, <1>3 DEF QueryInv, ListedAfterShown

\* On a react-query page a fetch that begins is the only one.
LEMMA FetchAlone ==
    ASSUME TypeOK, page # "console", NEW k \in Slots, ~IsLoad(call[k]), LoadAll(k)
    PROVE  /\ call'[k] = [step |-> "asked"]
           /\ \A j \in Slots : j # k => ~IsLoad(call'[j])
<1>1. call' = Fetch(k)
  BY DEF LoadAll
<1>2. call'[k] = [step |-> "asked"]
  BY <1>1 DEF Fetch
<1>3. ASSUME NEW j \in Slots, j # k
      PROVE  call'[j] = IF IsLoad(call[j]) THEN None ELSE call[j]
  BY <1>1, <1>3 DEF Fetch
<1>4. ~IsLoad(None)
  BY DEF IsLoad
<1> QED
  BY <1>2, <1>3, <1>4

LEMMA QueryStep ==
    ASSUME DeskInv, TypeOK', Next
    PROVE  QueryInv'
<1> SUFFICES ASSUME page # "console" PROVE QueryInv'
  BY SameRows DEF QueryInv
<1>1. TypeOK /\ FormInv /\ QueryInv /\ UNCHANGED <<page, kind>>
  BY SameRows DEF DeskInv
<1>2. \A r \in Requests : kind[r] # "image"
  BY <1>1, DeskAssumption DEF TypeOK, KindsOf, Pages
<1>3. CASE UNCHANGED <<call, shown>>
  BY <1>1, <1>3, FewerLoads
<1>4. ASSUME NEW k \in Slots, Open(k) PROVE QueryInv'
  <2>1. /\ call'[k] = [step |-> "asked"]
        /\ \A j \in Slots : j # k => ~IsLoad(call'[j])
        /\ \A r \in Requests : shown'[r] = 0
        /\ UNCHANGED log
    BY <1>4 DEF Open, OnDesk, server, IsLoad
  <2> QED
    BY <1>1, <2>1, OnlyAsked
<1>5. ASSUME NEW k \in Slots, Refresh(k) PROVE QueryInv'
  <2>1. LoadAll(k) /\ UNCHANGED <<shown, log>>
    BY <1>5 DEF Refresh, OnDesk, server
  <2>2. ~IsLoad(call[k])
    BY <1>5 DEF Refresh, IsLoad
  <2> QED
    BY <1>1, <2>1, <2>2, FetchAlone, OnlyAsked
<1>6. ASSUME NEW k \in Slots, Succeed(k) PROVE QueryInv'
  <2>1. LoadAll(k) /\ UNCHANGED <<shown, log>>
    BY <1>6 DEF Succeed, Replaced, OnDesk, server
  <2>2. ~IsLoad(call[k])
    BY <1>6 DEF Succeed, At, IsLoad
  <2> QED
    BY <1>1, <2>1, <2>2, FetchAlone, OnlyAsked
<1>7. ASSUME NEW k \in Slots, List(k) PROVE QueryInv'
  <2>1. /\ call'[k] = [step |-> "listed", rows |-> [r \in Requests |-> Entry(r)]]
        /\ \A j \in Slots : j # k => call'[j] = call[j]
        /\ UNCHANGED <<shown, log>>
        /\ IsLoad(call[k])
    BY <1>1, <1>7 DEF List, At, OnDesk, server, TypeOK, IsLoad
  <2>2. \A j \in Slots : j # k => ~IsLoad(call'[j])
    BY <1>1, <2>1 DEF QueryInv, OneLoad
  <2>3. \A r \in Requests : Entry(r) \in Nat /\ Entry(r)' = Entry(r)
    BY <1>1, <2>1, EntryType DEF Entry
  <2>4. ShownWasSo' /\ OneLoad'
    BY <1>1, <2>1, <2>2, <2>3 DEF QueryInv, ShownWasSo, OneLoad
  <2>5. ListedAfterShown'
    <3> SUFFICES ASSUME NEW r \in Requests
                 PROVE  shown[r] <= Entry(r) /\ Entry(r) <= Entry(r)'
      BY <2>1, <2>2, <2>3 DEF ListedAfterShown, At, IsLoad
    <3> QED
      BY <1>1, <2>3 DEF QueryInv, ShownWasSo
  <2> QED
    BY <2>4, <2>5 DEF QueryInv
<1>8. ASSUME NEW k \in Slots, NEW failed \in SUBSET KindsOf(page), TakeLists(k, failed)
      PROVE  QueryInv'
  <2>1. /\ At(k, "listed")
        /\ call'[k] = None
        /\ \A j \in Slots : j # k => call'[j] = call[j]
        /\ UNCHANGED log
        /\ \A r \in Requests : shown'[r] = shown[r] \/ shown'[r] = call[k].rows[r]
    BY <1>1, <1>8 DEF TakeLists, At, OnDesk, server, TypeOK
  <2>2. \A j \in Slots : ~IsLoad(call'[j])
    <3>1. IsLoad(call[k])
      BY <2>1 DEF At, IsLoad
    <3> QED
      BY <1>1, <2>1, <3>1 DEF QueryInv, OneLoad, IsLoad
  <2>3. ShownWasSo'
    BY <1>1, <2>1 DEF QueryInv, ShownWasSo, ListedAfterShown, Entry
  <2> QED
    BY <2>2, <2>3 DEF QueryInv, ListedAfterShown, OneLoad, At, IsLoad
<1>9. ASSUME NEW k \in Slots, UNCHANGED shown,
             \A j \in Slots : j # k => call'[j] = call[j],
             ~IsLoad(call'[k])
      PROVE  QueryInv'
  BY <1>1, <1>9, FewerLoads
<1>10. ASSUME NEW k \in Slots, NEW r \in Requests, NEW v \in Verbs, Send(k, r, v)
       PROVE  QueryInv'
  BY <1>1, <1>9, <1>10 DEF Send, IsLoad, TypeOK
<1>11. ASSUME NEW k \in Slots, Take(k) PROVE QueryInv'
  BY <1>1, <1>9, <1>11 DEF Take, IsLoad, TypeOK
<1>12. ASSUME NEW k \in Slots, FailVerdict(k) PROVE QueryInv'
  <2>1. call[k].request \in Requests
    BY <1>1, <1>12, CallFacts DEF FailVerdict, At
  <2>2. call' = [call EXCEPT ![k] = None] /\ UNCHANGED shown
    BY <1>2, <1>12, <2>1 DEF FailVerdict, Settle
  <2> QED
    BY <1>1, <1>9, <2>2 DEF IsLoad, TypeOK
<1>13. ASSUME NEW k \in Slots, NEW v \in Verbs, ClickInDialog(k, v) PROVE QueryInv'
  BY <1>1, <1>10, <1>13 DEF ClickInDialog, TypeOK
<1>14. ASSUME NEW k \in Slots, NEW r \in Requests, NEW v \in Verbs, Click(k, r, v)
       PROVE  QueryInv'
  BY <1>10, <1>14 DEF Click
<1>15. ASSUME NEW r \in Requests,
              \/ \E v \in Verbs : Elsewhere(r, v)
              \/ NewAidRequest(r) \/ AddBeneficiary(r) \/ OpenDialog(r)
              \/ Save(r) \/ RequestDeletion(r) \/ RequestRelease(r)
       PROVE  UNCHANGED <<call, shown>>
  BY <1>15 DEF Elsewhere, NewAidRequest, AddBeneficiary, OpenDialog, Save,
     RequestDeletion, RequestRelease, OnServer, OnDesk, desk
<1>16. ASSUME \/ CloseDialog \/ OpenForm \/ SaveText
              \/ \E file \in Uploads \cup {NoCover} : PickCover(file)
       PROVE  UNCHANGED <<call, shown>>
  BY <1>16 DEF CloseDialog, OpenForm, PickCover, SaveText, OnDesk, OnForm, desk
<1> QED
  BY <1>3, <1>4, <1>5, <1>6, <1>7, <1>8, <1>11, <1>12, <1>13, <1>14, <1>15, <1>16 DEF Next

-----------------------------------------------------------------------------
(* Theorems. *)

LEMMA InitDesk == Init => DeskInv
<1> SUFFICES ASSUME Init PROVE DeskInv
  OBVIOUS
<1>1. \A r \in Requests : Entry(r) = 0
  BY DEF Init, Entry
<1>2. FormInv
  BY <1>1 DEF Init, FormInv, ImagesPropose, FormLoadedCover, UnpickedAsksBack
<1>3. QueryInv
  BY <1>1 DEF Init, QueryInv, ShownWasSo, ListedAfterShown, OneLoad, At, IsLoad
<1> QED
  BY <1>2, <1>3, InitType DEF DeskInv

LEMMA NextDesk == DeskInv /\ [Next]_vars => DeskInv'
<1> SUFFICES ASSUME DeskInv, [Next]_vars PROVE DeskInv'
  OBVIOUS
<1>1. TypeOK'
  BY TypeStep
<1>2. CASE UNCHANGED vars
  BY <1>1, <1>2 DEF vars, server, desk, DeskInv, FormInv, ImagesPropose, FormLoadedCover,
     UnpickedAsksBack, normalizeCampaignImage, QueryInv, ShownWasSo, ListedAfterShown,
     OneLoad, At, IsLoad, Entry
<1>3. CASE Next
  BY <1>1, <1>3, FormStep, QueryStep DEF DeskInv
<1> QED
  BY <1>2, <1>3

LEMMA DeskInvariant == Spec => []DeskInv
<1> QED
  BY InitDesk, NextDesk, PTL DEF Spec

\* The pages, the form and the server's rows keep their shapes.
THEOREM DeskTypeCorrect == Spec => []TypeOK
<1>1. DeskInv => TypeOK
  BY DEF DeskInv
<1> QED
  BY <1>1, DeskInvariant, PTL

\* A form saved without a new file asks only for a cover that the campaign has
\* had, as the browser addresses it, for any number of saves, forms that stay
\* open, verdicts that overlap and admins who decide in between.
THEOREM UnpickedAsksNothingNew == Spec => []UnpickedAsksBack
<1>1. DeskInv => UnpickedAsksBack
  BY DEF DeskInv, FormInv
<1> QED
  BY <1>1, DeskInvariant, PTL

\* On the react-query pages no list is replaced by an older one, however many
\* verdicts and fetches overlap and whichever fail.
THEOREM ListsNeverGetOlder == Spec => ListsMoveForward
<1>1. DeskInv /\ [Next]_vars =>
        [page # "console" =>
          \A r \in Requests : shown'[r] # 0 => shown'[r] >= shown[r]]_vars
  <2> SUFFICES ASSUME DeskInv, Next, page # "console", NEW r \in Requests, shown'[r] # 0
               PROVE  shown'[r] >= shown[r]
    OBVIOUS
  <2>1. TypeOK /\ QueryInv
    BY DEF DeskInv
  <2>2. shown[r] \in Nat
    BY <2>1 DEF TypeOK
  <2>3. CASE shown'[r] = shown[r]
    BY <2>2, <2>3
  <2>4. ASSUME NEW k \in Slots, At(k, "listed"), shown'[r] = call[k].rows[r]
        PROVE  shown'[r] >= shown[r]
    <3>1. call[k].rows[r] \in Nat
      BY <2>1, <2>4, CallFacts DEF At
    <3>2. shown[r] <= call[k].rows[r]
      BY <2>1, <2>4 DEF QueryInv, ListedAfterShown
    <3> QED
      BY <2>2, <2>4, <3>1, <3>2
  <2>5. ASSUME NEW k \in Slots, NEW failed \in SUBSET KindsOf(page), TakeLists(k, failed)
        PROVE  shown'[r] >= shown[r]
    BY <2>3, <2>4, <2>5 DEF TakeLists
  <2>6. ASSUME NEW k \in Slots, Open(k) PROVE FALSE
    BY <2>6 DEF Open
  <2>7. \/ UNCHANGED shown
        \/ \E k \in Slots : \/ Open(k)
                            \/ \E failed \in SUBSET KindsOf(page) : TakeLists(k, failed)
    BY DEF Next, Elsewhere, NewAidRequest, AddBeneficiary, OpenDialog, Save,
       RequestDeletion, RequestRelease, Refresh, List, ClickInDialog, Click, Send, Take,
       Succeed, Replaced, FailVerdict, CloseDialog, OpenForm, PickCover, SaveText,
       OnServer, OnDesk, OnForm, desk
  <2> QED
    BY <2>3, <2>5, <2>6, <2>7
<1> QED
  BY <1>1, DeskInvariant, PTL DEF Spec, ListsMoveForward

-----------------------------------------------------------------------------
(* The console's button. *)

LEMMA AskedIsLoad == IsLoad([step |-> "asked"])
<1>1. [step |-> "asked"] \in Call
  BY DEF Call
<1> QED
  BY <1>1, SlotAssumption DEF IsLoad

LEMMA FetchLoads ==
    ASSUME TypeOK, NEW k \in Slots, ~IsLoad(call[k]), LoadAll(k)
    PROVE  IsLoad(call'[k])
<1>1. call'[k] = [step |-> "asked"]
  BY FetchAlone DEF LoadAll, Fetch, TypeOK
<1> QED
  BY <1>1, AskedIsLoad

LEMMA LoadingStep ==
    ASSUME TypeOK, LoadingHasLoad, Next
    PROVE  LoadingHasLoad'
<1>1. ASSUME NEW k \in Slots, ~IsLoad(call[k]), LoadAll(k) PROVE LoadingHasLoad'
  BY <1>1, FetchLoads DEF LoadingHasLoad
<1>2. ASSUME NEW k \in Slots, ~IsLoad(call[k]), UNCHANGED loading,
             \A j \in Slots : j # k => call'[j] = call[j]
      PROVE  LoadingHasLoad'
  <2> SUFFICES ASSUME loading' PROVE \E j \in Slots : IsLoad(call'[j])
    BY DEF LoadingHasLoad
  <2>1. PICK j \in Slots : IsLoad(call[j])
    BY <1>2 DEF LoadingHasLoad
  <2> QED
    BY <1>2, <2>1
<1>3. ASSUME NEW k \in Slots, Settle(k), At(k, "sent") \/ At(k, "taken")
      PROVE  LoadingHasLoad'
  <2>1. CASE LoadAll(k)
    BY <1>1, <1>3, <2>1 DEF At, IsLoad
  <2>2. CASE call' = [call EXCEPT ![k] = None] /\ UNCHANGED loading
    BY <1>2, <1>3, <2>2 DEF At, IsLoad, TypeOK
  <2> QED
    BY <1>3, <2>1, <2>2 DEF Settle
<1>4. ASSUME NEW k \in Slots, Open(k) PROVE LoadingHasLoad'
  BY <1>4, AskedIsLoad DEF Open, LoadingHasLoad
<1>5. ASSUME NEW k \in Slots, Refresh(k) PROVE LoadingHasLoad'
  BY <1>1, <1>5 DEF Refresh, IsLoad
<1>6. ASSUME NEW k \in Slots, List(k) PROVE LoadingHasLoad'
  <2> DEFINE answer == [step |-> "listed", rows |-> [r \in Requests |-> Entry(r)]]
  <2>1. answer \in Call
    BY EntryType DEF Call
  <2>2. IsLoad(answer)
    BY <2>1, SlotAssumption DEF IsLoad
  <2>3. call'[k] = answer
    BY <1>6 DEF List, TypeOK
  <2> QED
    BY <2>2, <2>3 DEF LoadingHasLoad
<1>7. ASSUME NEW k \in Slots, NEW failed \in SUBSET KindsOf(page), TakeLists(k, failed)
      PROVE  LoadingHasLoad'
  BY <1>7 DEF TakeLists, LoadingHasLoad
<1>8. ASSUME NEW k \in Slots, NEW r, NEW v, Send(k, r, v) PROVE LoadingHasLoad'
  BY <1>2, <1>8 DEF Send, IsLoad, TypeOK
<1>9. ASSUME NEW k \in Slots, Take(k) PROVE LoadingHasLoad'
  BY <1>2, <1>9 DEF Take, At, IsLoad, TypeOK
<1>10. ASSUME NEW k \in Slots, Succeed(k) PROVE LoadingHasLoad'
  BY <1>1, <1>3, <1>10 DEF Succeed, At, IsLoad
<1>11. ASSUME NEW k \in Slots, FailVerdict(k) PROVE LoadingHasLoad'
  BY <1>3, <1>11 DEF FailVerdict
<1>12. ASSUME NEW k \in Slots,
              \/ \E v \in Verbs : ClickInDialog(k, v)
              \/ \E r \in Requests, v \in Verbs : Click(k, r, v)
       PROVE  LoadingHasLoad'
  BY <1>8, <1>12 DEF ClickInDialog, Click
<1>13. CASE UNCHANGED <<call, loading>>
  BY <1>13 DEF LoadingHasLoad
<1>14. ASSUME NEW r \in Requests,
              \/ \E v \in Verbs : Elsewhere(r, v)
              \/ NewAidRequest(r) \/ AddBeneficiary(r) \/ OpenDialog(r)
              \/ Save(r) \/ RequestDeletion(r) \/ RequestRelease(r)
       PROVE  UNCHANGED <<call, loading>>
  BY <1>14 DEF Elsewhere, NewAidRequest, AddBeneficiary, OpenDialog, Save,
     RequestDeletion, RequestRelease, OnServer, OnDesk, desk
<1>15. ASSUME \/ CloseDialog \/ OpenForm \/ SaveText
              \/ \E file \in Uploads \cup {NoCover} : PickCover(file)
       PROVE  UNCHANGED <<call, loading>>
  BY <1>15 DEF CloseDialog, OpenForm, PickCover, SaveText, OnDesk, OnForm, desk
<1> QED
  BY <1>4, <1>5, <1>6, <1>7, <1>9, <1>10, <1>11, <1>12, <1>13, <1>14, <1>15 DEF Next

\* The console's refresh button is never disabled but for a fetch under way:
\* not by fetches that overlap, lists that fail or a dialog that starts one.
THEOREM RefreshComesBack == Spec => []LoadingHasLoad
<1>1. Init => LoadingHasLoad
  BY DEF Init, LoadingHasLoad
<1>2. DeskInv /\ LoadingHasLoad /\ [Next]_vars => LoadingHasLoad'
  <2> SUFFICES ASSUME DeskInv, LoadingHasLoad, [Next]_vars PROVE LoadingHasLoad'
    OBVIOUS
  <2>1. CASE UNCHANGED vars
    BY <2>1 DEF vars, desk, LoadingHasLoad
  <2> QED
    BY <2>1, LoadingStep DEF DeskInv
<1> QED
  BY <1>1, <1>2, DeskInvariant, PTL DEF Spec
=============================================================================
