------------------------------ MODULE LivePages ------------------------------
(***************************************************************************)
(* The pages that show what the server knows: home, discover, proof,       *)
(* escrow, community, profile, certificate, volunteer, my-campaigns, the   *)
(* donor's dashboard, the campaign pages and their voting panel.           *)
(*                                                                         *)
(* Each has an effect that asks for a key (a campaign, a search, a         *)
(* category, a wallet), an interval that asks again or not, a flag that    *)
(* drops the answers of an effect that was replaced or not, and its own    *)
(* idea of what to show after a failure.  A load is asked, answered by the *)
(* server, and delivered: three steps, and loads overtake each other.      *)
(* One page is mounted, chosen at the start.  The voting panel is that of  *)
(* a campaign with a numeric id; without one it asks nothing.              *)
(***************************************************************************)
EXTENDS Integers, FiniteSets

CONSTANTS
    Keys,
    Slots,        \* bound: loads in flight at the same time
    MaxVersion,   \* bound: how often the records of a key change
    MaxMoves,     \* bound: what the user changes or sends
    None

\* What a slot and the screen hold.
Loads  == [key : Keys, by : {"effect", "command"}, mounted : BOOLEAN,
           answer : {None} \cup 0 .. MaxVersion]
Copies == [key : Keys, version : 0 .. MaxVersion]

ASSUME PagesAssumption ==
    /\ MaxVersion \in Nat \ {0}
    /\ MaxMoves \in Nat
    /\ None \notin Keys \cup Nat \cup Loads \cup Copies

\* "slug" and "drive" are detail/[slug], for a campaign that the client has
\* in CAMPAIGNS and for one it has not; "card" is detail?id=.  No page links
\* from one campaign page to another, so these stay with their key.
Campaign == {"slug", "drive", "card"}
Polling  == {"home", "discover", "proof", "escrow"} \cup Campaign
OneShot  == {"profile", "community", "my-campaigns", "donor"}
Careless == {"certificate", "volunteer", "voting"}
Pages    == Polling \cup OneShot \cup Careless

Guarded  == Polling \cup OneShot
Rekeyed  == {"escrow", "community", "volunteer", "voting"}
Commands == Campaign \cup {"volunteer", "voting", "donor"}
Flagged  == Pages \ {"home", "slug", "card", "my-campaigns", "donor"}
Keeping  == {"slug", "drive", "certificate", "voting"}

VARIABLES
    page,      \* which page this is
    key,       \* what its effect last ran for
    version,   \* per key: the server's records, 0 if there are none
    load,      \* what each slot is doing
    shown,     \* the page's copy: whose, and how old; None if it has none
    loading,   \* the page's loading state
    due,       \* community: the 250 ms timer is running
    sending,   \* the key a command was sent for, None if none is on its way
    gone,      \* notFound(): Next.js shows its own page instead
    word,      \* what the last load that counted brought
    moves

screen == <<shown, loading, gone, word>>
user   == <<key, due, sending, moves>>
vars   == <<page, version, load, screen, user>>

Load(k, by) == [key |-> k, by |-> by, mounted |-> TRUE, answer |-> None]

Init ==
    /\ page \in Pages
    /\ key \in Keys
    /\ version \in [Keys -> 0 .. 1]
    /\ IF page = "community"
       THEN load = [s \in Slots |-> None]
       ELSE \E s \in Slots : load = [[t \in Slots |-> None] EXCEPT ![s] = Load(key, "effect")]
    /\ due = (page = "community")
    /\ shown = None
    /\ loading = (page \in Flagged)
    /\ sending = None
    /\ gone = FALSE
    /\ word = "silent"
    /\ moves = 0

-----------------------------------------------------------------------------
(* Asking. *)

InFlight(s) == load[s] # None

Ask(s, k, by) ==
    /\ ~InFlight(s)
    /\ load' = [load EXCEPT ![s] = Load(k, by)]

\* The effect's clean-up: mounted, or active, is FALSE from now on.
Unmounted == [s \in Slots |->
    IF InFlight(s) /\ load[s].by = "effect" THEN [load[s] EXCEPT !.mounted = FALSE] ELSE load[s]]

Rekey(k) ==
    /\ page \in Rekeyed
    /\ k # key
    /\ moves < MaxMoves
    /\ key' = k
    /\ word' = "silent"
    /\ moves' = moves + 1
    /\ UNCHANGED <<page, version, shown, gone, sending>>

\* escrow begins with the first campaign and only then reads the URL; a
\* volunteer picks a category; the wallet of the voting panel connects.
Switch(s, k) ==
    /\ page # "community"
    /\ page = "escrow" => shown = None /\ loading
    /\ Rekey(k)
    /\ ~InFlight(s)
    /\ load' = [Unmounted EXCEPT ![s] = Load(k, "effect")]
    /\ loading' = TRUE
    /\ UNCHANGED due

Type(k) ==
    /\ page = "community"
    /\ Rekey(k)
    /\ load' = Unmounted
    /\ due' = TRUE
    /\ UNCHANGED loading

Debounced(s) ==
    /\ due
    /\ due' = FALSE
    /\ loading' = TRUE
    /\ Ask(s, key, "effect")
    /\ UNCHANGED <<page, version, shown, gone, word, key, sending, moves>>

\* setTimeout in the place of setInterval: no action uses this.
PollOnce(s) ==
    /\ page \in Polling
    /\ shown = None
    /\ ~gone
    /\ Ask(s, key, "effect")
    /\ UNCHANGED <<page, version, screen, user>>

Poll(s) ==
    /\ page \in Polling
    /\ ~gone
    /\ Ask(s, key, "effect")
    /\ UNCHANGED <<page, version, screen, user>>

-----------------------------------------------------------------------------
(* Commands: a donation, an application, a vote, a top-up.  The handler     *)
(* keeps the key it began with, and what it asks for afterwards is taken    *)
(* whatever the page shows by then.                                         *)

Send ==
    /\ page \in Commands
    /\ ~gone
    /\ sending = None
    /\ moves < MaxMoves
    /\ sending' = key
    /\ moves' = moves + 1
    /\ UNCHANGED <<page, version, load, screen, key, due>>

Done ==
    /\ sending # None
    /\ version[sending] < MaxVersion
    /\ version' = [version EXCEPT ![sending] = @ + 1]
    /\ sending' = None
    /\ UNCHANGED <<page, key, due, moves>>

\* fetchData and fetchStatus say that they load, the campaign pages do not.
Refetch(s) ==
    /\ page # "donor"
    /\ Done
    /\ Ask(s, sending, "command")
    /\ loading' = (loading \/ page \notin Campaign)
    /\ UNCHANGED <<shown, gone, word>>

\* onConfirmed: the balance in the answer, with no load.
TopUpConfirmed ==
    /\ page = "donor"
    /\ Done
    /\ shown' = [key |-> sending, version |-> version'[sending]]
    /\ UNCHANGED <<load, loading, gone, word>>

CommandFails ==
    /\ sending # None
    /\ sending' = None
    /\ UNCHANGED <<page, version, load, screen, key, due, moves>>

-----------------------------------------------------------------------------
(* The server. *)

Change(k) ==
    /\ version[k] < MaxVersion
    /\ k = key \/ page \in Rekeyed
    /\ version' = [version EXCEPT ![k] = @ + 1]
    /\ UNCHANGED <<page, load, screen, user>>

Answer(s) ==
    /\ InFlight(s)
    /\ load[s].answer = None
    /\ load' = [load EXCEPT ![s].answer = version[load[s].key]]
    /\ UNCHANGED <<page, version, screen, user>>

-----------------------------------------------------------------------------
(* What a page does with an answer. *)

\* An answer is taken although its effect was replaced: no action uses this.
CountsAnyway(s) == InFlight(s) /\ ~gone

\* if (mounted), if (active): only where the page has such a flag.
Counts(s) ==
    /\ InFlight(s)
    /\ ~gone
    /\ load[s].mounted \/ page \notin Guarded

\* finally { setLoading(false) } with no flag: no action uses this.
LoadingEnds == FALSE

\* What an answer that does not count leaves of the loading state.
LoadingStays == loading

Refreshes(l) == page \in Campaign /\ l.by = "command"

\* setError(true), where the client has nothing of its own to show.
Missing(l) == page = "drive" /\ ~Refreshes(l)

\* detail/[slug], and the refresh of both, leave a summary that is null alone.
KeepsOnNull(l) == page \in {"slug", "drive"} \/ Refreshes(l)

\* The refresh of a drive sets the summary, of which its page shows nothing.
Unread(l) == page = "drive" /\ Refreshes(l)

Free(s) == load' = [load EXCEPT ![s] = None]

Take(s) ==
    LET l == load[s] IN
    /\ Counts(s)
    /\ l.answer # None
    /\ Free(s)
    /\ shown' = IF Unread(l) \/ (l.answer = 0 /\ KeepsOnNull(l)) THEN shown
                ELSE [key |-> l.key, version |-> l.answer]
    /\ loading' = (loading /\ Refreshes(l))
    /\ gone' = (l.answer = 0 /\ Missing(l))
    /\ word' = IF Unread(l) THEN word ELSE IF l.answer = 0 THEN "empty" ELSE "records"
    /\ UNCHANGED <<page, version, user>>

\* The samples of a category take the place of its opportunities.
Blank(l) == IF page = "volunteer" THEN [key |-> l.key, version |-> 0] ELSE None

Fail(s) ==
    LET l == load[s] IN
    /\ Counts(s)
    /\ Free(s)
    /\ shown' = IF page \in Keeping \/ Refreshes(l) THEN shown ELSE Blank(l)
    /\ loading' = (loading /\ Refreshes(l))
    /\ gone' = Missing(l)
    /\ word' = IF Refreshes(l) THEN word ELSE "failed"
    /\ UNCHANGED <<page, version, user>>

Drop(s) ==
    /\ InFlight(s)
    /\ ~Counts(s)
    /\ Free(s)
    /\ loading' = LoadingStays
    /\ UNCHANGED <<page, version, shown, gone, word, user>>

-----------------------------------------------------------------------------
(* What each page says of its copy. *)

Rows       == IF shown = None \/ shown.version = 0 THEN "nothing" ELSE "records"
Awaited(v) == IF loading THEN "loading" ELSE v

\* Where the client's own campaigns stand in for the server's.
OrSeeded == IF Rows = "records" THEN "records" ELSE "seeded"

HomeView      == [cards |-> OrSeeded]
DiscoverView  == [totals |-> OrSeeded, cards |-> Awaited(OrSeeded)]
ProofView     == [stats |-> Rows, feed |-> Awaited(Rows), documents |-> Awaited(Rows)]
EscrowView    == [totals |-> Rows, flow |-> Awaited(Rows), transactions |-> Rows]
ProfileView   == [profile |-> Awaited(Rows)]
CommunityView == [leaderboard |-> Rows, directory |-> Awaited(Rows)]
GalleryView   == [gallery |-> Awaited(Rows)]
MyDrivesView  == [drives |-> Rows]
CardView      == [campaign |-> OrSeeded]

\* A drive that was never answered is as absent as one that is gone.
DetailView ==
    [campaign |-> CASE gone                              -> "nothing"
                    [] ~gone /\ page = "drive"           -> Awaited(Rows)
                    [] ~gone /\ page = "slug"            -> OrSeeded]

\* Only opportunities of the chosen category are listed, whichever were loaded.
\* (Keys are such categories; "All", which lists whatever was loaded, is not.)
OpportunitiesView ==
    [cards |-> Awaited(CASE shown = None \/ shown.key # key       -> "nothing"
                         [] shown # None /\ shown.key = key
                              /\ shown.version = 0                -> "seeded"
                         [] OTHER                                 -> "records")]

\* The button follows the vote that was loaded, also while another one is.
VotingView ==
    [status |-> Awaited(IF word = "failed" THEN "error" ELSE Rows), button |-> Rows]

\* The timeline and the drives come with the load, the balance with it or
\* with a top-up.
DonorView ==
    [balance   |-> Rows,
     timeline  |-> IF word = "records" THEN "records" ELSE "nothing",
     organized |-> IF word = "records" THEN "records" ELSE "nothing"]

View ==
    CASE page = "home"         -> HomeView
      [] page = "discover"     -> DiscoverView
      [] page = "proof"        -> ProofView
      [] page = "escrow"       -> EscrowView
      [] page = "profile"      -> ProfileView
      [] page = "community"    -> CommunityView
      [] page = "certificate"  -> GalleryView
      [] page = "my-campaigns" -> MyDrivesView
      [] page = "card"         -> CardView
      [] page = "volunteer"    -> OpportunitiesView
      [] page = "voting"       -> VotingView
      [] page = "donor"        -> DonorView
      [] page \in {"slug", "drive"} -> DetailView

-----------------------------------------------------------------------------
Next ==
    \/ \E k \in Keys :
        \/ Type(k)
        \/ Change(k)
        \/ \E s \in Slots : Switch(s, k)
    \/ \E s \in Slots :
        \/ Debounced(s)
        \/ Poll(s)
        \/ Refetch(s)
        \/ Answer(s)
        \/ Take(s)
        \/ Fail(s)
        \/ Drop(s)
    \/ Send
    \/ TopUpConfirmed
    \/ CommandFails

Spec == Init /\ [][Next]_vars

\* The interval fires; the server answers a request that is made over and
\* over, and such an answer arrives.  Nothing keeps a load from failing.
FairSpec ==
    /\ Spec
    /\ WF_vars(\E s \in Slots : Poll(s))
    /\ \A s \in Slots :
        /\ SF_vars(Answer(s))
        /\ SF_vars(Take(s))
        /\ WF_vars(Drop(s))

-----------------------------------------------------------------------------
(* Properties. *)

\* Every variable stays in its range; only a drive is ever gone, only the
\* community page waits for a timer, only some pages ever say that they load
\* and only some ever send.
TypeOK ==
    /\ page \in Pages
    /\ key \in Keys
    /\ version \in [Keys -> 0 .. MaxVersion]
    /\ load \in [Slots -> {None} \cup Loads]
    /\ shown \in {None} \cup Copies
    /\ loading \in BOOLEAN /\ (loading => page \in Flagged)
    /\ due \in BOOLEAN /\ (due => page = "community")
    /\ sending \in {None} \cup Keys /\ (sending # None => page \in Commands)
    /\ gone \in BOOLEAN /\ (gone => page = "drive")
    /\ word \in {"silent", "empty", "records", "failed"}
    /\ moves \in 0 .. MaxMoves

\* The last word is the key's: a guarded page shows what belongs to another
\* search or campaign only as long as its own is still to come.  (What the
\* mounted and active flags of the effects are for.)
LastWordIsKeys ==
    (page \in Guarded /\ shown # None /\ shown.key # key) =>
        due \/ \E s \in Slots : InFlight(s) /\ load[s].mounted /\ load[s].key = key

\* "No escrow record", "No verified proof records", "Profile not found", "No
\* public impact certificates", 404: where a page waits for its answer before
\* it says that there is nothing, an answer for this very key said so or a
\* load for it failed.
AbsenceIsAnswered ==
    \A part \in DOMAIN View \cap {"feed", "documents", "flow", "profile", "gallery", "campaign"} :
        View[part] = "nothing" => word \in {"empty", "failed"}

\* A search that is repeated never brings back an older answer than the one
\* on the screen: the pages that ask once per key have no load overtaken.
NeverOlder ==
    [][ (page \in OneShot \ {"donor"} /\ shown # None /\ shown' # None)
          => (shown'.key = shown.key => shown'.version >= shown.version) ]_vars

UpToDate ==
    \/ shown = [key |-> key, version |-> version[key]]
    \/ shown = None /\ version[key] = 0

\* A page that polls shows the server's records again and again, whatever
\* failed or overtook before: home, discover, proof, escrow, and the pages of
\* the campaigns that the client has itself.
CatchesUp == (page \in Polling \ {"drive"}) => []<>UpToDate

\* "Non-critical - polling loop will catch up" (detail/[slug]/page.tsx:322),
\* for a campaign that the client does not have itself.
DriveCatchesUp == (page = "drive") => []<>UpToDate
=============================================================================
