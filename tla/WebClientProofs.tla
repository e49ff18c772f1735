--------------------------- MODULE WebClientProofs ---------------------------
(***************************************************************************)
(* What the web client keeps true: WebSession for every number of tabs and *)
(* sessions, and LivePages for every number of keys, loads and versions.   *)
(*                                                                         *)
(* The session.  The two copies of the token in localStorage and the copy  *)
(* in each tab change together only within one tab.  SessionInv puts the   *)
(* three facts side by side: a tab that reloads is safe because the copies *)
(* in localStorage agree, and they go on agreeing because what a reload    *)
(* writes back is the copy that was not removed.                           *)
(*                                                                         *)
(* The pages.  The properties speak of what is shown; what will be shown   *)
(* is in flight.  Own says whose the loads are that will count, Once that  *)
(* a page which does not poll has at most one of them and it is not older  *)
(* than what is shown, and Told what the word of the last load says of the *)
(* copy.                                                                   *)
(***************************************************************************)
EXTENDS LivePages, WebSession, TLAPS

-----------------------------------------------------------------------------
(* The session. *)

SessionInv ==
    /\ SessionTypeOK
    /\ StoredTogether
    /\ SendsWhatItShows

LEMMA SessionInitInv == SessionInit => SessionInv
BY SessionAssumption
   DEF SessionInit, SessionInv, SessionTypeOK, StoredTogether, SendsWhatItShows,
       Routes, Private, Public

-----------------------------------------------------------------------------
(* One lemma per way the session is written. *)

\* Signing in: all copies name the new session, and every other tab is told
\* apart from now on.
LEMMA SetAuthInv ==
    ASSUME SessionTypeOK, NEW t \in Tabs, NEW k \in Tokens, SetAuth(t, k)
    PROVE  /\ token' \in Tokens \cup {NoToken} /\ auth' \in Tokens \cup {NoToken}
           /\ store' \in [Tabs -> Tokens \cup {NoToken}] /\ replaced' \subseteq Tabs
           /\ StoredTogether' /\ SendsWhatItShows'
BY DEF SessionTypeOK, SetAuth, StoredTogether, SendsWhatItShows

\* Signing out: no copy is left where the next reload would find it.
LEMMA ClearAuthInv ==
    ASSUME SessionTypeOK, NEW t \in Tabs, ClearAuth(t)
    PROVE  /\ token' \in Tokens \cup {NoToken} /\ auth' \in Tokens \cup {NoToken}
           /\ store' \in [Tabs -> Tokens \cup {NoToken}] /\ replaced' \subseteq Tabs
           /\ StoredTogether' /\ SendsWhatItShows'
BY DEF SessionTypeOK, ClearAuth, StoredTogether, SendsWhatItShows

\* A page that loads.
LEMMA RehydrateInv == ASSUME SessionInv, NEW t \in Tabs, Rehydrate(t) PROVE SessionInv'
<1> USE DEF SessionInv
<1>1. SessionTypeOK'
    BY DEF SessionTypeOK, Rehydrate, Routes, Private, Public
<1>2. StoredTogether'
    BY DEF SessionTypeOK, Rehydrate, StoredTogether
<1>3. SendsWhatItShows'
    <2> SUFFICES ASSUME NEW u \in Tabs \ replaced'
                 PROVE  store'[u] = auth' /\ token' \in {store'[u], NoToken}
        BY DEF SendsWhatItShows
    <2>1. token' \in {auth, NoToken} /\ auth' = auth
        BY DEF Rehydrate, StoredTogether
    <2>2. CASE u = t
        BY <2>1, <2>2 DEF Rehydrate, SessionTypeOK
    <2>3. CASE u # t
        BY <2>1, <2>3 DEF Rehydrate, SessionTypeOK, SendsWhatItShows
    <2> QED
        BY <2>2, <2>3
<1> QED
    BY <1>1, <1>2, <1>3

\* A 401, for whatever request.
LEMMA UnauthorizedInv == ASSUME SessionInv, NEW t \in Tabs, Unauthorized(t) PROVE SessionInv'
BY DEF SessionInv, SessionTypeOK, Unauthorized, StoredTogether, SendsWhatItShows

\* Everything else leaves the copies of the session alone.
LEMMA SameSession ==
    ASSUME SessionInv, SessionTypeOK', UNCHANGED <<storage, store, replaced>> PROVE SessionInv'
BY DEF SessionInv, storage, StoredTogether, SendsWhatItShows

-----------------------------------------------------------------------------

LEMMA SessionInvStep == SessionInv /\ [SessionNext]_sessionVars => SessionInv'
<1> SUFFICES ASSUME SessionInv, [SessionNext]_sessionVars PROVE SessionInv'
    OBVIOUS
<1> USE DEF SessionInv
<1>1. ASSUME NEW t \in Tabs, Rehydrate(t) PROVE SessionInv'
    BY <1>1, RehydrateInv
<1>2. ASSUME NEW t \in Tabs, LoginRefused(t) \/ Refused(t) PROVE SessionInv'
    BY <1>2, UnauthorizedInv DEF LoginRefused, Refused
<1>3. ASSUME NEW t \in Tabs, NEW k \in Tokens, LoginAccepted(t, k) PROVE SessionInv'
    <2>1. RouteForRole(k) \in Routes
        BY SessionAssumption DEF RouteForRole, Routes, Private, Public
    <2>2. at' \in [Tabs -> Routes \cup {"leaving"}]
        BY <1>3, <2>1 DEF LoginAccepted, SessionTypeOK
    <2>3. /\ asking' \in [Tabs -> BOOLEAN]
          /\ call' \in [Tabs -> Tokens \cup {NoToken, "free"}]
          /\ session' \in [Tokens -> {"unopened", "valid", "expired"}]
        BY <1>3 DEF LoginAccepted, SessionTypeOK
    <2> QED
        BY <1>3, <2>2, <2>3, SetAuthInv DEF LoginAccepted, SessionTypeOK
<1>4. ASSUME NEW t \in Tabs, SignOut(t) PROVE SessionInv'
    <2>1. /\ at' \in [Tabs -> Routes \cup {"leaving"}]
          /\ asking' \in [Tabs -> BOOLEAN]
          /\ call' \in [Tabs -> Tokens \cup {NoToken, "free"}]
          /\ session' \in [Tokens -> {"unopened", "valid", "expired"}]
        BY <1>4 DEF SignOut, SessionTypeOK, Routes
    <2> QED
        BY <1>4, <2>1, ClearAuthInv DEF SignOut, SessionTypeOK
<1>5. ASSUME NEW t \in Tabs, NEW p \in Routes, GoTo(t, p) PROVE SessionInv'
    <2>1. SessionTypeOK'
        BY <1>5 DEF GoTo, SessionTypeOK, storage
    <2> QED
        BY <1>5, <2>1, SameSession DEF GoTo
<1>6. ASSUME NEW t \in Tabs, AlreadySignedIn(t) PROVE SessionInv'
    <2>1. store[t] \in Tokens
        BY <1>6 DEF AlreadySignedIn, SignedIn, SessionTypeOK
    <2>2. RouteForRole(store[t]) \in Routes
        BY <2>1, SessionAssumption DEF RouteForRole, Routes, Private, Public
    <2> QED
        BY <1>5, <1>6, <2>2 DEF AlreadySignedIn
<1>7. ASSUME NEW t \in Tabs,
             Login(t) \/ LoginLost(t) \/ Request(t) \/ Answered(t)
      PROVE  SessionInv'
    <2>1. SessionTypeOK'
        BY <1>7 DEF Login, LoginLost, Request, Answered, SessionTypeOK, storage
    <2> QED
        BY <1>7, <2>1, SameSession DEF Login, LoginLost, Request, Answered
<1>8. ASSUME NEW k \in Tokens, Expire(k) PROVE SessionInv'
    <2>1. SessionTypeOK'
        BY <1>8 DEF Expire, SessionTypeOK, storage, tabs
    <2> QED
        BY <1>8, <2>1, SameSession DEF Expire, tabs
<1>9. CASE UNCHANGED sessionVars
    BY <1>9 DEF sessionVars, storage, tabs, SessionTypeOK, StoredTogether, SendsWhatItShows
<1>10. ASSUME NEW t \in Tabs, Gate(t) \/ \E p \in Routes : Navigate(t, p) PROVE SessionInv'
    BY <1>5, <1>10 DEF Gate, Navigate, Routes
<1> QED
    BY <1>1, <1>2, <1>3, <1>4, <1>6, <1>7, <1>8, <1>9, <1>10 DEF SessionNext

LEMMA SessionInvariance == SessionSpec => []SessionInv
<1> QED
    BY SessionInitInv, SessionInvStep, PTL DEF SessionSpec

-----------------------------------------------------------------------------
(* The theorems. *)

\* The session's state keeps its shape in every tab (all of authStore.ts).
THEOREM SessionTypes == SessionSpec => []SessionTypeOK
<1>1. SessionInv => SessionTypeOK
    BY DEF SessionInv
<1> QED
    BY <1>1, SessionInvariance, PTL

\* lingap_token and lingap_auth never name two sessions.
THEOREM CopiesAgree == SessionSpec => []StoredTogether
<1>1. SessionInv => StoredTogether
    BY DEF SessionInv
<1> QED
    BY <1>1, SessionInvariance, PTL

\* A tab whose session no other tab has replaced sends its own user's token.
THEOREM TabsSendTheirOwn == SessionSpec => []SendsWhatItShows
<1>1. SessionInv => SendsWhatItShows
    BY DEF SessionInv
<1> QED
    BY <1>1, SessionInvariance, PTL

-----------------------------------------------------------------------------
(* The pages. *)


\* A load of the effect that runs now.
Current(s) == InFlight(s) /\ load[s].by = "effect" /\ load[s].mounted

\* Such a load is for the key, and no answer is ahead of the records; where
\* the key never changes, everything is about it.
Own ==
    /\ \A s \in Slots : Current(s) => load[s].key = key
    /\ \A s \in Slots : InFlight(s) /\ load[s].by = "command" => page \in Commands
    /\ \A s \in Slots : InFlight(s) /\ load[s].answer # None
         => load[s].answer <= version[load[s].key]
    /\ page \notin Rekeyed =>
         /\ \A s \in Slots : InFlight(s) => load[s].key = key
         /\ sending \in {None, key}
         /\ shown # None => shown.key = key

\* The pages that ask once per key and send nothing.
Asking == page \in OneShot \ {"donor"}

Once == Asking =>
    /\ \A s, t \in Slots : Current(s) /\ Current(t) => s = t
    /\ due => \A s \in Slots : ~Current(s)
    /\ shown # None =>
         /\ shown.version <= version[shown.key]
         /\ \A s \in Slots :
              Current(s) /\ load[s].key = shown.key /\ load[s].answer # None
                => shown.version <= load[s].answer

\* The pages with a part that waits for its answer.
Patient == page \in {"proof", "escrow", "profile", "certificate", "drive"}

Told == Patient =>
    /\ word = "silent" => loading
    /\ word = "records" => shown # None /\ shown.version # 0
    /\ gone => word \in {"empty", "failed"}

Inv ==
    /\ TypeOK
    /\ Own
    /\ Once
    /\ Told
    /\ LastWordIsKeys

USE DEF Campaign, Polling, OneShot, Careless, Pages, Guarded, Rekeyed, Commands,
        Flagged, Keeping, InFlight, Loads, Copies

-----------------------------------------------------------------------------
(* Type correctness. *)

LEMMA LoadType ==
    ASSUME NEW k \in Keys, NEW by \in {"effect", "command"}
    PROVE  Load(k, by) \in Loads
BY DEF Load

LEMMA InitType == Init => TypeOK
<1> SUFFICES ASSUME Init PROVE TypeOK
    OBVIOUS
<1>1. load \in [Slots -> {None} \cup Loads]
    BY LoadType DEF Init
<1>2. version \in [Keys -> 0 .. MaxVersion]
    BY PagesAssumption DEF Init
<1>3. loading \in BOOLEAN /\ (loading => page \in Flagged)
    <2>1. loading = (page \in Flagged)
        BY DEF Init
    <2> HIDE DEF Flagged
    <2>2. CASE page \in Flagged
        <3>1. (page \in Flagged) = TRUE
            BY <2>2
        <3> QED
            BY <2>1, <2>2, <3>1, Zenon
    <2>3. CASE page \notin Flagged
        <3>1. (page \in Flagged) = FALSE
            BY <2>3
        <3> QED
            BY <2>1, <2>3, <3>1, Zenon
    <2> QED
        BY <2>2, <2>3
<1>4. due \in BOOLEAN /\ (due => page = "community")
    BY DEF Init
<1>5. moves \in 0 .. MaxMoves
    BY PagesAssumption DEF Init
<1>6. /\ page \in Pages /\ key \in Keys /\ shown = None /\ sending = None
      /\ gone = FALSE /\ word = "silent"
    BY DEF Init
<1> QED
    BY <1>1, <1>2, <1>3, <1>4, <1>5, <1>6 DEF TypeOK

LEMMA UnmountedType ==
    ASSUME TypeOK
    PROVE  Unmounted \in [Slots -> {None} \cup Loads]
BY DEF Unmounted, TypeOK

LEMMA AskType ==
    ASSUME TypeOK, NEW s \in Slots, NEW k \in Keys, NEW by \in {"effect", "command"},
           Ask(s, k, by)
    PROVE  load' \in [Slots -> {None} \cup Loads]
BY LoadType DEF Ask, TypeOK

LEMMA TypeStep == TypeOK /\ [Next]_vars => TypeOK'
<1> SUFFICES ASSUME TypeOK, [Next]_vars PROVE TypeOK'
    OBVIOUS
<1>1. ASSUME NEW k \in Keys, NEW s \in Slots, Switch(s, k) PROVE TypeOK'
    <2>1. load' \in [Slots -> {None} \cup Loads]
        BY <1>1, UnmountedType, LoadType DEF Switch
    <2>2. moves' \in 0 .. MaxMoves
        BY <1>1, PagesAssumption DEF Switch, Rekey, TypeOK
    <2> QED
        BY <1>1, <2>1, <2>2 DEF Switch, Rekey, TypeOK
<1>2. ASSUME NEW k \in Keys, Type(k) PROVE TypeOK'
    <2>1. moves' \in 0 .. MaxMoves
        BY <1>2, PagesAssumption DEF Type, Rekey, TypeOK
    <2> QED
        BY <1>2, <2>1, UnmountedType DEF Type, Rekey, TypeOK
<1>3. ASSUME NEW s \in Slots, Debounced(s) PROVE TypeOK'
    BY <1>3, AskType DEF Debounced, TypeOK
<1>4. ASSUME NEW s \in Slots, Poll(s) PROVE TypeOK'
    BY <1>4, AskType DEF Poll, TypeOK, screen, user
<1>5. ASSUME Send PROVE TypeOK'
    <2>1. moves' \in 0 .. MaxMoves
        BY <1>5, PagesAssumption DEF Send, TypeOK
    <2> QED
        BY <1>5, <2>1 DEF Send, TypeOK, screen
<1>6. ASSUME Done
      PROVE  /\ sending \in Keys /\ sending' = None
             /\ version' \in [Keys -> 0 .. MaxVersion]
             /\ version'[sending] \in 0 .. MaxVersion
    BY <1>6, PagesAssumption DEF Done, TypeOK
<1>7. ASSUME NEW s \in Slots, Refetch(s) PROVE TypeOK'
    <2>1. load' \in [Slots -> {None} \cup Loads]
        BY <1>6, <1>7, AskType DEF Refetch
    <2>2. loading' \in BOOLEAN /\ (loading' => page' \in Flagged)
        BY <1>7 DEF Refetch, Done, TypeOK
    <2> QED
        BY <1>6, <1>7, <2>1, <2>2 DEF Refetch, Done, TypeOK
<1>8. ASSUME TopUpConfirmed PROVE TypeOK'
    <2>1. shown' \in {None} \cup Copies
        BY <1>6, <1>8 DEF TopUpConfirmed
    <2>2. /\ page' = page /\ key' = key /\ due' = due /\ moves' = moves
          /\ load' = load /\ loading' = loading /\ gone' = gone /\ word' = word
        BY <1>8 DEF TopUpConfirmed, Done
    <2> QED
        BY <1>6, <1>8, <2>1, <2>2 DEF TopUpConfirmed, TypeOK
<1>9. ASSUME CommandFails PROVE TypeOK'
    BY <1>9 DEF CommandFails, TypeOK, screen
<1>10. ASSUME NEW k \in Keys, Change(k) PROVE TypeOK'
    BY <1>10, PagesAssumption DEF Change, TypeOK, screen, user
<1>11. ASSUME NEW s \in Slots, Answer(s) PROVE TypeOK'
    BY <1>11 DEF Answer, TypeOK, screen, user
<1>12. ASSUME NEW s \in Slots, Take(s) PROVE TypeOK'
    BY <1>12 DEF Take, Counts, Free, Refreshes, Missing, TypeOK, user
<1>13. ASSUME NEW s \in Slots, Fail(s) PROVE TypeOK'
    BY <1>13, PagesAssumption DEF Fail, Counts, Free, Refreshes, Missing, Blank, TypeOK, user
<1>14. ASSUME NEW s \in Slots, Drop(s) PROVE TypeOK'
    BY <1>14 DEF Drop, Free, LoadingStays, TypeOK, user
<1>15. CASE UNCHANGED vars
    BY <1>15 DEF vars, screen, user, TypeOK
<1> QED
    BY <1>1, <1>2, <1>3, <1>4, <1>5, <1>7, <1>8, <1>9, <1>10, <1>11, <1>12, <1>13,
       <1>14, <1>15 DEF Next

\* Every variable of the pages stays in its range (the pages' own states, the
\* loads and the server's records).
THEOREM PagesTypes == Spec => []TypeOK
<1>1. Init => TypeOK
    BY InitType
<1>2. TypeOK /\ [Next]_vars => TypeOK'
    BY TypeStep
<1> QED
    BY <1>1, <1>2, PTL DEF Spec

-----------------------------------------------------------------------------
(* What the actions do to the slots. *)

LEMMA Asked ==
    ASSUME TypeOK, NEW s \in Slots, NEW k \in Keys, NEW by \in {"effect", "command"},
           Ask(s, k, by)
    PROVE  /\ load[s] = None
           /\ load'[s] = Load(k, by)
           /\ load'[s] \in Loads /\ load'[s] # None
           /\ load'[s].key = k /\ load'[s].by = by
           /\ load'[s].mounted /\ load'[s].answer = None
           /\ \A t \in Slots \ {s} : load'[t] = load[t]
<1>1. load'[s] = Load(k, by)
    BY DEF Ask, TypeOK
<1>2. Load(k, by) \in Loads
    BY LoadType
<1>3. load'[s] # None
    BY <1>1, <1>2, PagesAssumption
<1> QED
    BY <1>1, <1>2, <1>3 DEF Ask, TypeOK, Load

LEMMA Replaced ==
    ASSUME TypeOK, NEW t \in Slots
    PROVE  /\ Unmounted[t] = None <=> load[t] = None
           /\ load[t] # None =>
                /\ Unmounted[t] \in Loads
                /\ Unmounted[t].key = load[t].key
                /\ Unmounted[t].by = load[t].by
                /\ Unmounted[t].answer = load[t].answer
                /\ Unmounted[t].by = "effect" => ~Unmounted[t].mounted
<1>1. CASE load[t] = None
    BY <1>1 DEF Unmounted
<1>2. CASE load[t] # None
    <2>1. load[t] \in Loads
        BY <1>2 DEF TypeOK
    <2>2. Unmounted[t] \in Loads
        BY <1>2, <2>1 DEF Unmounted
    <2>3. Unmounted[t] # None
        BY <2>2, PagesAssumption
    <2> QED
        BY <1>2, <2>1, <2>2, <2>3 DEF Unmounted
<1> QED
    BY <1>1, <1>2

LEMMA Freed ==
    ASSUME TypeOK, NEW s \in Slots, Free(s)
    PROVE  load'[s] = None /\ \A t \in Slots \ {s} : load'[t] = load[t]
BY DEF Free, TypeOK

LEMMA AnswerEffect ==
    ASSUME TypeOK, NEW s \in Slots, Answer(s)
    PROVE  /\ load[s] # None /\ load[s] \in Loads /\ load[s].answer = None
           /\ load'[s] \in Loads /\ load'[s] # None
           /\ load'[s].key = load[s].key /\ load'[s].by = load[s].by
           /\ load'[s].mounted = load[s].mounted
           /\ load'[s].answer = version[load[s].key]
           /\ \A t \in Slots \ {s} : load'[t] = load[t]
<1>1. load[s] # None /\ load[s] \in Loads /\ load[s].answer = None
    BY DEF Answer, TypeOK
<1>2. version[load[s].key] \in 0 .. MaxVersion
    BY <1>1 DEF TypeOK
<1>3. load'[s] = [load[s] EXCEPT !.answer = version[load[s].key]]
    BY DEF Answer, TypeOK
<1>4. load'[s] \in Loads
    BY <1>1, <1>2, <1>3
<1>5. load'[s] # None
    BY <1>4, PagesAssumption
<1> QED
    BY <1>1, <1>3, <1>4, <1>5 DEF Answer, TypeOK

LEMMA Switched ==
    ASSUME TypeOK, NEW s \in Slots, NEW k \in Keys, Switch(s, k)
    PROVE  /\ load'[s] # None /\ load'[s] \in Loads
           /\ load'[s].key = k /\ load'[s].by = "effect"
           /\ load'[s].mounted /\ load'[s].answer = None
           /\ \A t \in Slots \ {s} : load'[t] = Unmounted[t]
<1>1. Unmounted \in [Slots -> {None} \cup Loads]
    BY UnmountedType
<1>2. load'[s] = Load(k, "effect") /\ \A t \in Slots \ {s} : load'[t] = Unmounted[t]
    BY <1>1 DEF Switch
<1>3. Load(k, "effect") \in Loads
    BY LoadType
<1>4. load'[s] # None
    BY <1>2, <1>3, PagesAssumption
<1> QED
    BY <1>2, <1>3, <1>4 DEF Load

-----------------------------------------------------------------------------
(* Whose the loads are. *)

LEMMA OwnStep == TypeOK /\ Own /\ [Next]_vars => Own'
<1> SUFFICES ASSUME TypeOK, Own, [Next]_vars PROVE Own'
    OBVIOUS
<1>1. ASSUME NEW k \in Keys, NEW s \in Slots, Switch(s, k) PROVE Own'
    <2>1. page' = page /\ page \in Rekeyed /\ key' = k /\ version' = version
        BY <1>1 DEF Switch, Rekey
    <2>2. \A t \in Slots : Current(t)' => t = s
        BY <1>1, Switched, Replaced DEF Current
    <2> QED
        BY <1>1, <2>1, <2>2, Switched, Replaced DEF Own, Current
<1>2. ASSUME NEW k \in Keys, Type(k) PROVE Own'
    <2>1. page' = page /\ page \in Rekeyed /\ version' = version /\ load' = Unmounted
        BY <1>2 DEF Type, Rekey
    <2> QED
        BY <2>1, Replaced DEF Own, Current
<1>3. ASSUME NEW s \in Slots, Debounced(s) PROVE Own'
    <2>1. /\ page' = page /\ key' = key /\ version' = version /\ shown' = shown
          /\ sending' = sending /\ key \in Keys /\ Ask(s, key, "effect")
        BY <1>3 DEF Debounced, TypeOK
    <2> QED
        BY <2>1, Asked DEF Own, Current
<1>4. ASSUME NEW s \in Slots, Poll(s) PROVE Own'
    <2>1. /\ page' = page /\ key' = key /\ version' = version /\ shown' = shown
          /\ sending' = sending /\ key \in Keys /\ Ask(s, key, "effect")
        BY <1>4 DEF Poll, TypeOK, screen, user
    <2> QED
        BY <2>1, Asked DEF Own, Current
<1>5. CASE Send
    BY <1>5 DEF Send, Own, Current, screen
<1>6. ASSUME Done
      PROVE  /\ sending \in Keys /\ sending' = None /\ page \in Commands
             /\ page' = page /\ key' = key
             /\ \A k \in Keys : version[k] <= version'[k]
    BY <1>6, PagesAssumption DEF Done, TypeOK
<1>7. ASSUME NEW s \in Slots, Refetch(s) PROVE Own'
    <2>1. /\ Done /\ shown' = shown /\ Ask(s, sending, "command")
        BY <1>7 DEF Refetch
    <2>2. \A t \in Slots : load[t] # None /\ load[t].answer # None =>
             load[t].answer <= version'[load[t].key]
        BY <1>6, <2>1, PagesAssumption DEF Own, TypeOK, Done
    <2>3. page \notin Rekeyed => sending = key
        BY <1>6, <2>1, PagesAssumption DEF Own
    <2> QED
        BY <1>6, <2>1, <2>2, <2>3, Asked DEF Own, Current
<1>8. CASE TopUpConfirmed
    <2>1. /\ Done /\ load' = load /\ shown'.key = sending
        BY <1>8 DEF TopUpConfirmed
    <2>2. \A t \in Slots : load[t] # None /\ load[t].answer # None =>
             load[t].answer <= version'[load[t].key]
        BY <1>6, <2>1, PagesAssumption DEF Own, TypeOK, Done
    <2>3. page \notin Rekeyed => sending = key
        BY <1>6, <2>1, PagesAssumption DEF Own
    <2> QED
        BY <1>6, <2>1, <2>2, <2>3 DEF Own, Current
<1>9. CASE CommandFails
    BY <1>9 DEF CommandFails, Own, Current, screen
<1>10. ASSUME NEW k \in Keys, Change(k) PROVE Own'
    <2>1. /\ page' = page /\ key' = key /\ load' = load /\ shown' = shown /\ sending' = sending
          /\ version' = [version EXCEPT ![k] = @ + 1]
        BY <1>10 DEF Change, screen, user
    <2>2. \A t \in Slots : load[t] # None /\ load[t].answer # None =>
             load[t].answer <= version'[load[t].key]
        BY <2>1, PagesAssumption DEF Own, TypeOK
    <2> QED
        BY <2>1, <2>2 DEF Own, Current
<1>11. ASSUME NEW s \in Slots, Answer(s) PROVE Own'
    <2>1. /\ page' = page /\ key' = key /\ version' = version /\ shown' = shown
          /\ sending' = sending
        BY <1>11 DEF Answer, screen, user
    <2>2. version[load[s].key] \in Nat
        BY <1>11, AnswerEffect DEF TypeOK
    <2> QED
        BY <1>11, <2>1, <2>2, AnswerEffect DEF Own, Current
<1>12. ASSUME NEW s \in Slots, Take(s) PROVE Own'
    <2>1. /\ page' = page /\ key' = key /\ version' = version /\ sending' = sending
          /\ Free(s) /\ load[s] # None
        BY <1>12 DEF Take, Counts, user
    <2>2. shown' = shown \/ shown'.key = load[s].key
        BY <1>12 DEF Take
    <2> QED
        BY <2>1, <2>2, Freed DEF Own, Current
<1>13. ASSUME NEW s \in Slots, Fail(s) PROVE Own'
    <2>1. /\ page' = page /\ key' = key /\ version' = version /\ sending' = sending
          /\ Free(s) /\ load[s] # None
        BY <1>13 DEF Fail, Counts, user
    <2>2. shown' = shown \/ shown' = None \/ page = "volunteer"
        BY <1>13 DEF Fail, Blank
    <2> QED
        BY <2>1, <2>2, Freed DEF Own, Current
<1>14. ASSUME NEW s \in Slots, Drop(s) PROVE Own'
    <2>1. /\ page' = page /\ key' = key /\ version' = version /\ sending' = sending
          /\ Free(s) /\ shown' = shown
        BY <1>14 DEF Drop, user
    <2> QED
        BY <2>1, Freed DEF Own, Current
<1>15. CASE UNCHANGED vars
    BY <1>15 DEF vars, screen, user, Own, Current
<1> QED
    BY <1>1, <1>2, <1>3, <1>4, <1>5, <1>7, <1>8, <1>9, <1>10, <1>11, <1>12, <1>13,
       <1>14, <1>15 DEF Next

-----------------------------------------------------------------------------
(* What the last word says of the copy. *)

LEMMA ToldStep == TypeOK /\ Told /\ [Next]_vars => Told'
<1> SUFFICES ASSUME TypeOK, Told, [Next]_vars PROVE Told'
    OBVIOUS
<1>1. ASSUME NEW k \in Keys, NEW s \in Slots, Switch(s, k) PROVE Told'
    BY <1>1 DEF Switch, Rekey, Told, Patient, TypeOK
<1>2. ASSUME NEW k \in Keys, Type(k) PROVE Told'
    BY <1>2 DEF Type, Rekey, Told, Patient
<1>3. ASSUME NEW s \in Slots, Debounced(s) PROVE Told'
    BY <1>3 DEF Debounced, Told, Patient
<1>4. ASSUME NEW s \in Slots, Poll(s) PROVE Told'
    BY <1>4 DEF Poll, Told, Patient, screen
<1>5. CASE Send
    BY <1>5 DEF Send, Told, Patient, screen
<1>6. ASSUME NEW s \in Slots, Refetch(s) PROVE Told'
    BY <1>6 DEF Refetch, Done, Told, Patient
<1>7. CASE TopUpConfirmed
    BY <1>7 DEF TopUpConfirmed, Done, Told, Patient
<1>8. CASE CommandFails
    BY <1>8 DEF CommandFails, Told, Patient, screen
<1>9. ASSUME NEW k \in Keys, Change(k) PROVE Told'
    BY <1>9 DEF Change, Told, Patient, screen
<1>10. ASSUME NEW s \in Slots, Answer(s) PROVE Told'
    BY <1>10 DEF Answer, Told, Patient, screen
<1>11. ASSUME NEW s \in Slots, Take(s) PROVE Told'
    <2>1. load[s] \in Loads /\ page' = page
        BY <1>11 DEF Take, Counts, TypeOK
    <2>2. CASE load[s].answer = 0 /\ ~Unread(load[s])
        BY <1>11, <2>1, <2>2 DEF Take, Told, Patient
    <2>3. CASE load[s].answer # 0 /\ ~Unread(load[s])
        <3>1. /\ word' = "records" /\ gone' = FALSE
              /\ shown' = [key |-> load[s].key, version |-> load[s].answer]
            BY <1>11, <2>3 DEF Take
        <3>2. shown' \in Copies
            BY <1>11, <2>1, <3>1 DEF Take
        <3> QED
            BY <2>1, <2>3, <3>1, <3>2, PagesAssumption DEF Told, Patient
    <2>4. CASE Unread(load[s])
        <3>1. Refreshes(load[s]) /\ ~Missing(load[s])
            BY <2>4 DEF Unread, Missing
        <3>2. loading \in BOOLEAN /\ gone = FALSE
            BY <1>11 DEF Take, Counts, TypeOK
        <3>3. /\ loading' = (loading /\ Refreshes(load[s]))
              /\ gone' = (load[s].answer = 0 /\ Missing(load[s]))
              /\ shown' = shown /\ word' = word
            BY <1>11, <2>4 DEF Take
        <3>4. loading' = loading
            BY <3>1, <3>2, <3>3
        <3>5. gone' = gone
            BY <3>1, <3>2, <3>3
        <3> QED
            BY <2>1, <3>3, <3>4, <3>5 DEF Told, Patient
    <2> QED
        BY <2>2, <2>3, <2>4
<1>12. ASSUME NEW s \in Slots, Fail(s) PROVE Told'
    <2>1. CASE Refreshes(load[s])
        BY <1>12, <2>1 DEF Fail, Counts, Missing, Told, Patient, TypeOK
    <2>2. CASE ~Refreshes(load[s])
        BY <1>12, <2>2 DEF Fail, Told, Patient
    <2> QED
        BY <2>1, <2>2
<1>13. ASSUME NEW s \in Slots, Drop(s) PROVE Told'
    BY <1>13 DEF Drop, LoadingStays, Told, Patient
<1>14. CASE UNCHANGED vars
    BY <1>14 DEF vars, screen, Told, Patient
<1> QED
    BY <1>1, <1>2, <1>3, <1>4, <1>5, <1>6, <1>7, <1>8, <1>9, <1>10, <1>11, <1>12,
       <1>13, <1>14 DEF Next

-----------------------------------------------------------------------------
(* The last word is the key's. *)

\* Only two of the guarded pages can have a copy of another key.
LEMMA Elsewhere ==
    ASSUME Own, page \in Guarded, shown # None, shown.key # key
    PROVE  page \in {"escrow", "community"}
BY DEF Own

LEMMA LastWordStep == TypeOK /\ Own /\ LastWordIsKeys /\ [Next]_vars => LastWordIsKeys'
<1> SUFFICES ASSUME TypeOK, Own, Own', LastWordIsKeys, [Next]_vars,
                    page' \in Guarded, shown' # None, shown'.key # key'
             PROVE  due' \/ \E t \in Slots :
                       load'[t] # None /\ load'[t].mounted /\ load'[t].key = key'
    BY OwnStep DEF LastWordIsKeys
<1> DEFINE Coming(t) == load[t] # None /\ load[t].mounted /\ load[t].key = key
<1>1. page' \in {"escrow", "community"}
    BY DEF Own
<1>2. page' = page
    BY DEF Next, Switch, Type, Rekey, Debounced, Poll, Send, Refetch, Done,
           TopUpConfirmed, CommandFails, Change, Answer, Take, Fail, Drop, vars
<1>3. (shown # None /\ shown.key # key) => due \/ \E t \in Slots : Coming(t)
    BY <1>1, <1>2 DEF LastWordIsKeys
<1>4. ASSUME NEW k \in Keys, NEW s \in Slots, Switch(s, k)
      PROVE  \E t \in Slots : load'[t] # None /\ load'[t].mounted /\ load'[t].key = key'
    <2>1. key' = k
        BY <1>4 DEF Switch, Rekey
    <2> QED
        BY <1>4, <2>1, Switched
<1>5. ASSUME NEW k \in Keys, Type(k) PROVE due'
    BY <1>5 DEF Type
<1>6. ASSUME NEW s \in Slots, Debounced(s)
      PROVE  \E t \in Slots : load'[t] # None /\ load'[t].mounted /\ load'[t].key = key'
    <2>1. key' = key /\ key \in Keys /\ Ask(s, key, "effect")
        BY <1>6 DEF Debounced, TypeOK
    <2> QED
        BY <2>1, Asked
<1>7. ASSUME NEW s \in Slots, Poll(s)
      PROVE  \E t \in Slots : load'[t] # None /\ load'[t].mounted /\ load'[t].key = key'
    <2>1. key' = key /\ key \in Keys /\ Ask(s, key, "effect")
        BY <1>7 DEF Poll, TypeOK, user
    <2> QED
        BY <2>1, Asked
<1>8. ASSUME UNCHANGED <<key, due, shown, load>>
      PROVE  due' \/ \E t \in Slots :
                load'[t] # None /\ load'[t].mounted /\ load'[t].key = key'
    BY <1>3, <1>8
<1>9. /\ Send => UNCHANGED <<key, due, shown, load>>
      /\ \A k \in Keys : Change(k) => UNCHANGED <<key, due, shown, load>>
      /\ CommandFails => UNCHANGED <<key, due, shown, load>>
      /\ UNCHANGED vars => UNCHANGED <<key, due, shown, load>>
    BY DEF Send, Change, CommandFails, screen, user, vars
<1>10. ~TopUpConfirmed /\ \A s \in Slots : ~Refetch(s)
    BY <1>1, <1>2 DEF TopUpConfirmed, Refetch, Done, TypeOK
<1>11. ASSUME NEW s \in Slots, Answer(s)
       PROVE  due' \/ \E t \in Slots :
                 load'[t] # None /\ load'[t].mounted /\ load'[t].key = key'
    <2>1. UNCHANGED <<key, due, shown>>
        BY <1>11 DEF Answer, screen, user
    <2>2. \A t \in Slots : Coming(t) =>
             load'[t] # None /\ load'[t].mounted /\ load'[t].key = key'
        BY <1>11, <2>1, AnswerEffect
    <2> QED
        BY <1>3, <2>1, <2>2
<1>12. ASSUME NEW s \in Slots, Take(s) PROVE FALSE
    <2>1. /\ load[s] # None /\ load[s] \in Loads /\ load[s].mounted
          /\ key' = key /\ ~Refreshes(load[s])
        BY <1>1, <1>2, <1>12 DEF Take, Counts, TypeOK, user, Refreshes
    <2>2. load[s].key = key
        BY <1>1, <1>2, <2>1 DEF Own, Current
    <2>3. shown' = [key |-> load[s].key, version |-> load[s].answer]
        BY <1>1, <1>2, <1>12, <2>1 DEF Take, KeepsOnNull, Unread
    <2> QED
        BY <2>1, <2>2, <2>3
<1>13. ASSUME NEW s \in Slots, Fail(s) PROVE FALSE
    BY <1>1, <1>2, <1>13 DEF Fail, Blank, Refreshes
<1>14. ASSUME NEW s \in Slots, Drop(s)
       PROVE  due' \/ \E t \in Slots :
                 load'[t] # None /\ load'[t].mounted /\ load'[t].key = key'
    <2>1. UNCHANGED <<key, due, shown>> /\ Free(s)
        BY <1>14 DEF Drop, user
    <2>2. ~Coming(s)
        BY <1>1, <1>2, <1>14 DEF Drop, Counts, TypeOK
    <2>3. \A t \in Slots : Coming(t) =>
             load'[t] # None /\ load'[t].mounted /\ load'[t].key = key'
        BY <2>1, <2>2, Freed
    <2> QED
        BY <1>3, <2>1, <2>3
<1> QED
    BY <1>4, <1>5, <1>6, <1>7, <1>8, <1>9, <1>10, <1>11, <1>12, <1>13, <1>14 DEF Next

-----------------------------------------------------------------------------
(* The pages that ask once per key. *)

LEMMA OnceStep == TypeOK /\ Own /\ Once /\ [Next]_vars => Once'
<1> SUFFICES ASSUME TypeOK, TypeOK', Own, Own', Once, [Next]_vars, Asking'
             PROVE  /\ \A s, t \in Slots : Current(s)' /\ Current(t)' => s = t
                    /\ due' => \A s \in Slots : ~Current(s)'
                    /\ shown' # None =>
                         /\ shown'.version <= version'[shown'.key]
                         /\ \A s \in Slots :
                              Current(s)' /\ load'[s].key = shown'.key /\ load'[s].answer # None
                                => shown'.version <= load'[s].answer
    BY TypeStep, OwnStep DEF Once
<1> DEFINE Goal == /\ \A s, t \in Slots : Current(s)' /\ Current(t)' => s = t
                   /\ due' => \A s \in Slots : ~Current(s)'
                   /\ shown' # None =>
                        /\ shown'.version <= version'[shown'.key]
                        /\ \A s \in Slots :
                             Current(s)' /\ load'[s].key = shown'.key /\ load'[s].answer # None
                               => shown'.version <= load'[s].answer
<1>1. page' = page
    BY DEF Next, Switch, Type, Rekey, Debounced, Poll, Send, Refetch, Done,
           TopUpConfirmed, CommandFails, Change, Answer, Take, Fail, Drop, vars
<1>2. Asking /\ page \in {"profile", "community", "my-campaigns"}
    BY <1>1 DEF Asking
<1>3. /\ \A s, t \in Slots : Current(s) /\ Current(t) => s = t
      /\ due => \A s \in Slots : ~Current(s)
      /\ shown # None =>
           /\ shown.version <= version[shown.key]
           /\ \A s \in Slots :
                Current(s) /\ load[s].key = shown.key /\ load[s].answer # None
                  => shown.version <= load[s].answer
    BY <1>2 DEF Once
<1>4. shown # None => shown.key \in Keys /\ shown.version \in Nat
    BY DEF TypeOK
<1>5. ASSUME NEW k \in Keys, Type(k) PROVE Goal
    <2>1. version' = version /\ shown' = shown /\ load' = Unmounted
        BY <1>5 DEF Type, Rekey
    <2>2. \A t \in Slots : ~Current(t)'
        BY <2>1, Replaced DEF Current
    <2> QED
        BY <1>3, <2>1, <2>2
<1>6. ASSUME NEW s \in Slots, Debounced(s) PROVE Goal
    <2>1. /\ due /\ due' = FALSE /\ version' = version /\ shown' = shown
          /\ key \in Keys /\ Ask(s, key, "effect")
        BY <1>6 DEF Debounced, TypeOK
    <2>2. \A t \in Slots : Current(t)' => t = s
        BY <1>3, <2>1, Asked DEF Current
    <2>3. load'[s].answer = None
        BY <2>1, Asked
    <2> QED
        BY <1>3, <2>1, <2>2, <2>3
<1>7. ASSUME UNCHANGED <<version, shown, load, due>> PROVE Goal
    BY <1>3, <1>7 DEF Current
<1>8. /\ Send => UNCHANGED <<version, shown, load, due>>
      /\ CommandFails => UNCHANGED <<version, shown, load, due>>
      /\ UNCHANGED vars => UNCHANGED <<version, shown, load, due>>
    BY DEF Send, CommandFails, screen, user, vars
<1>9. /\ ~TopUpConfirmed
      /\ \A s \in Slots : ~Refetch(s) /\ ~Poll(s)
      /\ \A k \in Keys, s \in Slots : ~Switch(s, k)
    <2>1. ~TopUpConfirmed /\ \A s \in Slots : ~Poll(s)
        BY <1>2 DEF TopUpConfirmed, Poll
    <2>2. \A s \in Slots : ~Refetch(s)
        BY <1>2 DEF Refetch, Done, TypeOK
    <2>3. \A k \in Keys, s \in Slots : ~Switch(s, k)
        BY <1>2 DEF Switch, Rekey
    <2> QED
        BY <2>1, <2>2, <2>3
<1>10. ASSUME NEW k \in Keys, Change(k) PROVE Goal
    <2>1. /\ load' = load /\ shown' = shown /\ due' = due
          /\ version' = [version EXCEPT ![k] = @ + 1]
        BY <1>10 DEF Change, screen, user
    <2>2. \A j \in Keys : version[j] <= version'[j] /\ version[j] \in Nat /\ version'[j] \in Nat
        BY <2>1, PagesAssumption DEF TypeOK
    <2> QED
        BY <1>3, <1>4, <2>1, <2>2 DEF Current
<1>11. ASSUME NEW s \in Slots, Answer(s) PROVE Goal
    <2>1. version' = version /\ shown' = shown /\ due' = due
        BY <1>11 DEF Answer, screen, user
    <2>2. \A t \in Slots : Current(t)' = Current(t)
        BY <1>11, AnswerEffect DEF Current
    <2>3. \A t \in Slots : load[t] # None => load'[t].key = load[t].key
        BY <1>11, AnswerEffect
    <2>4. \A t \in Slots \ {s} : load'[t] = load[t]
        BY <1>11, AnswerEffect
    <2>5. load'[s].answer = version[load[s].key] /\ load'[s].key = load[s].key
        BY <1>11, AnswerEffect
    <2> QED
        BY <1>3, <2>1, <2>2, <2>3, <2>4, <2>5 DEF Current
<1>12. ASSUME NEW s \in Slots, Take(s) PROVE Goal
    <2>1. /\ load[s] # None /\ load[s] \in Loads /\ load[s].mounted /\ load[s].answer # None
          /\ version' = version /\ due' = due /\ Free(s) /\ ~Refreshes(load[s])
        BY <1>2, <1>12 DEF Take, Counts, TypeOK, user, Refreshes
    <2>2. Current(s)
        BY <1>2, <2>1 DEF Own, Current
    <2>3. \A t \in Slots : ~Current(t)'
        BY <1>3, <2>1, <2>2, Freed DEF Current
    <2>4. shown' = [key |-> load[s].key, version |-> load[s].answer]
        BY <1>2, <1>12, <2>1 DEF Take, KeepsOnNull, Unread
    <2>5. load[s].answer <= version[load[s].key]
        BY <2>1 DEF Own
    <2> QED
        BY <2>1, <2>3, <2>4, <2>5
<1>13. ASSUME NEW s \in Slots, Fail(s) PROVE Goal
    <2>1. due' = due /\ Free(s) /\ shown' = None
        BY <1>2, <1>13 DEF Fail, user, Refreshes, Blank
    <2>2. \A t \in Slots : Current(t)' => Current(t)
        BY <2>1, Freed DEF Current
    <2> QED
        BY <1>3, <2>1, <2>2
<1>14. ASSUME NEW s \in Slots, Drop(s) PROVE Goal
    <2>1. version' = version /\ shown' = shown /\ due' = due /\ Free(s)
        BY <1>14 DEF Drop, user
    <2>2. \A t \in Slots : Current(t)' => Current(t) /\ load'[t] = load[t]
        BY <2>1, Freed DEF Current
    <2> QED
        BY <1>3, <2>1, <2>2
<1> QED
    BY <1>5, <1>6, <1>7, <1>8, <1>9, <1>10, <1>11, <1>12, <1>13, <1>14 DEF Next

-----------------------------------------------------------------------------
(* The invariant and what follows from it. *)

LEMMA InitInv == Init => Inv
<1> SUFFICES ASSUME Init PROVE Inv
    OBVIOUS
<1>1. TypeOK
    BY InitType
<1>2. page # "community" => \E s \in Slots :
         load = [[t \in Slots |-> None] EXCEPT ![s] = Load(key, "effect")]
    BY DEF Init
<1>3. page = "community" => \A t \in Slots : load[t] = None
    BY DEF Init
<1>4. \A t \in Slots : load[t] # None => load[t] = Load(key, "effect")
    BY <1>2, <1>3
<1>5. \A s, t \in Slots : load[s] # None /\ load[t] # None => s = t
    BY <1>2, <1>3
<1>6. shown = None /\ sending = None /\ word = "silent" /\ gone = FALSE
    BY DEF Init
<1>7. Own
    BY <1>4, <1>6 DEF Own, Current, Load
<1>8. due => page = "community"
    BY <1>1 DEF TypeOK
<1>9. Once
    BY <1>3, <1>5, <1>6, <1>8 DEF Once, Asking, Current
<1>10. Patient => loading
    BY DEF Init, Patient
<1>11. Told
    BY <1>6, <1>10 DEF Told
<1>12. LastWordIsKeys
    BY <1>6 DEF LastWordIsKeys
<1> QED
    BY <1>1, <1>7, <1>9, <1>11, <1>12 DEF Inv

LEMMA InvStep == Inv /\ [Next]_vars => Inv'
BY TypeStep, OwnStep, OnceStep, ToldStep, LastWordStep DEF Inv

LEMMA Invariant == Spec => []Inv
BY InitInv, InvStep, PTL DEF Spec

\* A guarded page shows what belongs to another search or campaign only as
\* long as its own is still to come (the mounted and active flags of escrow
\* and community).
THEOREM LastWordStands == Spec => []LastWordIsKeys
<1>1. Inv => LastWordIsKeys
    BY DEF Inv
<1> QED
    BY <1>1, Invariant, PTL

\* Where a page waits for its answer before it says that there is nothing, an
\* answer for this very key said so or a load for it failed (the loading
\* flags of proof, escrow, profile, certificate and detail/[slug]).
THEOREM NothingIsAnAnswer == Spec => []AbsenceIsAnswered
<1>1. Inv => AbsenceIsAnswered
    <2> SUFFICES ASSUME Inv,
                        NEW part \in DOMAIN View \cap
                          {"feed", "documents", "flow", "profile", "gallery", "campaign"},
                        View[part] = "nothing"
                 PROVE  word \in {"empty", "failed"}
        BY DEF AbsenceIsAnswered
    <2>1. TypeOK /\ Told
        BY DEF Inv
    <2>2. ASSUME Patient, Awaited(Rows) = "nothing"
          PROVE  word \in {"empty", "failed"}
        BY <2>1, <2>2 DEF Awaited, Rows, Told, TypeOK
    <2>3. OrSeeded # "nothing"
        BY DEF OrSeeded, Rows
    <2>4. CASE page = "proof"
        <3>1. View = ProofView
            BY <2>4 DEF View
        <3> QED
            BY <2>2, <2>4, <3>1 DEF ProofView, Patient
    <2>5. CASE page = "escrow"
        <3>1. View = EscrowView
            BY <2>5 DEF View
        <3> QED
            BY <2>2, <2>5, <3>1 DEF EscrowView, Patient
    <2>6. CASE page = "profile"
        <3>1. View = ProfileView
            BY <2>6 DEF View
        <3> QED
            BY <2>2, <2>6, <3>1 DEF ProfileView, Patient
    <2>7. CASE page = "certificate"
        <3>1. View = GalleryView
            BY <2>7 DEF View
        <3> QED
            BY <2>2, <2>7, <3>1 DEF GalleryView, Patient
    <2>8. CASE page = "card"
        <3>1. View = CardView
            BY <2>8 DEF View
        <3> QED
            BY <2>3, <3>1 DEF CardView
    <2>9. CASE page \in {"slug", "drive"}
        <3>1. View = DetailView
            BY <2>9 DEF View
        <3>2. DetailView.campaign = "nothing"
            BY <3>1 DEF DetailView
        <3>3. CASE gone
            BY <2>1, <2>9, <3>3 DEF Told, Patient, TypeOK
        <3>4. CASE ~gone /\ page = "drive"
            BY <2>2, <3>2, <3>4 DEF DetailView, Patient
        <3>5. CASE ~gone /\ page = "slug"
            BY <2>3, <3>2, <3>5 DEF DetailView
        <3> QED
            BY <2>9, <3>3, <3>4, <3>5
    <2>10. CASE page \in {"home", "discover", "community", "my-campaigns",
                          "volunteer", "voting", "donor"}
        <3>1. DOMAIN View \cap
                {"feed", "documents", "flow", "profile", "gallery", "campaign"} = {}
            BY <2>10 DEF View, HomeView, DiscoverView, CommunityView, MyDrivesView,
                         OpportunitiesView, VotingView, DonorView
        <3> QED
            BY <3>1
    <2> QED
        BY <2>1, <2>4, <2>5, <2>6, <2>7, <2>8, <2>9, <2>10 DEF TypeOK
<1> QED
    BY <1>1, Invariant, PTL

\* A search that is repeated, and every other page that asks once per key,
\* never brings back an older answer than the one on the screen (profile,
\* community, my-campaigns).
THEOREM SearchNeverOlder == Spec => NeverOlder
<1> DEFINE Step == (page \in OneShot \ {"donor"} /\ shown # None /\ shown' # None)
                      => (shown'.key = shown.key => shown'.version >= shown.version)
<1>1. Inv /\ [Next]_vars => [Step]_vars
    <2> SUFFICES ASSUME Inv, [Next]_vars,
                        page \in {"profile", "community", "my-campaigns"},
                        shown # None, shown' # None, shown'.key = shown.key
                 PROVE  shown'.version >= shown.version
        BY DEF Step
    <2>1. TypeOK /\ Own /\ Once /\ Asking
        BY DEF Inv, Asking
    <2>2. shown.version \in Nat
        BY <2>1 DEF TypeOK
    <2>3. ASSUME NEW s \in Slots, Take(s) PROVE shown'.version >= shown.version
        <3>1. /\ load[s] # None /\ load[s] \in Loads /\ load[s].mounted
              /\ load[s].answer # None /\ ~Refreshes(load[s])
            BY <2>1, <2>3 DEF Take, Counts, TypeOK, Refreshes
        <3>2. Current(s)
            BY <2>1, <3>1 DEF Own, Current
        <3>3. shown' = [key |-> load[s].key, version |-> load[s].answer]
            BY <2>3, <3>1 DEF Take, KeepsOnNull, Unread
        <3> QED
            BY <2>1, <2>2, <3>1, <3>2, <3>3 DEF Once
    <2>4. ASSUME NEW s \in Slots, Fail(s) PROVE FALSE
        BY <2>4 DEF Fail, Refreshes, Blank
    <2>5. ~TopUpConfirmed
        BY DEF TopUpConfirmed
    <2>6. ASSUME shown' = shown PROVE shown'.version >= shown.version
        BY <2>2, <2>6
    <2> QED
        BY <2>3, <2>4, <2>5, <2>6 DEF Next, Switch, Type, Rekey, Debounced, Poll, Send,
           Refetch, CommandFails, Change, Answer, Drop, vars, screen
<1> QED
    BY <1>1, Invariant, PTL DEF Spec, NeverOlder
=============================================================================
