----------------------------- MODULE WebSession ------------------------------
(***************************************************************************)
(* Who is signed in: the auth store, the axios interceptors, the login and *)
(* admin pages, the two gates and the navigation, in several tabs of one   *)
(* browser.                                                                *)
(*                                                                         *)
(* A session is kept in four places.  localStorage holds the token that    *)
(* every request carries (lingap_token) and, under lingap_auth, the user   *)
(* and the same token once more; all tabs share these.  Each tab has its   *)
(* own copy of the store, read from lingap_auth when the tab loads and     *)
(* never again.  The server only knows whether a token is still valid.     *)
(***************************************************************************)
EXTENDS Integers, FiniteSets

CONSTANTS
    Tabs,
    Tokens,      \* bound: the sessions that are opened
    RoleOf,      \* per token: the role of its user
    NoToken      \* no token

ASSUME SessionAssumption ==
    /\ RoleOf \in [Tokens -> {"donor", "beneficiary", "staff", "admin"}]
    /\ NoToken \notin Tokens

VARIABLES
    token,      \* localStorage: lingap_token
    auth,       \* localStorage: lingap_auth, by its token
    store,      \* per tab: the store in memory, by its token
    at,         \* per tab: the page
    asking,     \* per tab: a login is on its way
    call,       \* per tab: the request on its way, "free" if none
    session,    \* per token: what the server would say
    replaced    \* history: tabs since whose last load another tab signed in or out

storage     == <<token, auth>>
tabs        == <<store, at, asking, call>>
sessionVars == <<storage, tabs, session, replaced>>

\* "marketing": the pages of the marketing layout that need a user; "staff":
\* the pages in AuthenticatedShell.
Private == {"marketing", "staff"}
Public  == {"public", "admin"}
Routes  == Private \cup Public \cup {"login"}

\* "leaving": window.location.href is set, the next page not loaded yet.

SessionInit ==
    /\ token = NoToken
    /\ auth = NoToken
    /\ store = [t \in Tabs |-> NoToken]
    /\ at = [t \in Tabs |-> "public"]
    /\ asking = [t \in Tabs |-> FALSE]
    /\ call = [t \in Tabs |-> "free"]
    /\ session = [k \in Tokens |-> "unopened"]
    /\ replaced = {}

-----------------------------------------------------------------------------
(* The store. *)

SignedIn(t) == store[t] # NoToken

IsAdmin(t) == SignedIn(t) /\ RoleOf[store[t]] = "admin"

\* lingap_token is not written: no action uses this.
SetAuthOnly(t, k) ==
    /\ auth' = k
    /\ store' = [store EXCEPT ![t] = k]
    /\ replaced' = (replaced \ {t}) \cup (Tabs \ {t})
    /\ UNCHANGED token

SetAuth(t, k) ==
    /\ token' = k
    /\ auth' = k
    /\ store' = [store EXCEPT ![t] = k]
    /\ replaced' = (replaced \ {t}) \cup (Tabs \ {t})

\* lingap_token is not removed: no action uses this.
ClearAuthOnly(t) ==
    /\ auth' = NoToken
    /\ store' = [store EXCEPT ![t] = NoToken]
    /\ replaced' = (replaced \ {t}) \cup (Tabs \ {t})
    /\ UNCHANGED token

ClearAuth(t) ==
    /\ token' = NoToken
    /\ auth' = NoToken
    /\ store' = [store EXCEPT ![t] = NoToken]
    /\ replaced' = (replaced \ {t}) \cup (Tabs \ {t})

\* onRehydrateStorage, when a tab loads its page: the persisted token is
\* written back.  What the tab was waiting for is gone.
Rehydrate(t) ==
    /\ store' = [store EXCEPT ![t] = auth]
    /\ token' = IF auth # NoToken THEN auth ELSE token
    /\ at' = IF at[t] = "leaving" THEN [at EXCEPT ![t] = "login"] ELSE at
    /\ asking' = [asking EXCEPT ![t] = FALSE]
    /\ call' = [call EXCEPT ![t] = "free"]
    /\ replaced' = replaced \ {t}
    /\ UNCHANGED <<auth, session>>

\* The response interceptor, on 401: lingap_token goes, lingap_auth stays, and
\* until the login page has loaded other tabs find no token.
Unauthorized(t) ==
    /\ token' = NoToken
    /\ at' = [at EXCEPT ![t] = "leaving"]
    /\ asking' = [asking EXCEPT ![t] = FALSE]
    /\ call' = [call EXCEPT ![t] = "free"]
    /\ UNCHANGED <<auth, store, session, replaced>>

-----------------------------------------------------------------------------
(* Signing in and out. *)

RouteForRole(k) ==
    CASE RoleOf[k] \in {"admin", "staff"} -> "staff"
      [] RoleOf[k] = "beneficiary"        -> "public"
      [] RoleOf[k] = "donor"              -> "marketing"

\* Registering is followed by a login of its own.  The admin page has a form
\* as long as nobody with that role is signed in.
LoginOffered(t) ==
    \/ at[t] = "login"
    \/ at[t] = "admin" /\ ~IsAdmin(t)

Login(t) ==
    /\ LoginOffered(t)
    /\ ~asking[t]
    /\ asking' = [asking EXCEPT ![t] = TRUE]
    /\ UNCHANGED <<storage, store, at, call, session, replaced>>

\* The user may have left the form meanwhile; the answer is used all the same,
\* and only the login page takes its user elsewhere.
LoginAccepted(t, k) ==
    /\ asking[t]
    /\ session[k] = "unopened"
    /\ session' = [session EXCEPT ![k] = "valid"]
    /\ SetAuth(t, k)
    /\ asking' = [asking EXCEPT ![t] = FALSE]
    /\ at' = IF at[t] = "login" THEN [at EXCEPT ![t] = RouteForRole(k)] ELSE at
    /\ UNCHANGED call

\* A wrong password is a 401 like any other.
LoginRefused(t) ==
    /\ asking[t]
    /\ Unauthorized(t)

LoginLost(t) ==
    /\ asking[t]
    /\ asking' = [asking EXCEPT ![t] = FALSE]
    /\ UNCHANGED <<storage, store, at, call, session, replaced>>

\* TopNav stays where it is, and the gate does the rest; the sidebar leaves.
SignOut(t) ==
    /\ SignedIn(t)
    /\ at[t] \notin {"login", "leaving"}
    /\ ClearAuth(t)
    /\ at' = IF at[t] = "staff" THEN [at EXCEPT ![t] = "login"] ELSE at
    /\ UNCHANGED <<asking, call, session>>

-----------------------------------------------------------------------------
(* Pages. *)

GoTo(t, p) ==
    /\ at' = [at EXCEPT ![t] = p]
    /\ UNCHANGED <<storage, store, asking, call, session, replaced>>

\* A link; the gates ask only whether somebody is signed in, not who.
Navigate(t, p) ==
    /\ at[t] \notin {p, "leaving"}
    /\ GoTo(t, p)

\* The effects of MarketingAuthGate and AuthenticatedShell.
Gate(t) ==
    /\ at[t] \in Private
    /\ ~SignedIn(t)
    /\ GoTo(t, "login")

\* The login page's effect.
AlreadySignedIn(t) ==
    /\ at[t] = "login"
    /\ SignedIn(t)
    /\ GoTo(t, RouteForRole(store[t]))

-----------------------------------------------------------------------------
(* Requests that need a user.  The others are answered whoever asks: also  *)
(* those that the private pages of a campaign repeat every ten seconds.    *)

\* The gates show nothing of a private page to nobody.
Asks(t) ==
    \/ at[t] \in Private /\ SignedIn(t)
    \/ at[t] = "admin" /\ IsAdmin(t)

\* The request interceptor.
Request(t) ==
    /\ Asks(t)
    /\ call[t] = "free"
    /\ call' = [call EXCEPT ![t] = token]
    /\ UNCHANGED <<storage, store, at, asking, session, replaced>>

Answered(t) ==
    /\ call[t] \in Tokens
    /\ session[call[t]] = "valid"
    /\ call' = [call EXCEPT ![t] = "free"]
    /\ UNCHANGED <<storage, store, at, asking, session, replaced>>

Refused(t) ==
    /\ call[t] # "free"
    /\ call[t] \in Tokens => session[call[t]] = "expired"
    /\ Unauthorized(t)

Expire(k) ==
    /\ session[k] = "valid"
    /\ session' = [session EXCEPT ![k] = "expired"]
    /\ UNCHANGED <<storage, tabs, replaced>>

-----------------------------------------------------------------------------

SessionNext ==
    \/ \E t \in Tabs :
          \/ Rehydrate(t)
          \/ Login(t) \/ LoginRefused(t) \/ LoginLost(t) \/ SignOut(t)
          \/ \E k \in Tokens : LoginAccepted(t, k)
          \/ \E p \in Routes : Navigate(t, p)
          \/ Gate(t) \/ AlreadySignedIn(t)
          \/ Request(t) \/ Answered(t) \/ Refused(t)
    \/ \E k \in Tokens : Expire(k)

SessionSpec == SessionInit /\ [][SessionNext]_sessionVars

\* Effects run, and requests are answered in the end; nobody has to ask, sign
\* in, move or reload.
FairSession ==
    /\ SessionSpec
    /\ \A t \in Tabs : /\ WF_sessionVars(Gate(t))
                       /\ WF_sessionVars(Answered(t) \/ Refused(t))

-----------------------------------------------------------------------------
(* Properties. *)

\* Every part of the state has its declared shape, and a token is kept only if
\* the server has given it.
SessionTypeOK ==
    /\ token \in Tokens \cup {NoToken}
    /\ auth \in Tokens \cup {NoToken}
    /\ store \in [Tabs -> Tokens \cup {NoToken}]
    /\ at \in [Tabs -> Routes \cup {"leaving"}]
    /\ asking \in [Tabs -> BOOLEAN]
    /\ call \in [Tabs -> Tokens \cup {NoToken, "free"}]
    /\ session \in [Tokens -> {"unopened", "valid", "expired"}]
    /\ replaced \subseteq Tabs

\* The two copies in localStorage never name two sessions: the token requests
\* carry is the one lingap_auth would restore, or is missing, whichever tabs
\* sign in and out, reload, or are answered with 401 in between.
StoredTogether == token # NoToken => token = auth

\* What a tab sends is what it shows, as long as no other tab has signed in or
\* out since it loaded: then its requests carry its own user's token or, after
\* somebody else's 401, none.  (A tab whose session was replaced shows one user
\* and acts as another.)
SendsWhatItShows ==
    \A t \in Tabs \ replaced : store[t] = auth /\ token \in {store[t], NoToken}

-----------------------------------------------------------------------------
(* What does not hold. *)

\* Signing out in one tab takes the others off the private pages, unless
\* somebody signs in again: a tab that asks for nothing that needs a user stays
\* where it is, with the user it has in memory, and goes on polling.
SignOutReachesTabs ==
    \A t \in Tabs :
        (at[t] = "marketing") ~> (at[t] # "marketing" \/ auth # NoToken)
=============================================================================
