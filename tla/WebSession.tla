----------------------------- MODULE WebSession -----------------------------
(***************************************************************************)
(* The session of one browser tab of the web application: its Keycloak     *)
(* client, the phase the application shows, the automatic logins of the    *)
(* protected routes, the answers of the API that end a session, and the    *)
(* page loads between which only the count of automatic logins survives    *)
(* (AuthProvider.tsx, App.tsx, api-client.ts, apollo-client.ts).           *)
(*                                                                         *)
(* A call that sends the browser elsewhere does so later (Leaves): until   *)
(* then the page works on, and the last such call wins.                    *)
(***************************************************************************)
EXTENDS Integers

CONSTANTS
  Routes,           \* the routes of the application, "home" among them
  Claims,           \* the sets of roles the token of an account may claim
  MaxAutoAttempts,  \* MAX_AUTO_ATTEMPTS (2 in the source)
  MaxAsked,         \* bound: requests to the API under way at once
  Nobody

ASSUME SessionAssumption ==
  /\ "home" \in Routes /\ Claims \subseteq SUBSET STRING
  /\ MaxAutoAttempts \in Nat /\ MaxAsked \in Nat
  /\ Nobody \notin {"ADMIN", "MANAGER", "USER"}

VARIABLES
  at,        \* "app" or "keycloak": what the tab shows
  route,     \* the path in the address bar
  attempts,  \* autoAttempts, which sessionStorage keeps over page loads
  loaded,    \* what a page load resets: AuthProvider's state and pending calls
  session,   \* the role of the account that has a session at Keycloak, or None
  autos,     \* history: pages left for an automatic login that had no session,
             \*   since the user last did something or a session was had
  signedOut, \* history: the user signed out and has not signed in again
  cutOff     \* history: something kept the sign-out from ending the session

sessionVars == <<at, route, attempts, loaded, session, autos, signedOut, cutOff>>

Roles == {"ADMIN", "MANAGER", "USER"}
Refreshing == {"expired", "unauthorized"}  \* who awaits updateToken

DeriveRole(claims) ==
  IF "admin" \in claims THEN "ADMIN" ELSE IF "manager" \in claims THEN "MANAGER" ELSE "USER"

AllowedRoles(r) ==
  CASE r = "admin" -> {"ADMIN"}
    [] r = "manager" -> {"ADMIN", "MANAGER"}
    [] OTHER -> Roles

(* A page load, without and with an error that Keycloak put into the hash: *)
(* then no Keycloak instance is made.  rejected is a history: a login of   *)
(* this page was rejected.                                                 *)
Opened ==
  [phase |-> "checking", user |-> Nobody, keycloak |-> "starting", token |-> Nobody, timedOut |-> FALSE,
   asked |-> 0, refreshes |-> {}, clearing |-> FALSE, leaving |-> "no", fresh |-> TRUE,
   rejected |-> FALSE]
OpenedWithError == [Opened EXCEPT !.phase = "error", !.keycloak = "none"]

SessionInit ==
  /\ at = "app" /\ route \in Routes /\ attempts = 0
  /\ loaded = Opened
  /\ session \in {Nobody} \cup {DeriveRole(c) : c \in Claims}
  /\ autos = 0 /\ signedOut = FALSE /\ cutOff = FALSE

InApp == at = "app"
Cleared(p, phase) == [p EXCEPT !.phase = phase, !.user = Nobody]

(* syncFromInstance *)
Sync(p) ==
  /\ loaded' = [p EXCEPT !.phase = "authenticated", !.user = session, !.token = session, !.fresh = FALSE]
  /\ attempts' = 0 /\ autos' = 0

-----------------------------------------------------------------------------
(* Keycloak's init and the time limit that is raced against it *)

InitSucceeds ==
  /\ InApp /\ loaded.keycloak = "starting" /\ session # Nobody
  /\ Sync([loaded EXCEPT !.keycloak = "ready"])
  /\ UNCHANGED <<at, route, session, signedOut, cutOff>>

InitEnds(phase) ==
  /\ InApp /\ loaded.keycloak = "starting"
  /\ loaded' = LET p == [loaded EXCEPT !.keycloak = "ready"]
             IN IF loaded.timedOut THEN p ELSE Cleared(p, phase)
  /\ UNCHANGED <<at, route, attempts, session, autos, signedOut, cutOff>>

(* Also of a session there is: the browser keeps the silent check from it, *)
(* or init is answered without a token.                                    *)
InitFindsNobody == InitEnds("anonymous")
InitFails == InitEnds("error")

TimedOutUnseen(p) == [p EXCEPT !.timedOut = TRUE]
TimedOut(p) == [Cleared(p, "error") EXCEPT !.timedOut = TRUE]

InitTimesOut ==
  /\ InApp /\ loaded.keycloak = "starting" /\ ~loaded.timedOut
  /\ loaded' = TimedOut(loaded)
  /\ UNCHANGED <<at, route, attempts, session, autos, signedOut, cutOff>>

-----------------------------------------------------------------------------
(* login and the guard of the protected routes *)

(* A call of Keycloak's login that is rejected is only logged.             *)
Login(p, by) == [p EXCEPT !.phase = "authenticating", !.leaving = by]
LoginRejected(p) == [p EXCEPT !.phase = "authenticating", !.rejected = TRUE]

LogsIn(by) ==
  \/ loaded' = Login(loaded, by) /\ cutOff' = (cutOff \/ (signedOut /\ loaded.leaving = "logout"))
  \/ loaded' = LoginRejected(loaded) /\ UNCHANGED cutOff

(* The buttons; after an error in the hash login finds no instance and     *)
(* does nothing.                                                           *)
SignIn ==
  /\ InApp /\ loaded.phase \notin {"checking", "authenticating"}
  /\ loaded.user = Nobody /\ loaded.keycloak # "none"
  /\ LogsIn("login") /\ autos' = 0
  /\ UNCHANGED <<at, route, attempts, session, signedOut>>

ShouldAutoOnceMore == route # "home" /\ loaded.phase = "anonymous" /\ attempts <= MaxAutoAttempts
ShouldAuto == route # "home" /\ loaded.phase = "anonymous" /\ attempts < MaxAutoAttempts

RegisterUncounted == attempts' = attempts
RegisterAutoAttempt == attempts' = attempts + 1

AutoLoginGuard ==
  /\ InApp /\ ShouldAuto
  /\ RegisterAutoAttempt
  /\ LogsIn("auto")
  /\ UNCHANGED <<at, route, session, autos, signedOut>>

RequireRole ==
  /\ InApp /\ loaded.user # Nobody /\ loaded.user \notin AllowedRoles(route)
  /\ route' = "home"
  /\ UNCHANGED <<at, attempts, loaded, session, autos, signedOut, cutOff>>

Navigate ==
  /\ InApp /\ route' \in Routes \ {route} /\ autos' = 0
  /\ UNCHANGED <<at, attempts, loaded, session, signedOut, cutOff>>

-----------------------------------------------------------------------------
(* Requests to the API, the refresh of the token, and logout *)

Ask ==
  /\ InApp /\ loaded.user # Nobody /\ loaded.asked < MaxAsked
  /\ loaded' = [loaded EXCEPT !.asked = @ + 1]
  /\ UNCHANGED <<at, route, attempts, session, autos, signedOut, cutOff>>

Answer ==
  /\ InApp /\ loaded.asked > 0
  /\ loaded' = [loaded EXCEPT !.asked = @ - 1]
  /\ UNCHANGED <<at, route, attempts, session, autos, signedOut, cutOff>>

(* 401, or 403 of the REST endpoints: emitUnauthorized *)
ApiRefuses ==
  /\ InApp /\ loaded.asked > 0
  /\ loaded' = [loaded EXCEPT !.asked = @ - 1, !.refreshes = @ \cup {"unauthorized"}]
  /\ UNCHANGED <<at, route, attempts, session, autos, signedOut, cutOff>>

TokenExpires ==
  /\ InApp /\ loaded.token # Nobody /\ "expired" \notin loaded.refreshes
  /\ loaded' = [loaded EXCEPT !.refreshes = @ \cup {"expired"}]
  /\ UNCHANGED <<at, route, attempts, session, autos, signedOut, cutOff>>

Logout(p) == loaded' = [Cleared(p, "anonymous") EXCEPT !.clearing = TRUE] /\ attempts' = 0

Refreshed(w) == [loaded EXCEPT !.refreshes = @ \ {w}]

RefreshSucceeds(w) ==
  /\ InApp /\ w \in loaded.refreshes /\ loaded.token # Nobody /\ session # Nobody
  /\ Sync(Refreshed(w))
  /\ cutOff' = (cutOff \/ signedOut)
  /\ UNCHANGED <<at, route, session, signedOut>>

(* updateToken finds the token good for a while yet, or fails. *)
RefreshIsOfNoUse(w) ==
  /\ InApp /\ w \in loaded.refreshes
  /\ \/ w = "expired" /\ loaded.token # Nobody /\ loaded' = Refreshed(w) /\ UNCHANGED attempts
     \/ w = "expired" /\ loaded' = Cleared(Refreshed(w), "anonymous") /\ UNCHANGED attempts
     \/ w = "unauthorized" /\ Logout(Refreshed(w))
  /\ UNCHANGED <<at, route, session, autos, signedOut, cutOff>>

(* The client learns that the session is over (onAuthLogout). *)
OnAuthLogout ==
  /\ InApp /\ loaded.token # Nobody /\ session = Nobody
  /\ loaded' = [Cleared(loaded, "anonymous") EXCEPT !.token = Nobody]
  /\ UNCHANGED <<at, route, attempts, session, autos, signedOut, cutOff>>

UserLogsOut ==
  /\ InApp /\ loaded.user # Nobody
  /\ Logout(loaded) /\ autos' = 0
  /\ signedOut' = TRUE /\ cutOff' = FALSE
  /\ UNCHANGED <<at, route, session>>

LogoutRejected(p) == [p EXCEPT !.clearing = FALSE]
LoggedOut(p) == [p EXCEPT !.clearing = FALSE, !.leaving = "logout"]

(* Nobody catches what clearStore and Keycloak's logout may throw.         *)
StoreCleared ==
  /\ InApp /\ loaded.clearing
  /\ \/ loaded' = LoggedOut(loaded) /\ UNCHANGED cutOff
     \/ loaded' = LogoutRejected(loaded) /\ cutOff' = (cutOff \/ signedOut)
  /\ UNCHANGED <<at, route, attempts, session, autos, signedOut>>

-----------------------------------------------------------------------------
(* The browser: it leaves, comes back, or loads the page again *)

Leaves ==
  /\ InApp /\ loaded.leaving # "no"
  /\ loaded' = Opened
  /\ IF loaded.leaving = "logout"
     THEN session' = Nobody /\ route' = "home" /\ UNCHANGED <<at, autos, cutOff>>
     ELSE /\ at' = "keycloak" /\ UNCHANGED <<session, route>>
          /\ autos' = IF loaded.leaving = "auto" /\ loaded.fresh THEN autos + 1 ELSE autos
          /\ cutOff' = (cutOff \/ (signedOut /\ loaded.clearing))
  /\ UNCHANGED <<attempts, signedOut>>

Reload ==
  /\ InApp /\ loaded' = Opened
  /\ cutOff' = (cutOff \/ (signedOut /\ (loaded.clearing \/ loaded.leaving = "logout")))
  /\ UNCHANGED <<at, route, attempts, session, autos, signedOut>>

(* With prompt "login" Keycloak asks for the credentials in any case. *)
SignsIn ==
  /\ at = "keycloak" /\ at' = "app"
  /\ \E c \in Claims : session' = DeriveRole(c)
  /\ autos' = 0 /\ signedOut' = FALSE /\ cutOff' = FALSE
  /\ UNCHANGED <<route, attempts, loaded>>

ComesBackWithError ==
  /\ at = "keycloak" /\ at' = "app"
  /\ loaded' = OpenedWithError /\ attempts' = MaxAutoAttempts
  /\ UNCHANGED <<route, session, autos, signedOut, cutOff>>

GoesBack ==
  /\ at = "keycloak" /\ at' = "app"
  /\ UNCHANGED <<route, attempts, loaded, session, autos, signedOut, cutOff>>

SessionEnds ==
  /\ session # Nobody /\ session' = Nobody
  /\ UNCHANGED <<at, route, attempts, loaded, autos, signedOut, cutOff>>

UserStep == SignIn \/ Navigate \/ UserLogsOut \/ Reload \/ SignsIn \/ GoesBack
KeycloakStep == InitSucceeds \/ InitFindsNobody \/ InitFails \/ OnAuthLogout \/ ComesBackWithError \/ SessionEnds
ApiStep == Ask \/ Answer \/ ApiRefuses
RefreshStep == \E w \in Refreshing : RefreshSucceeds(w) \/ RefreshIsOfNoUse(w)
PageStep == InitTimesOut \/ AutoLoginGuard \/ RequireRole \/ TokenExpires \/ StoreCleared \/ Leaves

SessionNext == UserStep \/ KeycloakStep \/ ApiStep \/ RefreshStep \/ PageStep

(* What the page has begun it does: the time limit passes, effects and     *)
(* promises of the page run, and the browser follows a redirect; strongly  *)
(* fair, as nobody reloads or navigates each time just before they do.     *)
Fairness ==
  /\ WF_sessionVars(InitTimesOut) /\ SF_sessionVars(AutoLoginGuard)
  /\ SF_sessionVars(StoreCleared) /\ SF_sessionVars(Leaves)

SessionSpec == SessionInit /\ [][SessionNext]_sessionVars /\ Fairness
-----------------------------------------------------------------------------
Phases == {"checking", "authenticating", "authenticated", "anonymous", "error"}
PageLoads ==
  [phase : Phases, user : Roles \cup {Nobody}, keycloak : {"none", "starting", "ready"},
   token : Roles \cup {Nobody}, timedOut : BOOLEAN, asked : 0..MaxAsked,
   refreshes : SUBSET Refreshing, clearing : BOOLEAN,
   leaving : {"no", "login", "auto", "logout"}, fresh : BOOLEAN, rejected : BOOLEAN]

TypeOK ==
  /\ at \in {"app", "keycloak"} /\ route \in Routes /\ attempts \in 0..MaxAutoAttempts
  /\ loaded \in PageLoads /\ session \in Roles \cup {Nobody}
  /\ (loaded.phase = "authenticated") <=> (loaded.user # Nobody)
  /\ autos \in Nat /\ signedOut \in BOOLEAN /\ cutOff \in BOOLEAN

(* The automatic logins do not loop: over however many page loads, at most *)
(* MAX_AUTO_ATTEMPTS pages without a session are left for Keycloak before  *)
(* the user does something (useAutoLoginGuard, registerAutoAttempt).       *)
AutoLoginsBounded == autos <= MaxAutoAttempts

(* Who signed out is not shown as signed in until they sign in again, on   *)
(* this page or a later one, unless something cut the sign-out off: the    *)
(* automatic login of the protected route it was done on or the user's own *)
(* click overtook it, a token refresh was under way, the page was loaded   *)
(* again before Keycloak heard of it, or logout was rejected.              *)
SignedOutStaysOut == signedOut /\ loaded.user # Nobody => cutOff

(* No page is left checking, opening Keycloak or waiting for the automatic *)
(* login: the time limit of the session check (withTimeout) and the guard  *)
(* lead to a session, to a page the user can act on, or to Keycloak.  The  *)
(* one exception is a login that was rejected: the guard and the button    *)
(* only log that, and the page opens Keycloak until it is loaded again.    *)
Settled ==
  \/ loaded.phase \in {"authenticated", "error"}
  \/ loaded.phase = "anonymous" /\ (route = "home" \/ attempts = MaxAutoAttempts)
LoginLost == loaded.rejected /\ loaded.phase = "authenticating"
SessionSettles == InApp ~> (Settled \/ LoginLost \/ ~InApp)
=============================================================================
