---------------------------- MODULE WebAppProofs ----------------------------
(***************************************************************************)
(* What the web application promises: the session of a tab (WebSession),   *)
(* for any routes, claims and limit of automatic logins, and what the API  *)
(* and its pages promise about people (TeamPages), for any sets of         *)
(* projects, accounts and administrators, and any bound on what is clicked *)
(* and requested.                                                          *)
(***************************************************************************)
EXTENDS WebSession, TeamPages, TLAPS

(* The automatic logins do not loop.  The count in sessionStorage is reset *)
(* by every logout, so that it is not by itself a bound: what makes it one *)
(* is that a page that never had a session cannot log out, having no user, *)
(* no token and no request under way (NothingYet), and that it counted     *)
(* each login it was left for (AutosCounted).                              *)
Matches(p) == p \in PageLoads /\ ((p.phase = "authenticated") <=> (p.user # Nobody))
NothingYet(p) == p.fresh => p.user = Nobody /\ p.token = Nobody /\ p.asked = 0 /\ p.refreshes = {}
Good(p) == Matches(p) /\ NothingYet(p)

AutoSent(p) == IF p.leaving = "auto" /\ p.fresh THEN 1 ELSE 0
AutosCounted(p, a, n) == (~p.fresh => n = 0) /\ n + AutoSent(p) <= a

SessionRest ==
  /\ at \in {"app", "keycloak"} /\ route \in Routes /\ attempts \in 0..MaxAutoAttempts
  /\ session \in Roles \cup {Nobody} /\ autos \in Nat /\ signedOut \in BOOLEAN /\ cutOff \in BOOLEAN
Inv == SessionRest /\ Good(loaded) /\ AutosCounted(loaded, attempts, autos)

(* What the operators on pages make of a page.                             *)
LEMMA OpenedIsGood ==
  /\ Good(Opened) /\ Opened.fresh /\ Opened.leaving = "no"
  /\ Good(OpenedWithError) /\ OpenedWithError.fresh /\ OpenedWithError.leaving = "no"
<1>1. Opened \in PageLoads
  BY SessionAssumption DEF Opened, PageLoads, Phases, Refreshing, Roles
<1>2. Good(Opened) /\ Opened.fresh /\ Opened.leaving = "no"
  BY <1>1 DEF Opened, Good, Matches, NothingYet
<1>3. OpenedWithError \in PageLoads
  BY <1>1 DEF OpenedWithError, PageLoads, Phases
<1>4. /\ OpenedWithError.phase = "error" /\ OpenedWithError.user = Nobody /\ OpenedWithError.token = Nobody
      /\ OpenedWithError.asked = 0 /\ OpenedWithError.refreshes = {}
      /\ OpenedWithError.fresh /\ OpenedWithError.leaving = "no"
  BY DEF OpenedWithError, Opened
<1> QED BY <1>2, <1>3, <1>4 DEF Good, Matches, NothingYet

LEMMA ClearedIsGood ==
  ASSUME NEW p, Good(p), NEW phase \in Phases \ {"authenticated"}
  PROVE  /\ Good(Cleared(p, phase))
         /\ Cleared(p, phase).fresh = p.fresh /\ Cleared(p, phase).leaving = p.leaving
BY SessionAssumption DEF Cleared, Good, Matches, NothingYet, PageLoads

(* An edit of the fields that do not say who is signed in.                 *)
Edits(p, q) ==
  /\ q \in PageLoads /\ q.phase = p.phase /\ q.user = p.user
  /\ q.token \in {p.token, Nobody} /\ q.fresh = p.fresh
  /\ q.fresh => q.asked = 0 /\ q.refreshes = {}

LEMMA EditIsGood == ASSUME NEW p, NEW q, Good(p), Edits(p, q) PROVE Good(q)
BY DEF Edits, Good, Matches, NothingYet

LEMMA LoginIsGood ==
  ASSUME NEW p, Good(p), p.user = Nobody, NEW by \in {"login", "auto"}
  PROVE  Good(Login(p, by)) /\ Login(p, by).fresh = p.fresh /\ Login(p, by).leaving = by
BY DEF Login, Good, Matches, NothingYet, PageLoads, Phases

LEMMA LoginRejectedIsGood ==
  ASSUME NEW p, Good(p), p.user = Nobody
  PROVE  Good(LoginRejected(p)) /\ LoginRejected(p).fresh = p.fresh /\ LoginRejected(p).leaving = p.leaving
BY DEF LoginRejected, Good, Matches, NothingYet, PageLoads, Phases

(* Of a page without a user, whether login is rejected or not.             *)
LEMMA LogsInIsGood ==
  ASSUME Good(loaded), loaded.user = Nobody, cutOff \in BOOLEAN, signedOut \in BOOLEAN,
         NEW by \in {"login", "auto"}, LogsIn(by)
  PROVE  /\ Good(loaded') /\ loaded'.fresh = loaded.fresh /\ loaded'.leaving \in {by, loaded.leaving}
         /\ cutOff' \in BOOLEAN
BY LoginIsGood, LoginRejectedIsGood DEF LogsIn

LEMMA SyncIsGood ==
  ASSUME NEW p, Good(p), session \in Roles, Sync(p)
  PROVE  Good(loaded') /\ ~loaded'.fresh
BY SessionAssumption DEF Sync, Good, Matches, NothingYet, PageLoads, Phases, Roles

LEMMA RoleIsARole == ASSUME NEW c PROVE DeriveRole(c) \in Roles
BY DEF DeriveRole, Roles

LEMMA OpenedIsCounted ==
  ASSUME NEW n \in Nat, NEW a \in Nat, n <= a
  PROVE  AutosCounted(Opened, a, n) /\ AutosCounted(OpenedWithError, a, n)
<1>1. AutoSent(Opened) = 0 /\ AutoSent(OpenedWithError) = 0
  BY OpenedIsGood DEF AutoSent
<1> QED BY <1>1, OpenedIsGood DEF AutosCounted

(* A synchronised page counts from zero.                                   *)
LEMMA SyncKeepsInv ==
  ASSUME SessionRest, NEW p, Good(p), session # Nobody, Sync(p), UNCHANGED <<at, route, session>>,
         signedOut' \in BOOLEAN, cutOff' \in BOOLEAN
  PROVE  Inv'
<1>1. session \in Roles
  BY DEF SessionRest
<1>2. Good(loaded') /\ ~loaded'.fresh
  BY <1>1, SyncIsGood
<1>3. attempts' = 0 /\ autos' = 0
  BY DEF Sync
<1>4. SessionRest'
  BY <1>3, SessionAssumption DEF SessionRest
<1>5. AutosCounted(loaded', attempts', autos')
  BY <1>2, <1>3 DEF AutosCounted, AutoSent
<1> QED BY <1>2, <1>4, <1>5 DEF Inv

LEMMA InitInv == SessionInit => Inv
<1> SUFFICES ASSUME SessionInit PROVE Inv
  OBVIOUS
<1>1. session \in Roles \cup {Nobody}
  BY RoleIsARole DEF SessionInit
<1>2. signedOut \in BOOLEAN /\ cutOff \in BOOLEAN
  BY DEF SessionInit
<1>3. SessionRest
  BY <1>1, <1>2, SessionAssumption DEF SessionInit, SessionRest
<1>4. loaded = Opened /\ attempts = 0 /\ autos = 0
  BY DEF SessionInit
<1> QED BY <1>3, <1>4, OpenedIsGood, OpenedIsCounted DEF Inv

(* A step that leaves the counts alone and edits the page.                 *)
LEMMA PageOnly ==
  ASSUME Inv, SessionRest', Good(loaded'), UNCHANGED <<attempts, autos>>,
         loaded'.fresh = loaded.fresh, loaded'.leaving = loaded.leaving \/ loaded'.leaving # "auto"
  PROVE  Inv'
BY DEF Inv, SessionRest, AutosCounted, AutoSent

(* A logout: only a page that had a session comes to it.                   *)
LEMMA LogoutKeepsInv ==
  ASSUME Inv, NEW p, Good(p), ~p.fresh, autos = 0, Logout(p), SessionRest', autos' = 0
  PROVE  Inv'
<1>1. Good(Cleared(p, "anonymous")) /\ ~Cleared(p, "anonymous").fresh
  BY ClearedIsGood DEF Phases
<1>2. Edits(Cleared(p, "anonymous"), loaded')
  BY <1>1 DEF Logout, Edits, Good, Matches, PageLoads
<1>3. Good(loaded') /\ ~loaded'.fresh
  BY <1>1, <1>2, EditIsGood DEF Edits
<1> QED BY <1>3 DEF Inv, SessionRest, AutosCounted, AutoSent, Logout

(* Each step keeps the invariant.                                          *)
LEMMA StepInv == Inv /\ [SessionNext]_sessionVars => Inv'
<1> SUFFICES ASSUME Inv, [SessionNext]_sessionVars PROVE Inv'
  OBVIOUS
<1> USE SessionAssumption
<1>0. Good(loaded) /\ SessionRest BY DEF Inv
<1>1. CASE InitSucceeds
  <2>1. Good([loaded EXCEPT !.keycloak = "ready"])
    BY <1>0, EditIsGood DEF Edits, Good, Matches, NothingYet, PageLoads
  <2> QED BY <1>0, <1>1, <2>1, SyncKeepsInv DEF InitSucceeds, SessionRest
<1>2. ASSUME NEW phase \in {"anonymous", "error"}, InitEnds(phase) PROVE Inv'
  <2> DEFINE p == [loaded EXCEPT !.keycloak = "ready"]
  <2>1. Good(p) /\ p.fresh = loaded.fresh /\ p.leaving = loaded.leaving
    BY <1>0, EditIsGood DEF Edits, Good, Matches, NothingYet, PageLoads
  <2>2. loaded' = p \/ loaded' = Cleared(p, phase)
    BY <1>2 DEF InitEnds
  <2> HIDE DEF p
  <2>3. Good(loaded') /\ loaded'.fresh = loaded.fresh /\ loaded'.leaving = loaded.leaving
    BY <2>1, <2>2, ClearedIsGood DEF Phases
  <2> QED BY <1>0, <1>2, <2>3, PageOnly DEF InitEnds, SessionRest
<1>3. CASE InitTimesOut
  <2>1. Good(Cleared(loaded, "error")) /\ Cleared(loaded, "error").fresh = loaded.fresh
        /\ Cleared(loaded, "error").leaving = loaded.leaving
    BY <1>0, ClearedIsGood DEF Phases
  <2>2. Edits(Cleared(loaded, "error"), loaded') /\ loaded'.fresh = loaded.fresh
        /\ loaded'.leaving = loaded.leaving
    BY <1>3, <2>1 DEF InitTimesOut, TimedOut, Edits, Good, Matches, NothingYet, PageLoads
  <2> QED BY <1>0, <1>3, <2>1, <2>2, EditIsGood, PageOnly DEF InitTimesOut, SessionRest
<1>4. CASE SignIn
  <2>1. /\ Good(loaded') /\ loaded'.leaving \in {"login", loaded.leaving}
        /\ loaded'.fresh = loaded.fresh /\ cutOff' \in BOOLEAN
    BY <1>0, <1>4, LogsInIsGood DEF SignIn, SessionRest
  <2> QED BY <1>0, <1>4, <2>1 DEF SignIn, Inv, SessionRest, AutosCounted, AutoSent
<1>5. CASE AutoLoginGuard
  <2>1. loaded.user = Nobody
    BY <1>0, <1>5 DEF AutoLoginGuard, ShouldAuto, Good, Matches
  <2>2. Good(loaded') /\ loaded'.fresh = loaded.fresh /\ cutOff' \in BOOLEAN
    BY <1>0, <1>5, <2>1, LogsInIsGood DEF AutoLoginGuard, SessionRest
  <2> QED BY <1>0, <1>5, <2>2 DEF AutoLoginGuard, ShouldAuto, RegisterAutoAttempt, Inv, SessionRest, AutosCounted, AutoSent
<1>6. CASE RequireRole \/ SessionEnds
  BY <1>0, <1>6, PageOnly DEF RequireRole, SessionEnds, SessionRest
<1>7. CASE Navigate
  BY <1>0, <1>7 DEF Navigate, Inv, SessionRest, AutosCounted, AutoSent
<1>8. CASE ApiStep \/ TokenExpires
  <2>1. CASE Ask
    <3>1. Edits(loaded, loaded') /\ loaded'.leaving = loaded.leaving
      BY <1>0, <2>1 DEF Ask, Edits, Good, Matches, NothingYet, PageLoads
    <3> QED BY <1>0, <2>1, <3>1, EditIsGood, PageOnly DEF Ask, Edits, SessionRest
  <2>2. CASE Answer \/ ApiRefuses
    <3>1. ~loaded.fresh
      BY <1>0, <2>2 DEF Answer, ApiRefuses, Good, Matches, NothingYet, PageLoads
    <3>2. loaded \in PageLoads
      BY <1>0 DEF Good, Matches
    <3>3. loaded' \in PageLoads
      <4>1. loaded.asked - 1 \in 0..MaxAsked
        BY <2>2, <3>2 DEF Answer, ApiRefuses, PageLoads
      <4>2. loaded.refreshes \cup {"unauthorized"} \in SUBSET Refreshing
        BY <3>2 DEF PageLoads, Refreshing
      <4> QED BY <2>2, <3>2, <4>1, <4>2 DEF Answer, ApiRefuses, PageLoads
    <3>4. /\ loaded'.phase = loaded.phase /\ loaded'.user = loaded.user /\ loaded'.token = loaded.token
          /\ loaded'.fresh = loaded.fresh /\ loaded'.leaving = loaded.leaving
      BY <2>2, <3>2 DEF Answer, ApiRefuses, PageLoads
    <3>5. Edits(loaded, loaded')
      BY <3>1, <3>3, <3>4 DEF Edits
    <3> QED BY <1>0, <2>2, <3>4, <3>5, EditIsGood, PageOnly DEF Answer, ApiRefuses, Edits, SessionRest
  <2>3. CASE TokenExpires
    <3>1. Edits(loaded, loaded') /\ loaded'.leaving = loaded.leaving
      BY <1>0, <2>3 DEF TokenExpires, Edits, Good, Matches, NothingYet, PageLoads, Refreshing
    <3> QED BY <1>0, <2>3, <3>1, EditIsGood, PageOnly DEF TokenExpires, Edits, SessionRest
  <2> QED BY <1>8, <2>1, <2>2, <2>3 DEF ApiStep
<1>9. ASSUME NEW w \in Refreshing, RefreshSucceeds(w) \/ RefreshIsOfNoUse(w) PROVE Inv'
  <2>1. Edits(loaded, Refreshed(w)) /\ Refreshed(w).leaving = loaded.leaving
    BY <1>0 DEF Refreshed, Edits, Good, Matches, NothingYet, PageLoads
  <2>2. Good(Refreshed(w)) /\ Refreshed(w).fresh = loaded.fresh
    BY <1>0, <2>1, EditIsGood DEF Edits
  <2>3. CASE RefreshSucceeds(w)
    BY <1>0, <2>2, <2>3, SyncKeepsInv DEF RefreshSucceeds, SessionRest
  <2>4. CASE w = "expired" /\ loaded' = Refreshed(w) /\ RefreshIsOfNoUse(w) /\ UNCHANGED attempts
    BY <1>0, <2>1, <2>2, <2>4, PageOnly DEF RefreshIsOfNoUse, SessionRest
  <2>5. CASE loaded' = Cleared(Refreshed(w), "anonymous") /\ RefreshIsOfNoUse(w) /\ UNCHANGED attempts
    <3>1. Good(loaded') /\ loaded'.fresh = loaded.fresh /\ loaded'.leaving = loaded.leaving
      BY <2>1, <2>2, <2>5, ClearedIsGood DEF Phases
    <3> QED BY <1>0, <2>5, <3>1, PageOnly DEF RefreshIsOfNoUse, SessionRest
  <2>6. CASE Logout(Refreshed(w)) /\ RefreshIsOfNoUse(w)
    <3>1. ~loaded.fresh /\ autos = 0
      BY <1>0, <2>6 DEF RefreshIsOfNoUse, Good, NothingYet, Inv, AutosCounted
    <3>2. SessionRest' /\ autos' = 0
      BY <1>0, <2>6, <3>1 DEF RefreshIsOfNoUse, SessionRest, Logout
    <3> QED BY <2>2, <2>6, <3>1, <3>2, LogoutKeepsInv
  <2> QED BY <1>9, <2>3, <2>4, <2>5, <2>6 DEF RefreshIsOfNoUse
<1>10. CASE OnAuthLogout
  <2>1. Good(Cleared(loaded, "anonymous")) /\ Cleared(loaded, "anonymous").fresh = loaded.fresh
        /\ Cleared(loaded, "anonymous").leaving = loaded.leaving
    BY <1>0, ClearedIsGood DEF Phases
  <2>2. Edits(Cleared(loaded, "anonymous"), loaded') /\ loaded'.leaving = loaded.leaving
    BY <1>10, <2>1 DEF OnAuthLogout, Edits, Good, Matches, NothingYet, PageLoads
  <2> QED BY <1>0, <1>10, <2>1, <2>2, EditIsGood, PageOnly DEF OnAuthLogout, SessionRest, Edits
<1>11. CASE UserLogsOut
  <2>1. ~loaded.fresh
    BY <1>0, <1>11 DEF UserLogsOut, Good, NothingYet
  <2>2. autos = 0
    BY <2>1 DEF Inv, AutosCounted
  <2>3. signedOut' \in BOOLEAN /\ cutOff' \in BOOLEAN /\ attempts' = 0 /\ autos' = 0
    BY <1>11 DEF UserLogsOut, Logout
  <2>4. SessionRest'
    BY <1>0, <1>11, <2>3 DEF UserLogsOut, SessionRest
  <2> QED BY <1>0, <1>11, <2>1, <2>2, <2>3, <2>4, LogoutKeepsInv DEF UserLogsOut
<1>12. CASE StoreCleared
  <2>1. Edits(loaded, loaded') /\ loaded'.leaving \in {"logout", loaded.leaving}
    BY <1>0, <1>12 DEF StoreCleared, LoggedOut, LogoutRejected, Edits, Good, Matches, NothingYet, PageLoads
  <2>2. SessionRest'
    BY <1>0, <1>12 DEF StoreCleared, SessionRest
  <2> QED BY <1>0, <1>12, <2>1, <2>2, EditIsGood, PageOnly DEF StoreCleared, Edits
<1>13. CASE Leaves \/ Reload
  <2>1. loaded' = Opened /\ UNCHANGED attempts
    BY <1>13 DEF Leaves, Reload
  <2>2. autos' \in Nat /\ autos' <= attempts
    BY <1>0, <1>13 DEF Leaves, Reload, Inv, SessionRest, AutosCounted, AutoSent
  <2>3. SessionRest'
    BY <1>0, <1>13, <2>2 DEF Leaves, Reload, SessionRest
  <2>4. AutosCounted(Opened, attempts, autos')
    BY <1>0, <2>2, OpenedIsCounted DEF SessionRest
  <2> QED BY <2>1, <2>3, <2>4, OpenedIsGood DEF Inv
<1>14. CASE SignsIn
  <2>1. session' \in Roles
    BY <1>14, RoleIsARole DEF SignsIn
  <2>2. SessionRest'
    BY <1>0, <1>14, <2>1 DEF SignsIn, SessionRest
  <2>3. AutosCounted(loaded, attempts, 0)
    BY DEF Inv, SessionRest, AutosCounted, AutoSent
  <2> QED BY <1>0, <1>14, <2>2, <2>3 DEF SignsIn, Inv
<1>15. CASE ComesBackWithError
  <2>1. autos <= MaxAutoAttempts /\ autos \in Nat
    BY DEF Inv, SessionRest, AutosCounted, AutoSent
  <2>2. AutosCounted(OpenedWithError, MaxAutoAttempts, autos)
    BY <2>1, OpenedIsCounted
  <2> QED BY <1>0, <1>15, <2>2, OpenedIsGood DEF ComesBackWithError, Inv, SessionRest
<1>16. CASE GoesBack
  BY <1>0, <1>16 DEF GoesBack, Inv, SessionRest, AutosCounted, AutoSent
<1>17. CASE UNCHANGED sessionVars
  BY <1>17 DEF sessionVars, Inv, SessionRest, Good, Matches, NothingYet, AutosCounted, AutoSent
<1> QED
  BY <1>1, <1>2, <1>3, <1>4, <1>5, <1>6, <1>7, <1>8, <1>9, <1>10, <1>11, <1>12, <1>13, <1>14,
     <1>15, <1>16, <1>17
  DEF SessionNext, UserStep, KeycloakStep, RefreshStep, PageStep, InitFindsNobody, InitFails

(* The state of a tab keeps its type; in particular who is shown as signed *)
(* in is exactly who the phase says is (AuthProvider.tsx).                 *)
THEOREM SessionTypeCorrect == SessionSpec => []TypeOK
<1>1. Inv => TypeOK
  BY DEF Inv, SessionRest, Good, Matches, TypeOK
<1> QED
  BY <1>1, InitInv, StepInv, PTL DEF SessionSpec

(* For every limit of automatic logins, no more pages than that are left   *)
(* for Keycloak one after the other without a session or an act of the     *)
(* user (useAutoLoginGuard and its count in sessionStorage).               *)
THEOREM AutoLoginsAreBounded == SessionSpec => []AutoLoginsBounded
<1>1. Inv => AutoLoginsBounded
  BY SessionAssumption DEF Inv, SessionRest, AutosCounted, AutoSent, AutoLoginsBounded
<1> QED
  BY <1>1, InitInv, StepInv, PTL DEF SessionSpec

-----------------------------------------------------------------------------
(* Who signed out.  Until Keycloak has heard of it the page that heard it  *)
(* is on its way to log out (Going), and what could show the account       *)
(* again, the end of Keycloak's init, is behind it (Started).              *)
Started(p) == ~p.fresh => p.keycloak # "starting"
Going(p) == p.keycloak # "starting" /\ (p.clearing \/ p.leaving = "logout")
OutOrGoing ==
  signedOut /\ ~cutOff => loaded.user = Nobody /\ (session = Nobody \/ (at = "app" /\ Going(loaded)))
OutInv == Inv /\ Started(loaded) /\ OutOrGoing

LEMMA InitOut == SessionInit => OutInv
<1> SUFFICES ASSUME SessionInit PROVE OutInv
  OBVIOUS
<1>1. loaded.fresh /\ ~signedOut
  BY OpenedIsGood DEF SessionInit
<1> QED BY <1>1, InitInv DEF OutInv, Started, OutOrGoing

(* A page whose user does not come back, and whose logout goes on.         *)
StaysOut(p, q) ==
  /\ q.fresh = p.fresh /\ q.user \in {p.user, Nobody}
  /\ q.keycloak # "starting" \/ q.keycloak = p.keycloak
Follows(p, q) ==
  /\ StaysOut(p, q)
  /\ p.clearing => q.clearing \/ q.leaving = "logout"
  /\ p.leaving = "logout" => q.leaving = "logout"

LEMMA FollowsKeepsOut ==
  ASSUME OutInv, Inv', Follows(loaded, loaded'), UNCHANGED <<at, signedOut, cutOff>>, session' \in {session, Nobody}
  PROVE  OutInv'
BY DEF OutInv, Started, OutOrGoing, Going, StaysOut, Follows

(* What may cut a logout off: it goes on, or the sign-out is cut off.      *)
LEMMA CutOffKeepsOut ==
  ASSUME OutInv, Inv', UNCHANGED <<at, signedOut, session>>, StaysOut(loaded, loaded'), cutOff => cutOff',
         (signedOut => cutOff') \/ Follows(loaded, loaded')
  PROVE  OutInv'
BY DEF OutInv, Started, OutOrGoing, Going, StaysOut, Follows

LEMMA StepOut == OutInv /\ [SessionNext]_sessionVars => OutInv'
<1> SUFFICES ASSUME OutInv, [SessionNext]_sessionVars PROVE OutInv'
  OBVIOUS
<1>0. loaded \in PageLoads /\ Inv' /\ NothingYet(loaded)
  BY StepInv DEF OutInv, Inv, Good, Matches
<1>1. CASE InitSucceeds
  <2>1. ~(signedOut /\ ~cutOff)
    BY <1>1 DEF InitSucceeds, OutInv, OutOrGoing, Going
  <2>2. loaded'.keycloak = "ready"
    BY <1>0, <1>1 DEF InitSucceeds, Sync, PageLoads
  <2> QED BY <1>0, <1>1, <2>1, <2>2 DEF InitSucceeds, OutInv, OutOrGoing, Started
<1>2. ASSUME NEW phase, InitEnds(phase) PROVE OutInv'
  <2>1. Follows(loaded, loaded')
    BY <1>0, <1>2 DEF InitEnds, Cleared, StaysOut, Follows, PageLoads
  <2> QED BY <1>0, <1>2, <2>1, FollowsKeepsOut DEF InitEnds
<1>3. CASE InitTimesOut
  <2>1. Follows(loaded, loaded')
    BY <1>0, <1>3 DEF InitTimesOut, TimedOut, Cleared, StaysOut, Follows, PageLoads
  <2> QED BY <1>0, <1>3, <2>1, FollowsKeepsOut DEF InitTimesOut
<1>14. CASE SignIn \/ AutoLoginGuard
  <2>1. PICK by \in {"login", "auto"} : LogsIn(by)
    BY <1>14 DEF SignIn, AutoLoginGuard
  <2>2. CASE loaded' = Login(loaded, by) /\ cutOff' = (cutOff \/ (signedOut /\ loaded.leaving = "logout"))
    <3>1. StaysOut(loaded, loaded')
      BY <1>0, <2>2 DEF Login, StaysOut, PageLoads
    <3>2. loaded.leaving # "logout" => Follows(loaded, loaded')
      BY <1>0, <2>2, <3>1 DEF Login, Follows, PageLoads
    <3> QED BY <1>0, <1>14, <2>2, <3>1, <3>2, CutOffKeepsOut DEF SignIn, AutoLoginGuard
  <2>3. CASE loaded' = LoginRejected(loaded) /\ UNCHANGED cutOff
    <3>1. Follows(loaded, loaded')
      BY <1>0, <2>3 DEF LoginRejected, StaysOut, Follows, PageLoads
    <3> QED BY <1>0, <1>14, <2>3, <3>1, FollowsKeepsOut DEF SignIn, AutoLoginGuard
  <2> QED BY <2>1, <2>2, <2>3 DEF LogsIn
<1>15. CASE StoreCleared
  <2>1. CASE loaded' = LoggedOut(loaded) /\ UNCHANGED cutOff
    <3>1. Follows(loaded, loaded')
      BY <1>0, <2>1 DEF LoggedOut, StaysOut, Follows, PageLoads
    <3> QED BY <1>0, <1>15, <2>1, <3>1, FollowsKeepsOut DEF StoreCleared
  <2>2. CASE loaded' = LogoutRejected(loaded) /\ cutOff' = (cutOff \/ signedOut)
    <3>1. StaysOut(loaded, loaded')
      BY <1>0, <2>2 DEF LogoutRejected, StaysOut, PageLoads
    <3> QED BY <1>0, <1>15, <2>2, <3>1, CutOffKeepsOut DEF StoreCleared
  <2> QED BY <1>15, <2>1, <2>2 DEF StoreCleared
<1>4. CASE ApiStep \/ TokenExpires \/ OnAuthLogout
  <2>1. Follows(loaded, loaded')
    BY <1>0, <1>4
    DEF ApiStep, Ask, Answer, ApiRefuses, TokenExpires, OnAuthLogout, Cleared, StaysOut, Follows, PageLoads
  <2> QED BY <1>0, <1>4, <2>1, FollowsKeepsOut
          DEF ApiStep, Ask, Answer, ApiRefuses, TokenExpires, OnAuthLogout
<1>5. CASE RequireRole \/ Navigate \/ SessionEnds
  <2>1. Follows(loaded, loaded')
    BY <1>5 DEF RequireRole, Navigate, SessionEnds, StaysOut, Follows
  <2> QED BY <1>0, <1>5, <2>1, FollowsKeepsOut DEF RequireRole, Navigate, SessionEnds
<1>6. ASSUME NEW w \in Refreshing, RefreshSucceeds(w) PROVE OutInv'
  <2>1. ~loaded.fresh /\ loaded.keycloak # "starting"
    BY <1>0, <1>6 DEF RefreshSucceeds, NothingYet, OutInv, Started
  <2>2. loaded'.keycloak = loaded.keycloak
    BY <1>0, <1>6 DEF RefreshSucceeds, Sync, Refreshed, PageLoads
  <2>3. signedOut' => cutOff'
    BY <1>6 DEF RefreshSucceeds
  <2> QED BY <1>0, <2>1, <2>2, <2>3 DEF OutInv, Started, OutOrGoing
<1>7. ASSUME NEW w \in Refreshing, RefreshIsOfNoUse(w) PROVE OutInv'
  <2>1. Follows(loaded, loaded')
    BY <1>0, <1>7 DEF RefreshIsOfNoUse, Refreshed, Logout, Cleared, StaysOut, Follows, PageLoads
  <2> QED BY <1>0, <1>7, <2>1, FollowsKeepsOut DEF RefreshIsOfNoUse
<1>8. CASE UserLogsOut
  <2>1. ~loaded.fresh /\ loaded.keycloak # "starting"
    BY <1>0, <1>8 DEF UserLogsOut, NothingYet, OutInv, Started
  <2>2. loaded'.user = Nobody /\ loaded'.clearing /\ loaded'.keycloak = loaded.keycloak
    BY <1>0, <1>8 DEF UserLogsOut, Logout, Cleared, PageLoads
  <2> QED BY <1>0, <1>8, <2>1, <2>2 DEF UserLogsOut, InApp, OutInv, Started, OutOrGoing, Going
<1>9. CASE Leaves \/ Reload
  <2>1. loaded' = Opened /\ Opened.user = Nobody /\ Opened.fresh
    BY <1>9 DEF Leaves, Reload, Opened
  <2>2. signedOut' /\ ~cutOff' => session' = Nobody
    <3> SUFFICES ASSUME signedOut', ~cutOff' PROVE session' = Nobody
      OBVIOUS
    <3>1. signedOut /\ ~cutOff
      BY <1>9 DEF Leaves, Reload
    <3>2. CASE Leaves /\ loaded.leaving = "logout"
      BY <3>2 DEF Leaves
    <3>3. CASE Reload \/ (Leaves /\ loaded.leaving # "logout")
      <4>1. ~loaded.clearing /\ loaded.leaving # "logout" /\ session' = session
        BY <3>1, <3>3 DEF Leaves, Reload
      <4> QED BY <3>1, <4>1 DEF OutInv, OutOrGoing, Going
    <3> QED BY <1>9, <3>2, <3>3
  <2> QED BY <1>0, <2>1, <2>2 DEF OutInv, Started, OutOrGoing
<1>10. CASE SignsIn
  BY <1>0, <1>10 DEF SignsIn, OutInv, Started, OutOrGoing
<1>11. CASE ComesBackWithError
  <2>1. OpenedWithError.fresh /\ OpenedWithError.user = Nobody
    BY OpenedIsGood DEF OpenedWithError, Opened
  <2> QED BY <1>0, <1>11, <2>1 DEF ComesBackWithError, OutInv, Started, OutOrGoing
<1>12. CASE GoesBack
  BY <1>0, <1>12 DEF GoesBack, OutInv, Started, OutOrGoing
<1>13. CASE UNCHANGED sessionVars
  BY <1>0, <1>13 DEF sessionVars, OutInv, Started, OutOrGoing, Going
<1> QED
  BY <1>1, <1>2, <1>3, <1>4, <1>5, <1>6, <1>7, <1>8, <1>9, <1>10, <1>11, <1>12, <1>13, <1>14, <1>15
  DEF SessionNext, UserStep, KeycloakStep, RefreshStep, PageStep, InitFindsNobody, InitFails

(* Who signed out is not shown as signed in, on that page or a later one,  *)
(* unless an automatic login, the user's own click, a token refresh or a   *)
(* page load has cut the sign-out off, or logout was rejected (logout of   *)
(* AuthProvider.tsx).                                                      *)
THEOREM SignOutsLast == SessionSpec => []SignedOutStaysOut
<1>1. OutInv => SignedOutStaysOut
  BY DEF OutInv, OutOrGoing, SignedOutStaysOut
<1> QED
  BY <1>1, InitOut, StepOut, PTL DEF SessionSpec

-----------------------------------------------------------------------------
USE PeopleAssumption, ImportAssumption, StandupAssumption

-----------------------------------------------------------------------------
(* The roles.  Unless two changes of roles crossed, one is under way at    *)
(* most, its requester is still an administrator, and it is about somebody *)
(* else.                                                                   *)
Changes == [user : Users, role : UserRoles]

RoleTypes == role \in [Users -> UserRoles \cup {None}] /\ changing \in [Users -> Changes \cup {None}]
OneChange == \A a, b \in Users : changing[a] # None /\ changing[b] # None => a = b
RequesterStays == \A a \in Users : changing[a] # None => changing[a].user # a /\ IsAdmin(a)

RolesHold == RoleTypes /\ (contested \/ (OneChange /\ RequesterStays)) /\ AdminRemains

(* What a step may do to the roles.                                        *)
RoleStep ==
  \/ UNCHANGED <<role, changing, contested>>
  \/ AskForRole \/ SeedAdminUser \/ \E a \in Users : UpdateUserRole(a)
  \/ \E u : role[u] = None /\ CreateUser(u)

LEMMA StepsOnRoles ==
  ASSUME [Next]_vars PROVE RoleStep
<1>1. CASE ConsoleStep
  <2>1. CASE CreateNext
    <3>1. PICK a \in import.todo : (CanCreate(a) /\ CreateUser(a)) \/ UNCHANGED server
      BY <2>1 DEF CreateNext
    <3> QED BY <3>1 DEF RoleStep, CanCreate, server
  <2>2. CASE MapCreated
    BY <2>2 DEF MapCreated, MapUserToProject, RoleStep, server
  <2>3. CASE UNCHANGED server
    BY <2>3 DEF RoleStep, server
  <2> QED BY <1>1, <2>1, <2>2, <2>3
          DEF ConsoleStep, OpenModal, SelectProject, RefreshList, OptionsArrive, OptionsFail, ToggleSelection,
              CloseModal, HandleImport, EndImport
<1>2. CASE ReviewStep
  <2>1. ASSUME NEW c, Serve(c) PROVE RoleStep
    <3>1. CASE c.kind = "notes"
      BY <2>1, <3>1 DEF Serve, SavePerformanceNote, RoleStep
    <3>2. CASE c.kind # "notes"
      BY <2>1, <3>2 DEF Serve, RoleStep, server
    <3> QED BY <3>1, <3>2
  <2>2. CASE UNCHANGED server
    BY <2>2 DEF RoleStep, server
  <2> QED BY <1>2, <2>1, <2>2
          DEF ReviewStep, Select, Refresh, TypeNotes, HandleSaveNotes, FetchView, Refuse, Receive
<1>3. CASE Others
  <2>1. CASE NoteOfOthers
    BY <2>1 DEF NoteOfOthers, SavePerformanceNote, RoleStep
  <2>2. CASE MapUser \/ Unlink \/ SetTrackedUsers
    BY <2>2 DEF MapUser, Unlink, SetTrackedUsers, MapUserToProject, UnlinkUserFromProject,
                SetProjectTrackedUsers, RoleStep
  <2>3. CASE MakeUser
    BY <2>3 DEF MakeUser, RoleStep
  <2>4. CASE EditsElsewhere
    BY <2>2, <2>3, <2>4 DEF EditsElsewhere, EditsOfOthers, EditPeople
  <2>5. CASE EditsInReview
    BY <2>2, <2>5 DEF EditsInReview
  <2> QED BY <1>3, <2>1, <2>4, <2>5 DEF Others, RolesChange, ChangeRoles, AsksForRole, RoleStep
<1>4. CASE UNCHANGED server
  BY <1>4 DEF RoleStep, server
<1> QED BY <1>1, <1>2, <1>3, <1>4 DEF Next, vars

LEMMA RolesInit == Init => RolesHold
<1> SUFFICES ASSUME Init PROVE RolesHold
  OBVIOUS
<1>1. RoleTypes
  BY DEF Init, ServerInit, RoleTypes, Users
<1>2. \A a \in Users : changing[a] = None
  BY DEF Init, ServerInit
<1>3. Seed \in Users /\ IsAdmin(Seed)
  BY DEF Init, ServerInit, Users, IsAdmin
<1> QED BY <1>1, <1>2, <1>3 DEF RolesHold, OneChange, RequesterStays, AdminRemains

LEMMA RolesStep == RolesHold /\ [Next]_vars => RolesHold'
<1> SUFFICES ASSUME RolesHold, [Next]_vars PROVE RolesHold'
  OBVIOUS
<1>0. RoleTypes /\ AdminRemains
  BY DEF RolesHold
<1>1. CASE UNCHANGED <<role, changing, contested>>
  BY <1>1 DEF RolesHold, RoleTypes, OneChange, RequesterStays, AdminRemains, IsAdmin
<1>2. ASSUME NEW a \in Users, NEW u \in Users, NEW r \in UserRoles, RequestRole(a, u, r)
      PROVE  RolesHold'
  <2> DEFINE new == [user |-> u, role |-> r]
  <2>1. new \in Changes /\ new.user = u
    BY DEF Changes
  <2>2. changing' = [changing EXCEPT ![a] = new] /\ role' = role
    BY <1>2 DEF RequestRole
  <2>3. IsAdmin(a) /\ a # u
    BY <1>2 DEF RequestRole, MayChange
  <2> HIDE DEF new
  <2>4. RoleTypes' BY <1>0, <2>1, <2>2 DEF RoleTypes
  <2>5. ASSUME ~contested' PROVE (OneChange /\ RequesterStays)'
    <3>1. \A b \in Users : changing[b] = None
      BY <1>2, <2>5 DEF RequestRole
    <3>2. \A b \in Users : changing'[b] = IF b = a THEN new ELSE None
      BY <1>0, <2>2, <3>1 DEF RoleTypes
    <3> QED BY <2>1, <2>2, <2>3, <3>2 DEF OneChange, RequesterStays, IsAdmin
  <2>6. AdminRemains'
    BY <1>0, <1>2, <2>2 DEF RequestRole, AdminRemains, IsAdmin
  <2> QED BY <2>4, <2>5, <2>6 DEF RolesHold
<1>3. CASE SeedAdminUser
  <2>1. role' = [role EXCEPT ![Seed] = "ADMIN"] /\ UNCHANGED <<changing, contested>> /\ Seed \in Users
    BY <1>3 DEF SeedAdminUser, Users
  <2>2. RoleTypes' BY <1>0, <2>1 DEF RoleTypes
  <2>3. \A u \in Users : IsAdmin(u) => IsAdmin(u)'
    BY <1>0, <2>1 DEF RoleTypes, IsAdmin
  <2> QED BY <2>1, <2>2, <2>3 DEF RolesHold, OneChange, RequesterStays, AdminRemains, Users
<1>4. ASSUME NEW a \in Users, UpdateUserRole(a) PROVE RolesHold'
  <2> DEFINE ch == changing[a]
  <2>1. ch \in Changes /\ ch # None BY <1>0, <1>4 DEF UpdateUserRole, RoleTypes
  <2>2. ch.user \in Users /\ ch.role \in UserRoles BY <2>1 DEF Changes
  <2>3. /\ role' = [role EXCEPT ![ch.user] = ch.role] /\ changing' = [changing EXCEPT ![a] = None]
        /\ contested' = contested
    BY <1>4 DEF UpdateUserRole
  <2> HIDE DEF ch
  <2>4. RoleTypes' BY <1>0, <2>2, <2>3 DEF RoleTypes
  <2>5. ASSUME ~contested PROVE (OneChange /\ RequesterStays)' /\ IsAdmin(a)'
    <3>1. OneChange /\ RequesterStays BY <2>5 DEF RolesHold
    <3>2. ch.user # a /\ IsAdmin(a) BY <2>1, <3>1 DEF RequesterStays, ch
    <3>3. \A b \in Users : changing'[b] = None
      BY <1>0, <2>1, <2>3, <3>1 DEF RoleTypes, OneChange, ch
    <3>4. IsAdmin(a)' BY <1>0, <2>3, <3>2 DEF RoleTypes, IsAdmin, Users
    <3> QED BY <3>3, <3>4 DEF OneChange, RequesterStays
  <2> QED BY <2>3, <2>4, <2>5 DEF RolesHold, AdminRemains, Users
<1>5. ASSUME NEW u, role[u] = None, CreateUser(u) PROVE RolesHold'
  <2>1. PICK r \in UserRoles : role' = [role EXCEPT ![u] = r] /\ UNCHANGED <<changing, contested>>
    BY <1>5 DEF CreateUser
  <2>2. RoleTypes' BY <1>0, <2>1 DEF RoleTypes
  <2>3. \A x \in Users : IsAdmin(x) => IsAdmin(x)'
    BY <1>0, <1>5, <2>1 DEF RoleTypes, IsAdmin
  <2> QED BY <2>1, <2>2, <2>3 DEF RolesHold, OneChange, RequesterStays, AdminRemains, Users
<1> QED BY StepsOnRoles, <1>1, <1>2, <1>3, <1>4, <1>5 DEF RoleStep, AskForRole

(* AdminRemains: somebody is always an administrator, unless two changes   *)
(* of roles crossed (updateUserRole).                                      *)
THEOREM SomebodyIsAdmin == Spec => []AdminRemains
<1>1. Init => RolesHold BY RolesInit
<1>2. RolesHold /\ [Next]_vars => RolesHold' BY RolesStep
<1>3. RolesHold => AdminRemains BY DEF RolesHold
<1> QED BY <1>1, <1>2, <1>3, PTL DEF Spec

-----------------------------------------------------------------------------
(* The import.  Each account it was asked for is still to be made a user,  *)
(* is one without a link yet, has been linked, or was linked until         *)
(* somebody else took the link back, unless an error was noted.            *)
MaybeProject == Projects \cup {None}
Modals ==
  [open : BOOLEAN, project : MaybeProject, listed : MaybeProject, rowsOf : MaybeProject,
   selected : SUBSET Accounts, options : MaybeProject, loading : MaybeProject, picks : Nat]
Imports ==
  [project : MaybeProject, asked : SUBSET Accounts, todo : SUBSET Accounts,
   created : Accounts \cup {None}, errors : BOOLEAN]

ModalTypes ==
  /\ modal \in Modals /\ cache \in [Projects -> MaybeProject]
  /\ modal.open => modal.project \in Projects
ImportTypes == import \in Imports /\ (import # NoImport => import.project \in Projects)
LinkTypes ==
  /\ link \in [Users -> [Projects -> Accounts \cup {None}]]
  /\ tracked \in [Projects -> SUBSET Accounts]
Accounted ==
  \A a \in import.asked :
    a \in import.todo \/ import.created = a \/ link[a][import.project] = a \/ a \in undone

ImportHolds == ModalTypes /\ ImportTypes /\ LinkTypes /\ (rowless \/ import.errors \/ Accounted)

LEMMA CandidatesType ==
  ASSUME NEW l \in MaybeProject PROVE Candidates(l) \subseteq Accounts
BY DEF Candidates, MaybeProject

LEMMA NoModalType == NoModal \in Modals /\ ~NoModal.open /\ NoImport \in Imports
BY DEF NoModal, NoImport, Modals, Imports, MaybeProject

LEMMA ListingType ==
  ASSUME NEW m \in Modals, NEW l \in MaybeProject
  PROVE  /\ Listing(m, l) \in Modals
         /\ Listing(m, l).open = m.open /\ Listing(m, l).project = m.project
<1>1. Candidates(l) \subseteq Accounts BY CandidatesType
<1>2. None \in MaybeProject BY DEF MaybeProject
<1>3. CASE l # m.listed
  <2> DEFINE e == [m EXCEPT !.listed = l, !.rowsOf = l, !.selected = Candidates(l)]
  <2>1. e \in Modals /\ e.open = m.open /\ e.project = m.project BY <1>1 DEF Modals
  <2>2. Listing(m, l) = e BY <1>3 DEF Listing
  <2> HIDE DEF e
  <2> QED BY <2>1, <2>2
<1>4. CASE l = m.listed
  <2> DEFINE e == [m EXCEPT !.rowsOf = None, !.selected = {}]
  <2>1. e \in Modals /\ e.open = m.open /\ e.project = m.project BY <1>2 DEF Modals
  <2>2. Listing(m, l) = e BY <1>4 DEF Listing
  <2> HIDE DEF e
  <2> QED BY <2>1, <2>2
<1> QED BY <1>3, <1>4

LEMMA ChooseKeeps ==
  ASSUME ModalTypes, NEW m \in Modals, m.open, NEW p \in Projects, Choose(m, p)
  PROVE  ModalTypes'
<1>1. cache \in [Projects -> MaybeProject] BY DEF ModalTypes
<1>2. m.options \in MaybeProject /\ cache[p] \in MaybeProject BY <1>1 DEF Modals
<1>3. cache' \in [Projects -> MaybeProject]
  BY <1>1, <1>2 DEF Choose
<1> DEFINE shown == IF m.options # None THEN m.options ELSE cache[p]
           s == Listing(m, shown)
           n == [s EXCEPT !.project = p]
           o == [n EXCEPT !.options = None, !.loading = p]
<1>4. shown \in MaybeProject BY <1>2
<1> HIDE DEF shown
<1>5. s \in Modals /\ s.open BY <1>4, ListingType
<1>6. modal' = n \/ modal' = o BY DEF Choose, shown
<1> HIDE DEF s
<1>7. p \in MaybeProject /\ None \in MaybeProject BY DEF MaybeProject
<1>8. n \in Modals /\ n.open /\ n.project = p BY <1>5, <1>7 DEF Modals
<1> HIDE DEF n
<1>9. o \in Modals /\ o.open /\ o.project = p BY <1>7, <1>8 DEF Modals
<1> HIDE DEF o
<1> QED BY <1>3, <1>6, <1>8, <1>9 DEF ModalTypes

LEMMA ClosedType ==
  ASSUME NEW m \in Modals PROVE Closed(m) \in Modals /\ ~Closed(m).open
<1> DEFINE e == [NoModal EXCEPT !.options = m.options, !.loading = m.loading, !.picks = m.picks]
<1>1. m.options \in MaybeProject /\ m.loading \in MaybeProject /\ m.picks \in Nat BY DEF Modals
<1>2. e \in Modals /\ e.open = NoModal.open BY <1>1, NoModalType DEF Modals
<1>3. Closed(m) = e BY DEF Closed
<1> HIDE DEF e
<1> QED BY <1>2, <1>3, NoModalType

LEMMA ImportInit == Init => ImportHolds
<1> SUFFICES ASSUME Init PROVE ImportHolds
  OBVIOUS
<1>1. ModalTypes BY NoModalType DEF Init, ConsoleInit, ModalTypes, MaybeProject
<1>2. import = NoImport BY DEF Init, ConsoleInit
<1>3. ImportTypes BY <1>2, NoModalType DEF ImportTypes
<1>4. LinkTypes BY DEF Init, ServerInit, LinkTypes
<1>5. Accounted BY <1>2 DEF Accounted, NoImport
<1> QED BY <1>1, <1>3, <1>4, <1>5 DEF ImportHolds

(* The modal on its own: what it shows is kept from the import.            *)
LEMMA ModalStep ==
  ASSUME ModalTypes,
         \/ \E p \in Projects : OpenModal(p) \/ SelectProject(p)
         \/ RefreshList \/ OptionsArrive \/ OptionsFail \/ ToggleSelection \/ CloseModal
  PROVE  ModalTypes' /\ UNCHANGED <<import, rowless, undone>> /\ UNCHANGED server
<1>0. /\ modal \in Modals /\ cache \in [Projects -> MaybeProject] /\ None \in MaybeProject
      /\ modal.open => modal.project \in Projects
  BY DEF ModalTypes, MaybeProject
<1>8. modal.picks \in Nat /\ modal.picks + 1 \in Nat BY <1>0 DEF Modals
<1>1. ASSUME NEW p \in Projects, OpenModal(p)
      PROVE  ModalTypes' /\ UNCHANGED <<import, rowless, undone>> /\ UNCHANGED server
  <2> DEFINE m == [modal EXCEPT !.open = TRUE, !.picks = @ + 1]
  <2>1. m \in Modals /\ m.open BY <1>0, <1>8 DEF Modals
  <2>2. Choose(m, p) /\ UNCHANGED <<import, rowless, undone>> /\ UNCHANGED server BY <1>1 DEF OpenModal
  <2> HIDE DEF m
  <2> QED BY <2>1, <2>2, ChooseKeeps
<1>2. ASSUME NEW p \in Projects, SelectProject(p)
      PROVE  ModalTypes' /\ UNCHANGED <<import, rowless, undone>> /\ UNCHANGED server
  <2> DEFINE m == [modal EXCEPT !.picks = @ + 1]
  <2>1. m \in Modals /\ m.open = modal.open BY <1>0, <1>8 DEF Modals
  <2>2. Choose(m, p) /\ modal.open /\ UNCHANGED <<import, rowless, undone>> /\ UNCHANGED server
    BY <1>2 DEF SelectProject
  <2> HIDE DEF m
  <2> QED BY <2>1, <2>2, ChooseKeeps
<1>3. CASE OptionsArrive
  <2> DEFINE m == [modal EXCEPT !.options = modal.loading, !.loading = None]
             n == [m EXCEPT !.listed = None]
             s == Listing(n, m.options)
  <2>1. /\ m \in Modals /\ m.open = modal.open /\ m.project = modal.project /\ m.options \in MaybeProject
    BY <1>0 DEF Modals
  <2>2. /\ \/ m.open /\ modal' = s /\ cache' = [cache EXCEPT ![m.project] = m.options]
           \/ modal' = m /\ UNCHANGED cache
        /\ UNCHANGED <<import, rowless, undone>> /\ UNCHANGED server
    BY <1>3 DEF OptionsArrive
  <2> HIDE DEF m
  <2>3. n \in Modals /\ n.open = m.open /\ n.project = m.project BY <1>0, <2>1 DEF Modals
  <2> HIDE DEF n
  <2>4. s \in Modals /\ s.open = m.open /\ s.project = m.project BY <2>1, <2>3, ListingType
  <2> HIDE DEF s
  <2> QED BY <1>0, <2>1, <2>2, <2>4 DEF ModalTypes
<1>4. CASE OptionsFail
  <2> DEFINE m == [modal EXCEPT !.loading = None]
  <2>1. m \in Modals /\ m.open = modal.open /\ m.project = modal.project BY <1>0 DEF Modals
  <2>2. modal' = m /\ UNCHANGED cache /\ UNCHANGED <<import, rowless, undone>> /\ UNCHANGED server
    BY <1>4 DEF OptionsFail
  <2> HIDE DEF m
  <2> QED BY <1>0, <2>1, <2>2 DEF ModalTypes
<1>5. CASE ToggleSelection
  <2>1. PICK t \in {modal.selected \cup Candidates(modal.listed)}
                   \cup {modal.selected \ {a} : a \in Candidates(modal.rowsOf)} :
               modal' = [modal EXCEPT !.selected = t, !.picks = @ + 1]
    BY <1>5, Zenon DEF ToggleSelection
  <2>2. Candidates(modal.listed) \subseteq Accounts
    <3>1. modal.listed \in MaybeProject BY <1>0 DEF Modals
    <3> QED BY <3>1, CandidatesType
  <2>3. modal.selected \subseteq Accounts BY <1>0 DEF Modals
  <2>4. t \subseteq Accounts BY <2>1, <2>2, <2>3
  <2> DEFINE m == [modal EXCEPT !.selected = t, !.picks = @ + 1]
  <2>5. m \in Modals /\ m.open = modal.open /\ m.project = modal.project BY <1>0, <1>8, <2>4 DEF Modals
  <2>6. modal' = m /\ UNCHANGED cache /\ UNCHANGED <<import, rowless, undone>> /\ UNCHANGED server
    BY <1>5, <2>1 DEF ToggleSelection
  <2> HIDE DEF m
  <2> QED BY <1>0, <2>5, <2>6 DEF ModalTypes
<1>6. CASE CloseModal
  <2>1. modal' = Closed(modal) /\ UNCHANGED cache /\ UNCHANGED <<import, rowless, undone>> /\ UNCHANGED server
    BY <1>6 DEF CloseModal
  <2> QED BY <1>0, <2>1, ClosedType DEF ModalTypes
<1>7. CASE RefreshList
  <2>1. PICK kept \in {None, modal.options} :
               modal' = [modal EXCEPT !.listed = None, !.rowsOf = None, !.selected = {},
                                      !.options = kept, !.loading = modal.project, !.picks = @ + 1]
    BY <1>7 DEF RefreshList
  <2> DEFINE m == [modal EXCEPT !.listed = None, !.rowsOf = None, !.selected = {},
                                !.options = kept, !.loading = modal.project, !.picks = @ + 1]
  <2>2. kept \in MaybeProject /\ modal.project \in MaybeProject BY <1>0, <2>1 DEF Modals
  <2>3. m \in Modals /\ m.open = modal.open /\ m.project = modal.project BY <1>0, <1>8, <2>2 DEF Modals
  <2>4. /\ modal' = m /\ cache' = [cache EXCEPT ![modal.project] = None]
        /\ UNCHANGED <<import, rowless, undone>> /\ UNCHANGED server
    BY <1>7, <2>1 DEF RefreshList
  <2> HIDE DEF m
  <2>5. cache' \in [Projects -> MaybeProject] BY <1>0, <2>4
  <2> QED BY <1>0, <2>3, <2>4, <2>5 DEF ModalTypes
<1> QED BY <1>1, <1>2, <1>3, <1>4, <1>5, <1>6, <1>7

LEMMA SubmitStep ==
  ASSUME ImportHolds, HandleImport PROVE ImportHolds'
<1>0. ModalTypes /\ LinkTypes /\ modal \in Modals /\ modal.project \in Projects /\ Projects \subseteq MaybeProject
  BY DEF HandleImport, ImportHolds, ModalTypes, MaybeProject
<1>1. UNCHANGED <<modal, cache, link, tracked>> BY DEF HandleImport, server
<1>2. ModalTypes' /\ LinkTypes' BY <1>0, <1>1 DEF ModalTypes, LinkTypes
<1> DEFINE listed == Candidates(modal.rowsOf)
           i == [NoImport EXCEPT !.project = modal.project, !.asked = modal.selected,
                                 !.todo = modal.selected \cap listed]
<1>3. modal.selected \subseteq Accounts BY <1>0 DEF Modals
<1>4. import' = i /\ rowless' = (rowless \/ ~(modal.selected \subseteq listed)) BY DEF HandleImport
<1> HIDE DEF listed
<1>5. /\ i \in Imports /\ i.project = modal.project /\ i.asked = modal.selected
      /\ i.todo = modal.selected \cap listed
  BY <1>0, <1>3, NoModalType DEF Imports
<1> HIDE DEF i
<1>6. ImportTypes' BY <1>0, <1>4, <1>5 DEF ImportTypes
<1>7. ~rowless' => Accounted' BY <1>4, <1>5 DEF Accounted
<1> QED BY <1>2, <1>6, <1>7 DEF ImportHolds

LEMMA CreateStep ==
  ASSUME ImportHolds, CreateNext PROVE ImportHolds'
<1>0. /\ ModalTypes /\ LinkTypes /\ ImportTypes /\ import \in Imports
      /\ rowless \/ import.errors \/ Accounted
  BY DEF ImportHolds, ImportTypes
<1>1. import.created = None /\ UNCHANGED <<modal, cache, rowless, undone>> BY DEF CreateNext
<1> DEFINE Rest(a) == [import EXCEPT !.todo = @ \ {a}]
           Made(a) == [Rest(a) EXCEPT !.created = a]
           Failed(a) == [Rest(a) EXCEPT !.errors = TRUE]
<1>2. PICK a \in import.todo :
        /\ import' = Made(a) \/ import' = Failed(a)
        /\ CreateUser(a) \/ UNCHANGED server
  BY DEF CreateNext
<1>3. UNCHANGED <<link, tracked>> BY <1>2 DEF CreateUser, server
<1>4. ModalTypes' /\ LinkTypes' BY <1>0, <1>1, <1>3 DEF ModalTypes, LinkTypes
<1>5. a \in Accounts BY <1>0, <1>2 DEF Imports
<1>6. import # NoImport BY <1>2 DEF NoImport
<1>7. import.project \in Projects BY <1>0, <1>6 DEF ImportTypes
<1>8. /\ Rest(a) \in Imports /\ Rest(a).project = import.project /\ Rest(a).asked = import.asked
      /\ Rest(a).todo = import.todo \ {a} /\ Rest(a).errors = import.errors
  BY <1>0 DEF Imports
<1> HIDE DEF Rest
<1>9. CASE import' = Made(a)
  <2>1. /\ Made(a) \in Imports /\ Made(a).project = import.project /\ Made(a).asked = import.asked
        /\ Made(a).todo = import.todo \ {a} /\ Made(a).created = a /\ Made(a).errors = import.errors
    BY <1>5, <1>8 DEF Imports
  <2> HIDE DEF Made
  <2>2. ImportTypes' BY <1>7, <1>9, <2>1 DEF ImportTypes
  <2>3. Accounted => Accounted'
    <3> SUFFICES ASSUME Accounted, NEW b \in import.asked
                 PROVE  b \in import'.todo \/ import'.created = b \/ link'[b][import'.project] = b
                        \/ b \in undone'
      BY <1>9, <2>1 DEF Accounted
    <3>1. b \in import.todo \/ link[b][import.project] = b \/ b \in undone
      <4>1. b \in Accounts BY <1>0 DEF Imports
      <4> QED BY <1>1, <4>1 DEF Accounted
    <3> QED BY <1>1, <1>3, <1>9, <2>1, <3>1
  <2> QED BY <1>0, <1>1, <1>4, <1>9, <2>1, <2>2, <2>3 DEF ImportHolds
<1>10. CASE import' = Failed(a)
  <2>1. Failed(a) \in Imports /\ Failed(a).project = import.project /\ Failed(a).errors
    BY <1>8 DEF Imports
  <2> HIDE DEF Failed
  <2> QED BY <1>4, <1>7, <1>10, <2>1 DEF ImportHolds, ImportTypes
<1> QED BY <1>2, <1>9, <1>10

LEMMA MapStep ==
  ASSUME ImportHolds, MapCreated PROVE ImportHolds'
<1>0. /\ ModalTypes /\ LinkTypes /\ ImportTypes /\ import \in Imports
      /\ rowless \/ import.errors \/ Accounted
  BY DEF ImportHolds, ImportTypes
<1>1. UNCHANGED <<modal, cache, rowless, undone>> BY DEF MapCreated
<1>2. ModalTypes' BY <1>0, <1>1 DEF ModalTypes
<1> DEFINE u == import.created
<1>3. u # None /\ u \in Accounts /\ u \in Users BY <1>0 DEF MapCreated, Imports, Users
<1>4. import # NoImport /\ import.project \in Projects
  BY <1>0, <1>3 DEF ImportTypes, NoImport
<1>5. CASE import' = [import EXCEPT !.created = None] /\ MapUserToProject(u, import.project, u)
  <2> DEFINE i == [import EXCEPT !.created = None]
  <2>1. /\ i \in Imports /\ i.project = import.project /\ i.asked = import.asked
        /\ i.todo = import.todo /\ i.errors = import.errors
    BY <1>0 DEF Imports
  <2>2. import' = i /\ link' = [link EXCEPT ![u][import.project] = u] /\ UNCHANGED tracked
    BY <1>5 DEF MapUserToProject
  <2> HIDE DEF i, u
  <2>3. link \in [Users -> [Projects -> Accounts \cup {None}]] BY <1>0 DEF LinkTypes
  <2>4. LinkTypes' BY <1>0, <1>3, <1>4, <2>2, <2>3 DEF LinkTypes
  <2>5. link'[u][import.project] = u
        /\ \A b \in Users : b # u => link'[b] = link[b]
    BY <1>3, <1>4, <2>2, <2>3
  <2>6. ImportTypes' BY <1>4, <2>1, <2>2 DEF ImportTypes
  <2>7. Accounted => Accounted'
    <3> SUFFICES ASSUME Accounted, NEW b \in import.asked
                 PROVE  b \in import.todo \/ link'[b][import.project] = b \/ b \in undone
      BY <1>1, <2>1, <2>2 DEF Accounted
    <3>1. b \in Users BY <1>0 DEF Imports, Users
    <3> QED BY <2>5, <3>1 DEF Accounted, u
  <2> QED BY <1>0, <1>1, <1>2, <2>1, <2>2, <2>4, <2>6, <2>7 DEF ImportHolds
<1>6. CASE import' = [import EXCEPT !.created = None, !.errors = TRUE] /\ UNCHANGED server
  <2> DEFINE i == [import EXCEPT !.created = None, !.errors = TRUE]
  <2>1. i \in Imports /\ i.project = import.project /\ i.errors BY <1>0 DEF Imports
  <2>2. import' = i /\ UNCHANGED <<link, tracked>> BY <1>6 DEF server
  <2> HIDE DEF i
  <2>3. LinkTypes' BY <1>0, <2>2 DEF LinkTypes
  <2> QED BY <1>2, <1>4, <2>1, <2>2, <2>3 DEF ImportHolds, ImportTypes
<1> QED BY <1>5, <1>6 DEF MapCreated, ImportedProject

LEMMA EndStep ==
  ASSUME ImportHolds, EndImport PROVE ImportHolds'
<1>1. import' = NoImport /\ UNCHANGED <<cache, link, tracked>> /\ modal' \in {modal, Closed(modal)}
  BY DEF EndImport, server
<1>2. ModalTypes /\ modal \in Modals BY DEF ImportHolds, ModalTypes
<1>3. ModalTypes' BY <1>1, <1>2, ClosedType DEF ModalTypes
<1>4. LinkTypes' BY <1>1 DEF ImportHolds, LinkTypes
<1>5. ImportTypes' BY <1>1, NoModalType DEF ImportTypes
<1>6. Accounted' BY <1>1 DEF Accounted, NoImport
<1> QED BY <1>3, <1>4, <1>5, <1>6 DEF ImportHolds

LEMMA SameImport ==
  ASSUME ImportHolds, ModalTypes', UNCHANGED <<import, rowless, undone, link, tracked>> PROVE ImportHolds'
BY DEF ImportHolds, ImportTypes, LinkTypes, Accounted

(* Others change the tracked accounts and the links.                       *)
LEMMA EditKeeps ==
  ASSUME LinkTypes, MapUser \/ Unlink \/ SetTrackedUsers PROVE LinkTypes'
<1>0. /\ link \in [Users -> [Projects -> Accounts \cup {None}]]
      /\ tracked \in [Projects -> SUBSET Accounts]
  BY DEF LinkTypes
<1>1. CASE MapUser
  <2>1. PICK u \in Handled, p \in Projects : \E a \in tracked[p] : MapUserToProject(u, p, a)
    BY <1>1 DEF MapUser
  <2>2. PICK a \in tracked[p] : link' = [link EXCEPT ![u][p] = a] /\ UNCHANGED tracked
    BY <2>1 DEF MapUserToProject
  <2>3. a \in Accounts /\ u \in Users BY <1>0, <2>2 DEF Users
  <2>4. link' \in [Users -> [Projects -> Accounts \cup {None}]]
    BY <1>0, <2>2, <2>3
  <2> QED BY <1>0, <2>2, <2>4 DEF LinkTypes
<1>2. CASE Unlink
  <2>1. PICK u \in Users, p \in Projects : link' = [link EXCEPT ![u][p] = None] /\ UNCHANGED tracked
    BY <1>2 DEF Unlink, UnlinkUserFromProject
  <2>2. link' \in [Users -> [Projects -> Accounts \cup {None}]]
    BY <1>0, <2>1
  <2> QED BY <1>0, <2>1, <2>2 DEF LinkTypes
<1>3. CASE SetTrackedUsers
  <2>1. PICK p \in Projects : \E chosen \in SUBSET (Assignable[p] \cup tracked[p]) :
                                 SetProjectTrackedUsers(p, chosen)
    BY <1>3 DEF SetTrackedUsers
  <2>2. PICK chosen \in SUBSET (Assignable[p] \cup tracked[p]) :
          tracked' = [tracked EXCEPT ![p] = chosen] /\ UNCHANGED link
    BY <2>1 DEF SetProjectTrackedUsers
  <2>3. chosen \subseteq Accounts BY <1>0, <2>2
  <2> QED BY <1>0, <2>2, <2>3 DEF LinkTypes
<1> QED BY <1>1, <1>2, <1>3

LEMMA ImportStep == ImportHolds /\ [Next]_vars => ImportHolds'
<1> SUFFICES ASSUME ImportHolds, [Next]_vars PROVE ImportHolds'
  OBVIOUS
<1>0. ModalTypes /\ LinkTypes BY DEF ImportHolds
<1>1. CASE ConsoleStep
  <2>1. CASE \/ \E p \in Projects : OpenModal(p) \/ SelectProject(p)
             \/ RefreshList \/ OptionsArrive \/ OptionsFail \/ ToggleSelection \/ CloseModal
    <3>1. ModalTypes' /\ UNCHANGED <<import, rowless, undone>> /\ UNCHANGED server
      BY <1>0, <2>1, ModalStep
    <3> QED BY <3>1, SameImport DEF server
  <2> QED BY <1>1, <2>1, SubmitStep, CreateStep, MapStep, EndStep DEF ConsoleStep
<1>2. ASSUME UNCHANGED console, UNCHANGED <<link, tracked>> PROVE ImportHolds'
  <2>1. ModalTypes' BY <1>0, <1>2 DEF ModalTypes, console
  <2> QED BY <1>2, <2>1, SameImport DEF console
<1>3. ASSUME UNCHANGED <<modal, cache, import, rowless>>, LinkTypes',
             \A a \in import.asked :
               /\ a \in undone => a \in undone'
               /\ link[a][import.project] = a => link'[a][import.project] = a \/ a \in undone'
      PROVE  ImportHolds'
  <2>1. ModalTypes' /\ ImportTypes' BY <1>0, <1>3 DEF ModalTypes, ImportTypes, ImportHolds
  <2>2. Accounted => Accounted' BY <1>3 DEF Accounted
  <2> QED BY <1>3, <2>1, <2>2 DEF ImportHolds
<1>4. CASE ReviewStep /\ UNCHANGED console
  <2>1. ASSUME NEW c, Serve(c) PROVE UNCHANGED <<link, tracked>>
    <3>1. CASE c.kind = "notes"
      BY <2>1, <3>1 DEF Serve, SavePerformanceNote
    <3>2. CASE c.kind # "notes"
      BY <2>1, <3>2 DEF Serve, server
    <3> QED BY <3>1, <3>2
  <2>2. UNCHANGED <<link, tracked>>
    BY <1>4, <2>1
       DEF ReviewStep, Select, Refresh, TypeNotes, HandleSaveNotes, FetchView, Refuse, Receive, server
  <2> QED BY <1>2, <1>4, <2>2
<1>5. CASE Others
  <2>1. CASE NoteOfOthers
    BY <1>2, <2>1 DEF NoteOfOthers, SavePerformanceNote
  <2>2. CASE AsksForRole
    BY <1>2, <2>2 DEF AsksForRole, AskForRole, RequestRole
  <2>3. CASE RolesChange
    BY <1>2, <2>3 DEF RolesChange, ChangeRoles, SeedAdminUser, UpdateUserRole
  <2>4. CASE EditsElsewhere
    <3>1. PICK kind : EditsOfOthers(kind) BY <2>4 DEF EditsElsewhere
    <3>2. LinkTypes'
      <4>1. CASE MakeUser
        <5>1. UNCHANGED <<link, tracked>> BY <4>1 DEF MakeUser, CreateUser
        <5> QED BY <1>0, <5>1 DEF LinkTypes
      <4> QED BY <1>0, <3>1, <4>1, EditKeeps DEF EditsOfOthers, EditPeople
    <3> QED BY <1>3, <3>1, <3>2 DEF EditsOfOthers
  <2>5. CASE EditsInReview
    <3>1. LinkTypes' BY <1>0, <2>5, EditKeeps DEF EditsInReview
    <3>2. UNCHANGED link BY <2>5 DEF EditsInReview, SetTrackedUsers, SetProjectTrackedUsers
    <3> QED BY <1>3, <2>5, <3>1, <3>2 DEF EditsInReview, console
  <2> QED BY <1>5, <2>1, <2>2, <2>3, <2>4, <2>5 DEF Others
<1>6. CASE UNCHANGED <<server, console>>
  BY <1>2, <1>6 DEF server
<1> QED BY <1>1, <1>4, <1>5, <1>6 DEF Next, vars

(* ImportTells: an import that ends without a message has linked every     *)
(* account it was asked for, unless one without a row was submitted,       *)
(* whatever is chosen in the modal and whatever others do meanwhile; a     *)
(* link is gone only where somebody else took it back (handleImport).      *)
THEOREM ImportsTell == Spec => []ImportTells
<1>1. Init => ImportHolds BY ImportInit
<1>2. ImportHolds /\ [Next]_vars => ImportHolds' BY ImportStep
<1>3. ImportHolds => ImportTells
  <2> SUFFICES ASSUME ImportHolds, ImportDone, ~import.errors, ~rowless, NEW a \in import.asked \ undone
               PROVE  link[a][import.project] = a
    BY DEF ImportTells
  <2>1. import.todo = {} /\ import.created = None BY DEF ImportDone
  <2>2. a \in Accounts BY DEF ImportHolds, ImportTypes, Imports
  <2> QED BY <2>1, <2>2 DEF ImportHolds, Accounted
<1> QED BY <1>1, <1>2, <1>3, PTL DEF Spec

-----------------------------------------------------------------------------
(* The review page.  Unless an answer for another selection has come, the  *)
(* draft is about the selected teammate, and so is what was sent to be     *)
(* saved; an answer with notes is about the one that was asked for.        *)
MaybeKeys == (SUBSET Keys) \cup {None}
Kinds == Views \cup {"metrics", "notes"}
Reviews ==
  [offered : [Projects -> SUBSET Accounts], project : MaybeProject, member : Accounts \cup {None},
   metrics : MaybeKeys, shown : [Views -> MaybeKeys], draft : SUBSET Keys,
   loading : SUBSET Kinds, choices : Nat]
Calls ==
  [kind : Kinds, of : SUBSET Keys, text : SUBSET Keys, state : {"asked", "answered", "refused"},
   note : MaybeKeys]

ReviewTypes ==
  review \in Reviews /\ BagToSet(calls) \subseteq Calls /\ notes \in [Keys -> MaybeKeys]

(* A text about keys, or one that is spoilt already.                       *)
Own(text, keys, bad) == text \subseteq keys \/ keys \cap bad # {}

Sent(c, bad) ==
  /\ c.kind = "notes" => (\E k \in Keys : c.of = {k}) /\ Own(c.text, c.of, bad)
  /\ c.note # None => Own(c.note, c.of, bad)

CallsHold == \A c \in BagToSet(calls) : Sent(c, spoilt)
DraftHolds == late \/ Own(review.draft, ActiveEntries(review), spoilt)
NotesHold == \A k \in Keys : notes[k] # None => Own(notes[k], {k}, spoilt)

ReviewHolds == ReviewTypes /\ CallsHold /\ DraftHolds /\ NotesHold /\ ReviewShowsSelected

LEMMA AddedToBag ==
  ASSUME NEW B, NEW S PROVE BagToSet(B (+) SetToBag(S)) = BagToSet(B) \cup S
BY DEF BagToSet, (+), SetToBag

LEMMA TakenFromBag ==
  ASSUME NEW B, NEW S PROVE BagToSet(B (-) SetToBag(S)) \subseteq BagToSet(B)
BY DEF BagToSet, (-), SetToBag

LEMMA ActiveType == ASSUME NEW r PROVE ActiveEntries(r) \in SUBSET Keys
BY DEF ActiveEntries

(* Whose entries they are depends on the selection and the offer alone.    *)
LEMMA ActiveSame ==
  ASSUME NEW r, NEW s, r.offered = s.offered, r.project = s.project, r.member = s.member
  PROVE  ActiveEntries(r) = ActiveEntries(s)
BY DEF ActiveEntries

(* In a project there is one.                                              *)
LEMMA OneEntry ==
  ASSUME NEW r, r.project # None, ActiveEntries(r) # {}
  PROVE  \E k \in Keys : ActiveEntries(r) = {k}
<1>1. PICK k \in ActiveEntries(r) : TRUE OBVIOUS
<1>2. k \in Keys /\ k = <<r.project, r.member>> BY DEF ActiveEntries, Keys
<1>3. \A j \in ActiveEntries(r) : j = <<r.project, r.member>> BY DEF ActiveEntries, Keys
<1> QED BY <1>1, <1>2, <1>3

LEMMA CallType ==
  ASSUME NEW kind \in Kinds, NEW entries \in SUBSET Keys, NEW text \in SUBSET Keys
  PROVE  LET c == Call(kind, entries, text)
         IN  c \in Calls /\ c.kind = kind /\ c.of = entries /\ c.text = text /\ c.note = None
BY DEF Call, Calls, MaybeKeys

(* What the effects ask for is never a save.                               *)
LEMMA FetchType ==
  ASSUME NEW r, NEW c \in FetchMetrics(r) \cup FetchSummary(r)
  PROVE  c \in Calls /\ c.kind \in Kinds /\ c.kind # "notes" /\ c.note = None
<1>1. PICK kind \in {"metrics", "summary"} : c = Call(kind, ActiveEntries(r), {})
  BY DEF FetchMetrics, FetchSummary
<1>2. kind \in Kinds /\ kind # "notes" BY DEF Kinds, Views
<1> QED BY <1>1, <1>2, CallType, ActiveType

LEMMA OwnStays ==
  ASSUME NEW text, NEW keys, NEW bad, NEW worse, bad \subseteq worse, Own(text, keys, bad)
  PROVE  Own(text, keys, worse)
BY DEF Own

SameSelection(r, s) == r.offered = s.offered /\ r.project = s.project /\ r.member = s.member
SameView(r, s) == SameSelection(r, s) /\ r.metrics = s.metrics /\ r.shown = s.shown
SamePage(r, s) == SameView(r, s) /\ r.draft = s.draft

LEMMA AsksType ==
  ASSUME NEW r \in Reviews, NEW under, NEW new \in SUBSET Calls, Asks(r, under, new)
  PROVE  /\ review' \in Reviews /\ SamePage(review', r)
         /\ BagToSet(calls') = BagToSet(under) \cup new
<1> DEFINE asked == {c.kind : c \in new}
           n == [r EXCEPT !.loading = @ \cup asked]
<1>1. asked \subseteq Kinds BY DEF Calls
<1>2. review' = n BY DEF Asks
<1> HIDE DEF asked
<1>3. n \in Reviews /\ SamePage(n, r)
  BY <1>1 DEF Reviews, SamePage, SameView, SameSelection
<1>4. BagToSet(calls') = BagToSet(under) \cup new
  BY AddedToBag DEF Asks, Asking
<1> HIDE DEF n
<1> QED BY <1>2, <1>3, <1>4

LEMMA ChosenType == ASSUME NEW r \in Reviews PROVE Chosen(r) \in Reviews /\ SamePage(Chosen(r), r)
BY DEF Chosen, Reviews, SamePage, SameView, SameSelection

(* Requests go out, or answers have been taken: the notes stay.            *)
LEMMA CallsKeep ==
  ASSUME ReviewHolds, UNCHANGED notes, spoilt \subseteq spoilt',
         NEW new \in SUBSET Calls, BagToSet(calls') \subseteq BagToSet(calls) \cup new,
         \A c \in new : Sent(c, spoilt'), review' \in Reviews
  PROVE  ReviewTypes' /\ CallsHold' /\ NotesHold'
<1>1. ReviewTypes' BY DEF ReviewHolds, ReviewTypes
<1>2. \A c \in BagToSet(calls) : Sent(c, spoilt')
  BY OwnStays DEF ReviewHolds, CallsHold, Sent
<1>3. CallsHold' BY <1>2 DEF CallsHold, Sent
<1>4. NotesHold' BY OwnStays DEF ReviewHolds, NotesHold
<1> QED BY <1>1, <1>3, <1>4

LEMMA PageStays ==
  ASSUME ReviewHolds, SamePage(review', review), late' = late, spoilt \subseteq spoilt'
  PROVE  DraftHolds' /\ ReviewShowsSelected'
<1>1. ActiveEntries(review') = ActiveEntries(review)
  BY ActiveSame DEF SamePage, SameView, SameSelection
<1>2. DraftHolds'
  BY <1>1, OwnStays DEF ReviewHolds, DraftHolds, SamePage
<1>3. ReviewShowsSelected'
  BY <1>1 DEF ReviewHolds, ReviewShowsSelected, SamePage, SameView
<1> QED BY <1>2, <1>3

LEMMA SelectKeeps == ASSUME ReviewHolds, Select PROVE ReviewHolds'
<1>1. PICK p \in Projects \cup {None}, m \in Accounts \cup {None} :
        LET r == [review EXCEPT !.project = p, !.member = m]
            stays == review.member \in MemberOptions(r)
        IN Asks(Reset(Chosen(r)), calls,
                FetchMetrics(r) \cup IF review.metrics # None /\ stays THEN FetchSummary(r) ELSE {})
  BY DEF Select
<1> DEFINE r == [review EXCEPT !.project = p, !.member = m]
           new == FetchMetrics(r) \cup IF review.metrics # None /\ review.member \in MemberOptions(r)
                                       THEN FetchSummary(r) ELSE {}
           s == Reset(Chosen(r))
<1>2. late' = FALSE /\ UNCHANGED <<spoilt, notes>> /\ review \in Reviews
  BY DEF Select, server, ReviewHolds, ReviewTypes
<1>3. r \in Reviews BY <1>2 DEF Reviews, MaybeProject
<1>4. Asks(s, calls, new) BY <1>1
<1>5. \A c \in new : c \in Calls /\ c.kind # "notes" /\ c.note = None BY FetchType
<1> HIDE DEF r, new
<1>6. s \in Reviews /\ s.draft = {} /\ s.metrics = None /\ s.shown = NoReview.shown
  <2> DEFINE e == [Chosen(r) EXCEPT !.metrics = None, !.shown = NoReview.shown, !.draft = {}]
  <2>1. Chosen(r) \in Reviews BY <1>3, ChosenType
  <2>2. NoReview.shown \in [Views -> MaybeKeys] /\ None \in MaybeKeys BY DEF NoReview, MaybeKeys
  <2>3. e \in Reviews /\ e.draft = {} /\ e.metrics = None /\ e.shown = NoReview.shown
    BY <2>1, <2>2 DEF Reviews
  <2>4. s = e BY DEF Reset
  <2> HIDE DEF e, s
  <2> QED BY <2>3, <2>4
<1> HIDE DEF s
<1>7. review' \in Reviews /\ SamePage(review', s) /\ BagToSet(calls') = BagToSet(calls) \cup new
  BY <1>4, <1>5, <1>6, AsksType
<1>8. \A c \in new : Sent(c, spoilt') BY <1>5 DEF Sent
<1>9. ReviewTypes' /\ CallsHold' /\ NotesHold'
  BY <1>2, <1>5, <1>7, <1>8, CallsKeep
<1>10. DraftHolds' BY <1>6, <1>7 DEF DraftHolds, Own, SamePage
<1>11. ReviewShowsSelected'
  BY <1>6, <1>7 DEF ReviewShowsSelected, SamePage, SameView, NoReview, Views
<1> QED BY <1>9, <1>10, <1>11 DEF ReviewHolds

(* Asking for what is selected changes nothing of the page.                *)
LEMMA AskKeeps ==
  ASSUME ReviewHolds, NEW new \in SUBSET Calls, Asks(Chosen(review), calls, new),
         spoilt \subseteq spoilt', \A c \in new : Sent(c, spoilt'), UNCHANGED <<notes, late>>
  PROVE  ReviewHolds'
<1>1. review \in Reviews BY DEF ReviewHolds, ReviewTypes
<1>2. Chosen(review) \in Reviews /\ SamePage(Chosen(review), review) BY <1>1, ChosenType
<1>3. /\ review' \in Reviews /\ SamePage(review', Chosen(review))
      /\ BagToSet(calls') = BagToSet(calls) \cup new
  BY <1>2, AsksType
<1>4. SamePage(review', review) BY <1>2, <1>3 DEF SamePage, SameView, SameSelection
<1> QED BY <1>3, <1>4, CallsKeep, PageStays DEF ReviewHolds

LEMMA RefreshKeeps == ASSUME ReviewHolds, Refresh PROVE ReviewHolds'
<1> DEFINE new == FetchMetrics(review)
<1>1. \A c \in new : c \in Calls /\ Sent(c, spoilt) BY FetchType DEF Sent
<1>2. /\ Asks(Chosen(review), Asking(calls, new), new)
      /\ UNCHANGED <<spoilt, notes, late>>
  BY DEF Refresh, server
<1> HIDE DEF new
<1>3. review \in Reviews BY DEF ReviewHolds, ReviewTypes
<1>4. Chosen(review) \in Reviews /\ SamePage(Chosen(review), review) BY <1>3, ChosenType
<1>5. /\ review' \in Reviews /\ SamePage(review', Chosen(review))
      /\ BagToSet(calls') = BagToSet(Asking(calls, new)) \cup new
  BY <1>1, <1>2, <1>4, AsksType
<1>6. BagToSet(Asking(calls, new)) = BagToSet(calls) \cup new BY AddedToBag DEF Asking
<1>7. SamePage(review', review) BY <1>4, <1>5 DEF SamePage, SameView, SameSelection
<1>8. ReviewTypes' /\ CallsHold' /\ NotesHold'
  BY <1>1, <1>2, <1>5, <1>6, CallsKeep
<1> QED BY <1>2, <1>7, <1>8, PageStays DEF ReviewHolds

LEMMA FetchKeeps == ASSUME ReviewHolds, NEW v \in Views, FetchView(v) PROVE ReviewHolds'
<1> DEFINE c == Call(v, ActiveEntries(review), {})
<1>1. c \in Calls /\ c.kind # "notes" /\ c.note = None
  BY CallType, ActiveType DEF Kinds, Views
<1>2. Asks(Chosen(review), calls, {c}) /\ UNCHANGED <<spoilt, notes, late>>
  BY DEF FetchView, server
<1>3. Sent(c, spoilt') BY <1>1 DEF Sent
<1> HIDE DEF c
<1> QED BY <1>1, <1>2, <1>3, AskKeeps

LEMMA TypeKeeps == ASSUME ReviewHolds, TypeNotes PROVE ReviewHolds'
<1> DEFINE active == ActiveEntries(review)
           n == [review EXCEPT !.draft = @ \cup active]
<1>1. review \in Reviews BY DEF ReviewHolds, ReviewTypes
<1>2. review' = n /\ UNCHANGED <<calls, late, spoilt, notes>>
  BY DEF TypeNotes, server
<1>3. active \in SUBSET Keys BY ActiveType
<1> HIDE DEF active
<1>4. n \in Reviews /\ SameView(n, review) /\ n.draft = review.draft \cup active
  BY <1>1, <1>3 DEF Reviews, SameView, SameSelection
<1> HIDE DEF n
<1>5. ActiveEntries(review') = active
  BY <1>2, <1>4, ActiveSame DEF SameView, SameSelection, active
<1>6. ReviewTypes' /\ CallsHold' /\ NotesHold'
  <2>1. {} \in SUBSET Calls /\ BagToSet(calls') \subseteq BagToSet(calls) \cup {} BY <1>2
  <2> QED BY <1>2, <1>4, <2>1, CallsKeep
<1>7. DraftHolds'
  BY <1>2, <1>4, <1>5 DEF ReviewHolds, DraftHolds, Own, active
<1>8. ReviewShowsSelected'
  BY <1>2, <1>4, <1>5 DEF ReviewHolds, ReviewShowsSelected, SameView, active
<1> QED BY <1>6, <1>7, <1>8 DEF ReviewHolds

LEMMA SaveKeeps == ASSUME ReviewHolds, HandleSaveNotes PROVE ReviewHolds'
<1> DEFINE active == ActiveEntries(review)
           c == Call("notes", active, review.draft)
<1>1. review \in Reviews /\ review.draft \in SUBSET Keys BY DEF ReviewHolds, ReviewTypes, Reviews
<1>2. /\ Asks(Chosen(review), calls, {c}) /\ UNCHANGED <<notes, late>>
      /\ spoilt' = IF late THEN spoilt \cup active ELSE spoilt
  BY DEF HandleSaveNotes, server
<1>3. c \in Calls /\ c.kind = "notes" /\ c.of = active /\ c.text = review.draft /\ c.note = None
  BY <1>1, CallType, ActiveType DEF Kinds
<1> HIDE DEF c
<1>4. \E k \in Keys : active = {k}
  BY OneEntry DEF HandleSaveNotes, CanWrite, IsPortfolioView
<1>5. Own(review.draft, active, spoilt')
  BY <1>2, <1>4 DEF ReviewHolds, DraftHolds, Own
<1>6. Sent(c, spoilt') BY <1>3, <1>4, <1>5 DEF Sent
<1>7. spoilt \subseteq spoilt' BY <1>2
<1>8. {c} \in SUBSET Calls /\ \A d \in {c} : Sent(d, spoilt') BY <1>3, <1>6
<1> HIDE DEF active
<1> QED BY <1>2, <1>7, <1>8, AskKeeps

LEMMA ServeKeeps == ASSUME ReviewHolds, NEW c \in BagToSet(calls), Serve(c) PROVE ReviewHolds'
<1>0. /\ c \in Calls /\ Sent(c, spoilt) /\ ReviewTypes /\ NotesHold /\ CallsHold
      /\ notes \in [Keys -> MaybeKeys] /\ c.of \in SUBSET Keys
  BY DEF ReviewHolds, ReviewTypes, CallsHold, Calls
<1>1. UNCHANGED <<review, late, spoilt>> BY DEF Serve
<1>2. PICK note \in {notes[k] : k \in c.of} :
        Becomes(c, [c EXCEPT !.state = "answered", !.note = IF Cardinality(c.of) = 1 THEN note ELSE None])
  BY Zenon DEF Serve
<1> DEFINE said == IF Cardinality(c.of) = 1 THEN note ELSE None
           d == [c EXCEPT !.state = "answered", !.note = said]
<1>3. said \in MaybeKeys /\ (said # None => Own(said, c.of, spoilt))
  <2>1. PICK k \in c.of : note = notes[k] BY <1>2
  <2>2. note # None => Own(note, {k}, spoilt) BY <1>0, <2>1 DEF NotesHold
  <2>3. note # None => Own(note, c.of, spoilt) BY <2>1, <2>2 DEF Own
  <2>4. note \in MaybeKeys /\ None \in MaybeKeys BY <1>0, <2>1 DEF MaybeKeys
  <2> QED BY <2>3, <2>4
<1>4. Becomes(c, d) BY <1>2
<1> HIDE DEF said
<1>5. /\ d \in Calls /\ d.kind = c.kind /\ d.of = c.of /\ d.text = c.text /\ d.note = said
  BY <1>0, <1>3 DEF Calls
<1> HIDE DEF d
<1>6. Sent(d, spoilt) BY <1>0, <1>3, <1>5 DEF Sent
<1>7. BagToSet(calls') \subseteq BagToSet(calls) \cup {d}
  BY <1>4, AddedToBag, TakenFromBag DEF Becomes
<1>8. CallsHold' BY <1>0, <1>1, <1>6, <1>7 DEF CallsHold
<1>9. notes' \in [Keys -> MaybeKeys] /\ NotesHold'
  <2>1. CASE c.kind = "notes"
    <3>1. PICK k \in c.of : SavePerformanceNote(k, c.text) BY <2>1 DEF Serve
    <3>2. notes' = [notes EXCEPT ![k] = c.text] BY <3>1 DEF SavePerformanceNote
    <3>3. c.of = {k} /\ k \in Keys /\ Own(c.text, {k}, spoilt) BY <1>0, <2>1, <3>1 DEF Sent
    <3>4. c.text \in MaybeKeys BY <1>0 DEF Calls, MaybeKeys
    <3>5. notes' \in [Keys -> MaybeKeys] BY <1>0, <3>2, <3>4
    <3>6. \A j \in Keys : notes'[j] = IF j = k THEN c.text ELSE notes[j] BY <1>0, <3>2
    <3> QED BY <1>0, <1>1, <3>2, <3>3, <3>5, <3>6 DEF NotesHold
  <2>2. CASE c.kind # "notes"
    <3>1. UNCHANGED notes BY <2>2 DEF Serve, server
    <3> QED BY <1>0, <1>1, <3>1 DEF NotesHold
  <2> QED BY <2>1, <2>2
<1>10. ReviewTypes' BY <1>0, <1>1, <1>5, <1>7, <1>9 DEF ReviewTypes
<1>11. DraftHolds' /\ ReviewShowsSelected'
  BY <1>1 DEF ReviewHolds, DraftHolds, ReviewShowsSelected, ActiveEntries
<1> QED BY <1>8, <1>9, <1>10, <1>11 DEF ReviewHolds

LEMMA RefuseKeeps == ASSUME ReviewHolds, NEW c \in BagToSet(calls), Refuse(c) PROVE ReviewHolds'
<1> DEFINE d == [c EXCEPT !.state = "refused"]
<1>1. UNCHANGED <<review, late, spoilt, notes>> /\ Becomes(c, d) BY DEF Refuse, server
<1>2. c \in Calls /\ Sent(c, spoilt) /\ review \in Reviews BY DEF ReviewHolds, ReviewTypes, CallsHold
<1>3. /\ d \in Calls /\ d.kind = c.kind /\ d.of = c.of /\ d.text = c.text /\ d.note = c.note
  BY <1>2 DEF Calls
<1> HIDE DEF d
<1>4. {d} \in SUBSET Calls /\ \A e \in {d} : Sent(e, spoilt') BY <1>1, <1>2, <1>3 DEF Sent
<1>5. BagToSet(calls') \subseteq BagToSet(calls) \cup {d}
  BY <1>1, AddedToBag, TakenFromBag DEF Becomes
<1>6. ReviewTypes' /\ CallsHold' /\ NotesHold' BY <1>1, <1>2, <1>4, <1>5, CallsKeep
<1>7. DraftHolds' /\ ReviewShowsSelected'
  BY <1>1 DEF ReviewHolds, DraftHolds, ReviewShowsSelected, ActiveEntries
<1> QED BY <1>6, <1>7 DEF ReviewHolds

(* An answer is taken: it is late unless it is about what is selected.     *)
LEMMA ReceiveKeeps == ASSUME ReviewHolds, NEW c \in BagToSet(calls), Receive(c) PROVE ReviewHolds'
<1> DEFINE r == [review EXCEPT !.loading = @ \ {c.kind}]
           active == ActiveEntries(review)
           left == calls (-) SetToBag({c})
<1>0. /\ c \in Calls /\ Sent(c, spoilt) /\ review \in Reviews /\ ReviewShowsSelected /\ DraftHolds
      /\ UNCHANGED <<spoilt, notes>>
      /\ late' = (late \/ (c.state = "answered" /\ c.of # active))
  BY DEF ReviewHolds, ReviewTypes, CallsHold, Receive, server
<1>1. ReceiveMetrics(c, r) \/ ReceiveView(c, r) \/ ReceiveSaved(c, r) BY DEF Receive
<1>2. r \in Reviews /\ SamePage(r, review) BY <1>0 DEF Reviews, SamePage, SameView, SameSelection
<1>3. BagToSet(left) \subseteq BagToSet(calls) BY TakenFromBag
<1> HIDE DEF r
<1>4. ASSUME NEW s, SameSelection(s, r) PROVE ActiveEntries(s) = active
  BY <1>2, <1>4, ActiveSame DEF SamePage, SameView, SameSelection
<1>5. c.of \in MaybeKeys /\ c.text \in SUBSET Keys /\ {} \in MaybeKeys /\ None \in MaybeKeys
  BY <1>0 DEF Calls, MaybeKeys
<1>6. ASSUME calls' = left, review' \in Reviews PROVE ReviewTypes' /\ CallsHold' /\ NotesHold'
  <2>1. {} \in SUBSET Calls /\ BagToSet(calls') \subseteq BagToSet(calls) \cup {} BY <1>3, <1>6
  <2> HIDE DEF left
  <2> QED BY <1>0, <1>6, <2>1, CallsKeep
<1>7. CASE ReceiveMetrics(c, r) /\ c.state = "answered"
  <2> DEFINE text == IF c.note = None THEN {} ELSE c.note
             n == [r EXCEPT !.metrics = c.of, !.draft = text]
             new == FetchSummary(n)
  <2>1. Asks(n, left, new) BY <1>7 DEF ReceiveMetrics
  <2>2. text \in SUBSET Keys /\ Own(text, c.of, spoilt)
    BY <1>0 DEF Calls, MaybeKeys, Sent, Own
  <2> HIDE DEF text
  <2>3. /\ n \in Reviews /\ SameSelection(n, r) /\ n.metrics = c.of /\ n.draft = text
        /\ n.shown = r.shown
    BY <1>2, <1>5, <2>2 DEF Reviews, SameSelection
  <2> HIDE DEF n
  <2>4. \A d \in new : d \in Calls /\ Sent(d, spoilt') BY FetchType DEF Sent
  <2> HIDE DEF new
  <2>5. review' \in Reviews /\ SamePage(review', n) /\ BagToSet(calls') = BagToSet(left) \cup new
    BY <2>1, <2>3, <2>4, AsksType
  <2> HIDE DEF left
  <2>6. ReviewTypes' /\ CallsHold' /\ NotesHold' BY <1>0, <1>3, <2>4, <2>5, CallsKeep
  <2>7. ActiveEntries(review') = active
    BY <1>4, <2>3, <2>5 DEF SamePage, SameView, SameSelection
  <2>8. DraftHolds'
    BY <1>0, <1>7, <2>2, <2>3, <2>5, <2>7 DEF DraftHolds, SamePage
  <2>9. ReviewShowsSelected'
    BY <1>0, <1>2, <1>7, <2>3, <2>5, <2>7 DEF ReviewShowsSelected, SamePage, SameView
  <2> QED BY <2>6, <2>8, <2>9 DEF ReviewHolds
<1>8. CASE ReceiveMetrics(c, r) /\ c.state # "answered"
  <2> DEFINE text == IF r.metrics = None THEN r.shown["summary"] ELSE None
             n == [r EXCEPT !.metrics = None, !.shown["summary"] = text]
  <2>1. review' = n /\ calls' = left BY <1>8 DEF ReceiveMetrics
  <2>2. r.shown \in [Views -> MaybeKeys] /\ "summary" \in Views BY <1>2 DEF Reviews, Views
  <2>3. text \in MaybeKeys BY <1>5, <2>2
  <2>4. /\ n \in Reviews /\ SameSelection(n, r) /\ n.draft = r.draft /\ n.metrics = None
        /\ n.shown = [r.shown EXCEPT !["summary"] = text]
    BY <1>2, <1>5, <2>2, <2>3 DEF Reviews, SameSelection
  <2> HIDE DEF n
  <2>5. ActiveEntries(review') = active BY <1>4, <2>1, <2>4
  <2>6. DraftHolds'
    BY <1>0, <1>2, <1>8, <2>1, <2>4, <2>5 DEF DraftHolds, SamePage
  <2>7. \A v \in Views : review'.shown[v] \in {None, r.shown[v]}
    BY <2>1, <2>2, <2>4
  <2>8. ReviewShowsSelected'
    BY <1>0, <1>2, <1>8, <2>1, <2>4, <2>5, <2>7 DEF ReviewShowsSelected, SamePage, SameView
  <2> QED BY <1>6, <2>1, <2>4, <2>6, <2>8 DEF ReviewHolds
<1>9. CASE ReceiveView(c, r)
  <2> DEFINE of == IF c.state = "answered" THEN c.of ELSE {}
             n == [r EXCEPT !.shown[c.kind] = of]
  <2>1. review' = n /\ calls' = left /\ c.kind \in Views BY <1>9 DEF ReceiveView
  <2>2. r.shown \in [Views -> MaybeKeys] /\ of \in MaybeKeys BY <1>2, <1>5 DEF Reviews
  <2>3. late' \/ of \in {{}, active} BY <1>0
  <2> HIDE DEF of
  <2>4. /\ n \in Reviews /\ SameSelection(n, r) /\ n.draft = r.draft /\ n.metrics = r.metrics
        /\ n.shown = [r.shown EXCEPT ![c.kind] = of]
    BY <1>2, <2>1, <2>2 DEF Reviews, SameSelection
  <2> HIDE DEF n
  <2>5. ActiveEntries(review') = active BY <1>4, <2>1, <2>4
  <2>6. DraftHolds'
    BY <1>0, <1>2, <2>1, <2>4, <2>5 DEF DraftHolds, SamePage
  <2>7. \A v \in Views : review'.shown[v] \in {of, r.shown[v]}
    BY <2>1, <2>2, <2>4
  <2>8. ReviewShowsSelected'
    BY <1>0, <1>2, <2>1, <2>3, <2>4, <2>5, <2>7 DEF ReviewShowsSelected, SamePage, SameView
  <2> QED BY <1>6, <2>1, <2>4, <2>6, <2>8 DEF ReviewHolds
<1>10. CASE ReceiveSaved(c, r)
  <2> DEFINE n == [r EXCEPT !.draft = c.text]
  <2>1. calls' = left /\ c.kind = "notes" BY <1>10 DEF ReceiveSaved
  <2>2. n \in Reviews /\ SameView(n, r) /\ n.draft = c.text
    BY <1>2, <1>5 DEF Reviews, SameView, SameSelection
  <2>3. IF c.state = "answered" THEN review' = n ELSE review' = r BY <1>10 DEF ReceiveSaved
  <2> HIDE DEF n
  <2>4. review' \in Reviews /\ SameView(review', r) BY <1>2, <2>2, <2>3 DEF SameView, SameSelection
  <2>5. ActiveEntries(review') = active BY <1>4, <2>4 DEF SameView
  <2>6. DraftHolds'
    BY <1>0, <1>2, <2>1, <2>2, <2>3, <2>5 DEF DraftHolds, SamePage, Sent
  <2>7. ReviewShowsSelected'
    BY <1>0, <1>2, <2>4, <2>5 DEF ReviewShowsSelected, SamePage, SameView
  <2> QED BY <1>6, <2>1, <2>4, <2>6, <2>7 DEF ReviewHolds
<1> QED BY <1>1, <1>7, <1>8, <1>9, <1>10

LEMMA ReviewStarts == Init => ReviewHolds
<1> SUFFICES ASSUME Init PROVE ReviewHolds
  OBVIOUS
<1>1. NoReview \in Reviews /\ BagToSet(EmptyBag) = {}
  BY DEF NoReview, Reviews, MaybeProject, MaybeKeys, EmptyBag, BagToSet, SetToBag
<1>2. NotesHold /\ notes \in [Keys -> MaybeKeys]
  BY DEF Init, ServerInit, NotesHold, MaybeKeys
<1>3. CASE NotReviewing
  <2>1. review = NoReview /\ BagToSet(calls) = {} BY <1>1, <1>3 DEF NotReviewing
  <2>2. DraftHolds /\ ReviewShowsSelected
    BY <2>1 DEF NoReview, DraftHolds, Own, ReviewShowsSelected, Views
  <2> QED BY <1>1, <1>2, <2>1, <2>2 DEF ReviewHolds, ReviewTypes, CallsHold
<1>4. CASE ReviewInit
  <2>1. Offer \in [Projects -> SUBSET Accounts]
    BY DEF Offer, Init, ServerInit
  <2>2. PICK m \in Accounts \cup {None} :
          review = [NoReview EXCEPT !.offered = Offer, !.member = m, !.loading = {"metrics"}]
    BY <1>4 DEF ReviewInit
  <2>3. review \in Reviews /\ review.draft = NoReview.draft /\ review.metrics = NoReview.metrics
        /\ review.shown = NoReview.shown
    BY <1>1, <2>1, <2>2 DEF Reviews, Kinds
  <2>4. BagToSet(calls) = FetchMetrics(review)
    BY <1>4 DEF ReviewInit, BagToSet, SetToBag
  <2>5. \A c \in BagToSet(calls) : c \in Calls /\ Sent(c, spoilt)
    BY <2>4, FetchType DEF Sent
  <2>6. DraftHolds /\ ReviewShowsSelected
    BY <2>3 DEF NoReview, DraftHolds, Own, ReviewShowsSelected, Views
  <2> QED BY <1>2, <2>3, <2>5, <2>6 DEF ReviewHolds, ReviewTypes, CallsHold
<1> QED BY <1>3, <1>4 DEF Init

(* What others do leaves the page alone, and their notes are their own.    *)
LEMMA OthersKeep ==
  ASSUME ReviewHolds, UNCHANGED <<review, calls, late, spoilt>>,
         UNCHANGED notes \/ \E k \in Keys : notes' = [notes EXCEPT ![k] = {k}]
  PROVE  ReviewHolds'
<1>1. CallsHold' /\ DraftHolds' /\ ReviewShowsSelected'
  BY DEF ReviewHolds, CallsHold, DraftHolds, ReviewShowsSelected, ActiveEntries
<1>2. CASE UNCHANGED notes
  BY <1>1, <1>2 DEF ReviewHolds, ReviewTypes, NotesHold
<1>3. CASE \E k \in Keys : notes' = [notes EXCEPT ![k] = {k}]
  <2>1. PICK k \in Keys : notes' = [notes EXCEPT ![k] = {k}] BY <1>3
  <2>2. notes \in [Keys -> MaybeKeys] /\ NotesHold BY DEF ReviewHolds, ReviewTypes
  <2>3. {k} \in MaybeKeys BY DEF MaybeKeys
  <2>4. notes' \in [Keys -> MaybeKeys] BY <2>1, <2>2, <2>3
  <2>5. \A j \in Keys : notes'[j] = IF j = k THEN {k} ELSE notes[j] BY <2>1, <2>2
  <2>6. NotesHold' BY <2>2, <2>5 DEF NotesHold, Own
  <2> QED BY <1>1, <2>4, <2>6 DEF ReviewHolds, ReviewTypes
<1> QED BY <1>2, <1>3

LEMMA ReviewKeeps == ReviewHolds /\ [Next]_vars => ReviewHolds'
<1> SUFFICES ASSUME ReviewHolds, [Next]_vars PROVE ReviewHolds'
  OBVIOUS
<1>1. CASE ReviewStep
  BY <1>1, SelectKeeps, RefreshKeeps, TypeKeeps, SaveKeeps, FetchKeeps, ServeKeeps, RefuseKeeps, ReceiveKeeps
     DEF ReviewStep
<1>2. CASE ConsoleStep /\ UNCHANGED reviewing
  <2>1. CASE CreateNext
    BY <1>2, <2>1, OthersKeep DEF CreateNext, CreateUser, server, reviewing
  <2>2. CASE MapCreated
    BY <1>2, <2>2, OthersKeep DEF MapCreated, MapUserToProject, server, reviewing
  <2>3. CASE UNCHANGED server
    BY <1>2, <2>3, OthersKeep DEF server, reviewing
  <2> QED BY <1>2, <2>1, <2>2, <2>3
          DEF ConsoleStep, OpenModal, SelectProject, RefreshList, OptionsArrive, OptionsFail, ToggleSelection,
              CloseModal, HandleImport, EndImport
<1>3. CASE Others
  <2>1. CASE NoteOfOthers
    BY <2>1, OthersKeep DEF NoteOfOthers, SavePerformanceNote, reviewing
  <2>2. CASE AsksForRole \/ RolesChange
    BY <2>2, OthersKeep DEF AsksForRole, AskForRole, RequestRole, RolesChange, ChangeRoles, SeedAdminUser,
                            UpdateUserRole, reviewing
  <2>3. CASE EditsElsewhere \/ EditsInReview
    <3>1. MakeUser \/ MapUser \/ Unlink \/ SetTrackedUsers => UNCHANGED notes
      BY DEF MakeUser, CreateUser, MapUser, Unlink, SetTrackedUsers, MapUserToProject,
             UnlinkUserFromProject, SetProjectTrackedUsers
    <3>2. UNCHANGED notes
      BY <2>3, <3>1 DEF EditsElsewhere, EditsOfOthers, EditsInReview, EditPeople
    <3> QED BY <2>3, <3>2, OthersKeep DEF EditsElsewhere, EditsInReview, reviewing
  <2> QED BY <1>3, <2>1, <2>2, <2>3 DEF Others
<1>4. CASE UNCHANGED <<server, reviewing>>
  BY <1>4, OthersKeep DEF server, reviewing
<1> QED BY <1>1, <1>2, <1>3, <1>4 DEF Next, vars

(* NotesAreTheirOwn: what is saved about a teammate is about that teammate *)
(* unless it was saved after an answer for another selection had replaced  *)
(* the draft (fetchMetrics, handleSaveNotes).                              *)
THEOREM NotesStayTheirOwn == Spec => []NotesAreTheirOwn
<1>1. Init => ReviewHolds BY ReviewStarts
<1>2. ReviewHolds /\ [Next]_vars => ReviewHolds' BY ReviewKeeps
<1>3. ReviewHolds => NotesAreTheirOwn
  <2> SUFFICES ASSUME ReviewHolds, NEW k \in Keys \ spoilt, notes[k] # None
               PROVE  notes[k] = {} \/ notes[k] = {k}
    BY DEF NotesAreTheirOwn
  <2>1. notes[k] \subseteq {k} BY DEF ReviewHolds, NotesHold, Own
  <2>2. notes[k] \in SUBSET Keys BY DEF ReviewHolds, ReviewTypes, MaybeKeys
  <2> QED BY <2>1, <2>2
<1> QED BY <1>1, <1>2, <1>3, PTL DEF Spec

-----------------------------------------------------------------------------
(* The stand-up.  Until a waiting handler sends a query for another        *)
(* selection, both queries are for the one that is chosen; and while the   *)
(* last request for an insight is under way for another issue than the one *)
(* its answer would be stored under, that issue is known to be crossed.    *)
MaybeIssue == Issues \cup {NoIssue}
Overlay ==
  [open : BOOLEAN, initial : MaybeIssue, active : Issues, ref : MaybeIssue, latest : MaybeIssue,
   inflight : SUBSET Issues, insights : [Issues -> MaybeIssue]]

MaybeChosen == Selections \cup {NoIssue}
Waits == [by : {"refresh", "regenerate", "interval"}, step : Queries \cup {"mutations"}, of : MaybeChosen]
Pages ==
  [sel : MaybeChosen, wanted : [Queries -> MaybeChosen], shown : [Queries -> MaybeChosen], loading : SUBSET Queries,
   waiting : SUBSET Waits, clicks : Nat]

QueriesHold == \A q \in Queries : page.wanted[q] = page.sel /\ page.shown[q] \in {NoIssue, page.sel}

OverlayTypes == overlay \in Overlay /\ (overlay.open => overlay.initial \in Issues)
Returned(o, across) == o.ref # NoIssue /\ o.latest \in o.inflight \ {o.ref} => o.ref \in across
InsightsOf(o, across) == \A i \in Issues \ across : o.insights[i] \in {NoIssue, i}

PageHolds == page \in Pages /\ (overtaken \/ QueriesHold)
OverlayHolds == OverlayTypes /\ Returned(overlay, crossed) /\ InsightsOf(overlay, crossed)

LEMMA EnsuredType ==
  ASSUME NEW o \in Overlay, NEW i \in Issues
  PROVE  LET e == Ensured(o, i)
         IN  /\ e \in Overlay /\ e.open = o.open /\ e.initial = o.initial /\ e.active = o.active
             /\ e.insights = o.insights
<1>1. i \in MaybeIssue BY DEF MaybeIssue
<1>2. CASE i \in o.inflight \/ o.insights[i] # NoIssue
  <2> DEFINE e == [o EXCEPT !.ref = i]
  <2>1. /\ e \in Overlay /\ e.open = o.open /\ e.initial = o.initial /\ e.active = o.active
        /\ e.insights = o.insights
    BY <1>1 DEF Overlay
  <2>2. Ensured(o, i) = e BY <1>2 DEF Ensured
  <2> HIDE DEF e
  <2> QED BY <2>1, <2>2
<1>3. CASE ~(i \in o.inflight \/ o.insights[i] # NoIssue)
  <2> DEFINE e == [o EXCEPT !.ref = i, !.latest = i, !.inflight = @ \cup {i}]
  <2>1. /\ e \in Overlay /\ e.open = o.open /\ e.initial = o.initial /\ e.active = o.active
        /\ e.insights = o.insights
    BY <1>1 DEF Overlay
  <2>2. Ensured(o, i) = e BY <1>3 DEF Ensured
  <2> HIDE DEF e
  <2> QED BY <2>1, <2>2
<1> QED BY <1>2, <1>3

(* Whatever else changes of the overlay, the insights stay where they are. *)
LEMMA OverlaysKeep ==
  ASSUME OverlayHolds, NEW o \in Overlay, o.open => o.initial \in Issues, Overlays(o),
         InsightsOf(o, crossed)
  PROVE  OverlayHolds'
<1>1. overlay' = o /\ crossed' = IF o.ref # NoIssue /\ o.latest \in o.inflight \ {o.ref}
                                 THEN crossed \cup {o.ref} ELSE crossed
  BY DEF Overlays
<1>2. Returned(o, crossed') BY <1>1 DEF Returned
<1>3. InsightsOf(o, crossed') BY <1>1 DEF InsightsOf
<1> QED BY <1>1, <1>2, <1>3 DEF OverlayHolds, OverlayTypes, Returned, InsightsOf

LEMMA SameInsights ==
  ASSUME OverlayHolds, NEW o \in Overlay, o.open => o.initial \in Issues, Overlays(o),
         o.insights = overlay.insights
  PROVE  OverlayHolds'
<1>1. InsightsOf(o, crossed) BY DEF OverlayHolds, InsightsOf
<1> QED BY <1>1, OverlaysKeep

LEMMA ShutType ==
  ASSUME NEW o \in Overlay PROVE Shut(o) \in Overlay /\ ~Shut(o).open /\ Shut(o).insights = o.insights
BY DEF Shut, Overlay, MaybeIssue

LEMMA LandedKeeps ==
  ASSUME OverlayHolds, NEW q, NEW s, Landed(q, s) PROVE OverlayHolds'
<1>0. overlay \in Overlay /\ overlay.active \in Issues /\ (overlay.open => overlay.initial \in Issues)
  BY DEF OverlayHolds, OverlayTypes, Overlay
<1>1. CASE UNCHANGED <<overlay, crossed>>
  BY <1>1 DEF OverlayHolds, OverlayTypes
<1>2. CASE Overlays(Shut(overlay))
  BY <1>0, <1>2, ShutType, SameInsights
<1> DEFINE o == Ensured(Ensured(overlay, overlay.active), overlay.initial)
           n == [o EXCEPT !.active = overlay.initial]
<1>3. CASE overlay.open /\ Overlays(n)
  <2> DEFINE e == Ensured(overlay, overlay.active)
  <2>1. /\ e \in Overlay /\ e.open = overlay.open /\ e.initial = overlay.initial
        /\ e.insights = overlay.insights
    BY <1>0, EnsuredType
  <2> HIDE DEF e
  <2>2. /\ Ensured(e, overlay.initial) \in Overlay /\ Ensured(e, overlay.initial).open = e.open
        /\ Ensured(e, overlay.initial).initial = e.initial
        /\ Ensured(e, overlay.initial).insights = e.insights
    BY <1>0, <1>3, <2>1, EnsuredType
  <2>4. /\ o \in Overlay /\ o.open = overlay.open /\ o.initial = overlay.initial
        /\ o.insights = overlay.insights
    BY <2>1, <2>2 DEF e
  <2> HIDE DEF o
  <2>3. /\ n \in Overlay /\ n.open = o.open /\ n.initial = o.initial /\ n.insights = o.insights
    BY <1>0, <1>3, <2>4 DEF Overlay
  <2> HIDE DEF n
  <2> QED BY <1>0, <1>3, <2>3, <2>4, SameInsights
<1> QED BY <1>1, <1>2, <1>3 DEF Landed

LEMMA OverlayStarts == Init => OverlayHolds
<1>1. NoOverlay \in Overlay /\ ~NoOverlay.open /\ NoOverlay.ref = NoIssue
      /\ \A i \in Issues : NoOverlay.insights[i] = NoIssue
  BY DEF NoOverlay, Overlay, MaybeIssue
<1> QED BY <1>1 DEF Init, StandupInit, NotAtStandup, OverlayHolds, OverlayTypes, Returned, InsightsOf

LEMMA OverlayKeeps == OverlayHolds /\ [Next]_vars => OverlayHolds'
<1> SUFFICES ASSUME OverlayHolds, [Next]_vars PROVE OverlayHolds'
  OBVIOUS
<1>0. overlay \in Overlay /\ overlay.active \in Issues /\ (overlay.open => overlay.initial \in Issues)
  BY DEF OverlayHolds, OverlayTypes, Overlay
<1>1. ASSUME NEW i \in Issues, OpenDetailView(i) PROVE OverlayHolds'
  <2> DEFINE o1 == Ensured(overlay, i)
             o2 == Ensured(o1, overlay.active)
             o3 == Ensured(o2, i)
             o == [o3 EXCEPT !.open = TRUE]
             n == [o EXCEPT !.initial = i, !.active = i]
  <2>1. Overlays(n) BY <1>1 DEF OpenDetailView
  <2>2. o1 \in Overlay /\ o1.insights = overlay.insights BY <1>0, EnsuredType
  <2> HIDE DEF o1
  <2>3. o2 \in Overlay /\ o2.insights = overlay.insights BY <1>0, <2>2, EnsuredType
  <2> HIDE DEF o2
  <2>4. o3 \in Overlay /\ o3.insights = overlay.insights BY <2>3, EnsuredType
  <2> HIDE DEF o3
  <2>5. n \in Overlay /\ n.initial = i /\ n.insights = overlay.insights
    BY <2>4 DEF Overlay, MaybeIssue
  <2> HIDE DEF n
  <2> QED BY <2>1, <2>5, SameInsights
<1>2. ASSUME NEW i \in Issues, HandleSelectIssue(i) PROVE OverlayHolds'
  <2> DEFINE o == Ensured(overlay, i)
             n == [o EXCEPT !.active = i]
  <2>1. Overlays(n) BY <1>2 DEF HandleSelectIssue
  <2>2. /\ o \in Overlay /\ o.insights = overlay.insights /\ o.open = overlay.open
        /\ o.initial = overlay.initial
    BY <1>0, EnsuredType
  <2> HIDE DEF o
  <2>3. n \in Overlay /\ n.initial = o.initial /\ n.open = o.open /\ n.insights = o.insights
    BY <2>2 DEF Overlay
  <2> HIDE DEF n
  <2> QED BY <1>0, <2>1, <2>2, <2>3, SameInsights
<1>3. CASE CloseDetailView
  <2> DEFINE o == Shut(overlay)
             n == [o EXCEPT !.ref = NoIssue]
  <2>1. Overlays(n) BY <1>3 DEF CloseDetailView
  <2>2. o \in Overlay /\ ~o.open /\ o.insights = overlay.insights BY <1>0, ShutType
  <2> HIDE DEF o
  <2>3. n \in Overlay /\ n.open = o.open /\ n.insights = o.insights
    BY <2>2 DEF Overlay, MaybeIssue
  <2> HIDE DEF n
  <2> QED BY <2>1, <2>2, <2>3, SameInsights
<1>4. CASE Render
  <2>1. Overlays(Ensured(overlay, overlay.active)) BY <1>4 DEF Render
  <2> QED BY <1>0, <2>1, EnsuredType, SameInsights, SMTT(30)
<1>5. ASSUME NEW i \in Issues, FetchIssueInsights(i) PROVE OverlayHolds'
  <2> DEFINE o == Ended(overlay, i)
             place == overlay.ref
             n == [o EXCEPT !.insights[place] = i]
  <2>1. Overlays(IF i = overlay.latest /\ place # NoIssue THEN n ELSE o) /\ i \in overlay.inflight
    BY <1>5 DEF FetchIssueInsights, StoredUnder
  <2>2. /\ o \in Overlay /\ o.open = overlay.open /\ o.initial = overlay.initial
        /\ o.insights = overlay.insights
    BY <1>0 DEF Ended, Overlay
  <2> HIDE DEF o
  <2>3. CASE i = overlay.latest /\ place # NoIssue
    <3>1. place \in Issues /\ i \in MaybeIssue BY <1>0, <2>3 DEF Overlay, MaybeIssue
    <3>2. o.insights \in [Issues -> MaybeIssue] BY <2>2 DEF Overlay
    <3>3. /\ n \in Overlay /\ n.open = o.open /\ n.initial = o.initial
          /\ n.insights = [o.insights EXCEPT ![place] = i]
      BY <2>2, <3>1, <3>2 DEF Overlay
    <3> HIDE DEF n
    <3>4. place = i \/ place \in crossed BY <2>1, <2>3 DEF OverlayHolds, Returned
    <3> HIDE DEF place
    <3>5. \A j \in Issues : n.insights[j] = IF j = place THEN i ELSE overlay.insights[j]
      BY <2>2, <3>1, <3>2, <3>3
    <3>6. InsightsOf(n, crossed) BY <3>4, <3>5 DEF OverlayHolds, InsightsOf
    <3> QED BY <1>0, <2>1, <2>2, <2>3, <3>3, <3>6, OverlaysKeep
  <2>4. CASE ~(i = overlay.latest /\ place # NoIssue)
    BY <1>0, <2>1, <2>2, <2>4, SameInsights
  <2> QED BY <2>3, <2>4
<1>6. ASSUME NEW i \in Issues, InsightFails(i) PROVE OverlayHolds'
  <2> DEFINE o == Ended(overlay, i)
  <2>1. Overlays(IF o.open THEN Ensured(o, o.active) ELSE o) BY <1>6 DEF InsightFails
  <2>2. /\ o \in Overlay /\ o.open = overlay.open /\ o.initial = overlay.initial
        /\ o.active = overlay.active /\ o.insights = overlay.insights
    BY <1>0 DEF Ended, Overlay
  <2> HIDE DEF o
  <2>3. /\ Ensured(o, o.active) \in Overlay /\ Ensured(o, o.active).open = o.open
        /\ Ensured(o, o.active).initial = o.initial /\ Ensured(o, o.active).insights = o.insights
    BY <1>0, <2>2, EnsuredType
  <2> QED BY <1>0, <2>1, <2>2, <2>3, SameInsights
<1>7. ASSUME NEW s, ChangeSelection(s) PROVE OverlayHolds'
  <2> DEFINE n == [NoOverlay EXCEPT !.latest = overlay.latest]
  <2>1. overlay' = n /\ crossed' = {} BY <1>7 DEF ChangeSelection
  <2>2. overlay.latest \in MaybeIssue BY <1>0 DEF Overlay
  <2>3. n \in Overlay /\ ~n.open /\ n.ref = NoIssue /\ \A i \in Issues : n.insights[i] = NoIssue
    BY <2>2 DEF NoOverlay, Overlay, MaybeIssue
  <2> HIDE DEF n
  <2> QED BY <2>1, <2>3 DEF OverlayHolds, OverlayTypes, Returned, InsightsOf
<1>8. ASSUME NEW q, QueryAnswers(q) PROVE OverlayHolds'
  BY <1>8, LandedKeeps DEF QueryAnswers
<1>9. CASE UNCHANGED <<overlay, crossed>>
  BY <1>9 DEF OverlayHolds, OverlayTypes
<1>10. ASSUME NEW w, Continue(w) PROVE OverlayHolds'
  BY <1>9, <1>10, LandedKeeps DEF Continue
<1>11. CASE StandupStep
  BY <1>1, <1>2, <1>3, <1>4, <1>5, <1>6, <1>7, <1>8, <1>9, <1>10, <1>11
     DEF StandupStep, HandleRefresh, HandleRegenerate, AutoRefresh, QueryFails, GiveUp
<1> QED BY <1>9, <1>11 DEF Next, vars, standup

LEMMA PageStarts == Init => PageHolds
<1>1. ASSUME NEW s \in MaybeChosen
      PROVE  /\ NewPage(s) \in Pages
             /\ \A q \in Queries : NewPage(s).wanted[q] = NewPage(s).sel /\ NewPage(s).shown[q] = NoIssue
  BY DEF NewPage, Pages, MaybeChosen
<1>2. Init => \E s \in MaybeChosen : page = NewPage(s)
  BY DEF Init, StandupInit, NotAtStandup, MaybeChosen
<1> QED BY <1>1, <1>2 DEF PageHolds, QueriesHold

(* The page that a step shows: of what it wants or has been told.          *)
LEMMA ClickedType ==
  ASSUME NEW r \in Pages
  PROVE  /\ Clicked(r) \in Pages /\ Clicked(r).sel = r.sel /\ Clicked(r).wanted = r.wanted
         /\ Clicked(r).shown = r.shown /\ Clicked(r).waiting = r.waiting
BY DEF Clicked, Pages

LEMMA SameQueries ==
  ASSUME PageHolds, page' \in Pages, page'.sel = page.sel, page'.wanted = page.wanted,
         page'.shown = page.shown, UNCHANGED overtaken
  PROVE  PageHolds'
BY DEF PageHolds, QueriesHold

LEMMA RefetchedType ==
  ASSUME PageHolds, NEW q \in Queries, NEW w \in Waits
  PROVE  LET r == Refetched(q, w)
         IN  /\ r \in Pages /\ r.sel = page.sel /\ r.wanted = page.wanted /\ r.waiting = page.waiting
             /\ overtaken \/ \A p \in Queries : r.shown[p] \in {NoIssue, page.sel}
<1>0. page \in Pages /\ w.of \in MaybeChosen BY DEF PageHolds, Waits
<1>1. CASE page.wanted[q] = w.of
  <2> DEFINE n == [page EXCEPT !.shown[q] = w.of, !.loading = @ \ {q}]
  <2>1. page.shown \in [Queries -> MaybeChosen] BY <1>0 DEF Pages
  <2>2. /\ n \in Pages /\ n.sel = page.sel /\ n.wanted = page.wanted /\ n.waiting = page.waiting
        /\ n.shown = [page.shown EXCEPT ![q] = w.of]
    BY <1>0, <2>1 DEF Pages
  <2>3. Refetched(q, w) = n BY <1>1 DEF Refetched
  <2> HIDE DEF n
  <2>4. \A p \in Queries : n.shown[p] = IF p = q THEN w.of ELSE page.shown[p] BY <2>1, <2>2
  <2> QED BY <1>1, <2>2, <2>3, <2>4 DEF PageHolds, QueriesHold
<1>2. CASE page.wanted[q] # w.of
  BY <1>0, <1>2 DEF Refetched, PageHolds, QueriesHold
<1> QED BY <1>1, <1>2

(* A handler goes on: it ends, or sends a query for what it was clicked    *)
(* for.                                                                    *)
LEMMA EndsKeeps ==
  ASSUME PageHolds, NEW w \in Waits, NEW r \in Pages, r.sel = page.sel, r.wanted = page.wanted,
         overtaken \/ \A p \in Queries : r.shown[p] \in {NoIssue, page.sel}, Ends(w, r)
  PROVE  PageHolds'
<1> DEFINE n == [r EXCEPT !.waiting = @ \ {w}]
<1>1. n \in Pages /\ n.sel = r.sel /\ n.wanted = r.wanted /\ n.shown = r.shown BY DEF Pages
<1>2. page' = n /\ UNCHANGED overtaken BY DEF Ends
<1> HIDE DEF n
<1> QED BY <1>1, <1>2 DEF PageHolds, QueriesHold

LEMMA SendsKeeps ==
  ASSUME PageHolds, NEW w \in Waits, NEW q \in Queries, NEW r \in Pages, r.sel = page.sel,
         r.wanted = page.wanted, overtaken \/ \A p \in Queries : r.shown[p] \in {NoIssue, page.sel},
         Sends(q, w, r)
  PROVE  PageHolds'
<1> DEFINE v == [w EXCEPT !.step = q]
           n == [r EXCEPT !.wanted[q] = w.of, !.loading = @ \ {q}, !.waiting = (@ \ {w}) \cup {v}]
<1>1. v \in Waits /\ w.of \in MaybeChosen BY DEF Waits
<1>2. r.wanted \in [Queries -> MaybeChosen] BY DEF Pages
<1>3. page' = n /\ overtaken' = (overtaken \/ w.of # page.sel) BY DEF Sends
<1> HIDE DEF v
<1>4. /\ n \in Pages /\ n.sel = r.sel /\ n.wanted = [r.wanted EXCEPT ![q] = w.of] /\ n.shown = r.shown
  BY <1>1, <1>2 DEF Pages
<1> HIDE DEF n
<1>5. \A p \in Queries : n.wanted[p] = IF p = q THEN w.of ELSE r.wanted[p] BY <1>2, <1>4
<1> QED BY <1>3, <1>4, <1>5, ZenonT(30) DEF PageHolds, QueriesHold

LEMMA ContinueKeeps ==
  ASSUME PageHolds, NEW w \in page.waiting, Continue(w) \/ GiveUp(w) PROVE PageHolds'
<1>0. page \in Pages /\ w \in Waits BY DEF PageHolds, Pages
<1>1. "daily" \in Queries /\ "project" \in Queries BY DEF Queries
<1>2. overtaken \/ \A p \in Queries : page.shown[p] \in {NoIssue, page.sel}
  BY DEF PageHolds, QueriesHold
<1>3. CASE Sends("daily", w, page)
  BY <1>0, <1>1, <1>2, <1>3, SendsKeeps
<1> DEFINE d == Refetched("daily", w)
           p == Refetched("project", w)
<1>4. /\ d \in Pages /\ d.sel = page.sel /\ d.wanted = page.wanted
      /\ overtaken \/ \A q \in Queries : d.shown[q] \in {NoIssue, page.sel}
  BY <1>0, <1>1, RefetchedType
<1>5. /\ p \in Pages /\ p.sel = page.sel /\ p.wanted = page.wanted
      /\ overtaken \/ \A q \in Queries : p.shown[q] \in {NoIssue, page.sel}
  BY <1>0, <1>1, RefetchedType
<1>6. \/ Sends("daily", w, page) \/ Ends(w, d) \/ Sends("project", w, d) \/ Ends(w, p) \/ Ends(w, page)
  BY DEF Continue, GiveUp
<1> HIDE DEF d, p
<1>7. CASE Ends(w, d) BY <1>0, <1>4, <1>7, EndsKeeps
<1>8. CASE Sends("project", w, d) BY <1>0, <1>1, <1>4, <1>8, SendsKeeps
<1>9. CASE Ends(w, p) BY <1>0, <1>5, <1>9, EndsKeeps
<1>10. CASE Ends(w, page) BY <1>0, <1>2, <1>10, EndsKeeps
<1> QED BY <1>3, <1>6, <1>7, <1>8, <1>9, <1>10

LEMMA PageKeeps == PageHolds /\ [Next]_vars => PageHolds'
<1> SUFFICES ASSUME PageHolds, [Next]_vars PROVE PageHolds'
  OBVIOUS
<1>0. /\ page \in Pages /\ page.sel \in MaybeChosen
      /\ Clicked(page) \in Pages /\ Clicked(page).sel = page.sel /\ Clicked(page).wanted = page.wanted
      /\ Clicked(page).shown = page.shown
  BY ClickedType DEF PageHolds, Pages
<1>1. CASE page' = Clicked(page) /\ UNCHANGED overtaken
  BY <1>0, <1>1, SameQueries
<1>2. CASE UNCHANGED <<page, overtaken>>
  BY <1>2 DEF PageHolds, QueriesHold
<1>3. ASSUME NEW q \in Queries, QueryAnswers(q) PROVE PageHolds'
  <2> DEFINE n == [page EXCEPT !.loading = @ \ {q}, !.shown[q] = page.wanted[q]]
  <2>1. page.shown \in [Queries -> MaybeChosen] /\ page.wanted[q] \in MaybeChosen BY <1>0 DEF Pages
  <2>2. /\ n \in Pages /\ n.sel = page.sel /\ n.wanted = page.wanted
        /\ n.shown = [page.shown EXCEPT ![q] = page.wanted[q]]
    BY <1>0, <2>1 DEF Pages
  <2>3. page' = n /\ UNCHANGED overtaken BY <1>3 DEF QueryAnswers
  <2> HIDE DEF n
  <2>4. \A p \in Queries : n.shown[p] = IF p = q THEN page.wanted[q] ELSE page.shown[p]
    BY <2>1, <2>2
  <2> QED BY <2>2, <2>3, <2>4 DEF PageHolds, QueriesHold
<1>4. ASSUME NEW q \in Queries, QueryFails(q) PROVE PageHolds'
  <2> DEFINE n == [page EXCEPT !.loading = @ \ {q}]
  <2>1. n \in Pages /\ n.sel = page.sel /\ n.wanted = page.wanted /\ n.shown = page.shown
    BY <1>0 DEF Pages
  <2>2. page' = n /\ UNCHANGED overtaken BY <1>4 DEF QueryFails
  <2> HIDE DEF n
  <2> QED BY <2>1, <2>2, SameQueries
<1>5. ASSUME NEW s \in Selections, ChangeSelection(s) PROVE PageHolds'
  <2>1. PICK cached \in {NoIssue, s} :
          page' = [Clicked(page) EXCEPT !.sel = s, !.wanted = Wanted(s), !.loading = Queries,
                                        !.shown = [q \in Queries |-> IF q = "daily" THEN cached ELSE NoIssue]]
    BY <1>5, Zenon DEF ChangeSelection
  <2> DEFINE data == [q \in Queries |-> IF q = "daily" THEN cached ELSE NoIssue]
             c == Clicked(page)
             n == [c EXCEPT !.sel = s, !.wanted = Wanted(s), !.loading = Queries, !.shown = data]
  <2>2. /\ data \in [Queries -> MaybeChosen] /\ Wanted(s) \in [Queries -> MaybeChosen]
        /\ \A q \in Queries : data[q] \in {NoIssue, s} /\ Wanted(s)[q] = s
    BY DEF MaybeChosen, Wanted
  <2>3. page' = n BY <2>1
  <2>4. s \in MaybeChosen BY DEF MaybeChosen
  <2> HIDE DEF data, c
  <2>5. n \in Pages /\ n.sel = s /\ n.wanted = Wanted(s) /\ n.shown = data
    BY <1>0, <2>2, <2>4 DEF Pages, c
  <2> HIDE DEF n
  <2> QED BY <2>2, <2>3, <2>5 DEF PageHolds, QueriesHold
<1>6. CASE HandleRefresh
  <2> DEFINE new == {Waiting("refresh", "daily")}
             c == Clicked(page)
             n == [c EXCEPT !.wanted["daily"] = page.sel, !.waiting = @ \cup new]
  <2>1. page' = n /\ UNCHANGED overtaken BY <1>6 DEF HandleRefresh
  <2>2. new \subseteq Waits BY <1>0 DEF Waiting, Waits, Queries
  <2>3. c.wanted \in [Queries -> MaybeChosen] BY <1>0 DEF Pages
  <2> HIDE DEF new, c
  <2>4. n \in Pages /\ n.sel = c.sel /\ n.wanted = [c.wanted EXCEPT !["daily"] = page.sel] /\ n.shown = c.shown
    BY <1>0, <2>2, <2>3 DEF Pages, c
  <2> HIDE DEF n
  <2>5. \A q \in Queries : n.wanted[q] = IF q = "daily" THEN page.sel ELSE page.wanted[q]
    BY <1>0, <2>3, <2>4 DEF c
  <2> QED BY <1>0, <2>1, <2>4, <2>5 DEF PageHolds, QueriesHold, c
<1>7. CASE HandleRegenerate
  <2> DEFINE new == {Waiting("regenerate", "mutations")}
             c == Clicked(page)
             n == [c EXCEPT !.waiting = @ \cup new]
  <2>1. page' = n /\ UNCHANGED overtaken BY <1>7 DEF HandleRegenerate
  <2>2. new \subseteq Waits BY <1>0 DEF Waiting, Waits
  <2> HIDE DEF new, c
  <2>3. n \in Pages /\ n.sel = c.sel /\ n.wanted = c.wanted /\ n.shown = c.shown
    BY <1>0, <2>2 DEF Pages, c
  <2> HIDE DEF n
  <2> QED BY <1>0, <2>1, <2>3, SameQueries DEF c
<1>8. CASE AutoRefresh
  <2> DEFINE new == {Waiting("interval", q) : q \in Queries}
             all == [q \in Queries |-> page.sel]
             n == [page EXCEPT !.wanted = all, !.loading = {}, !.waiting = @ \cup new]
  <2>1. page' = n /\ UNCHANGED overtaken BY <1>8 DEF AutoRefresh
  <2>2. new \subseteq Waits BY <1>0 DEF Waiting, Waits
  <2>3. all \in [Queries -> MaybeChosen] /\ \A q \in Queries : all[q] = page.sel BY <1>0
  <2> HIDE DEF new, all
  <2>4. n \in Pages /\ n.sel = page.sel /\ n.wanted = all /\ n.shown = page.shown
    BY <1>0, <2>2, <2>3 DEF Pages
  <2> HIDE DEF n
  <2> QED BY <2>1, <2>3, <2>4 DEF PageHolds, QueriesHold
<1>9. CASE StandupStep
  BY <1>1, <1>2, <1>3, <1>4, <1>5, <1>6, <1>7, <1>8, <1>9, ContinueKeeps
     DEF StandupStep, OpenDetailView, HandleSelectIssue, CloseDetailView, Render, FetchIssueInsights,
         InsightFails
<1> QED BY <1>2, <1>9 DEF Next, vars, standup

(* ShownIsSelected: what the review page and the stand-up show is of what  *)
(* is selected, but for what came late, was sent again for an earlier      *)
(* selection, or crossed another request.                                  *)
THEOREM PagesShowTheirSelection == Spec => []ShownIsSelected
<1>1. Init => ReviewHolds /\ PageHolds /\ OverlayHolds
  BY ReviewStarts, PageStarts, OverlayStarts
<1>2. ReviewHolds /\ PageHolds /\ OverlayHolds /\ [Next]_vars => (ReviewHolds /\ PageHolds /\ OverlayHolds)'
  BY ReviewKeeps, PageKeeps, OverlayKeeps
<1>3. ReviewHolds /\ PageHolds /\ OverlayHolds => ShownIsSelected
  BY DEF ShownIsSelected, StandupShowsSelected, ReviewHolds, PageHolds, QueriesHold, OverlayHolds, InsightsOf
<1> QED BY <1>1, <1>2, <1>3, PTL DEF Spec
=============================================================================
