---------------------------- MODULE SyncRunProofs ----------------------------
(***************************************************************************)
(* A project's sync misses nothing it does not name, for any issues and    *)
(* accounts, any number of overlapping runs, any page size, lengths of a   *)
(* minute and a day, time zone of Jira's account, wishes of                *)
(* administrators, and any number of failures, retries and failed runs.    *)
(***************************************************************************)
EXTENDS SyncRun, TLAPS

USE SyncAssumption

MaybeTime == Int \cup {None}
Phases == {"idle", "prepare", "search", "issue", "upsert", "finalize"}
RunRecord ==
  [pc : Phases, by : {"nobody", "schedule", "admin"}, full : BOOLEAN,
   asked : (SUBSET Accounts) \cup {None}, days : Nat \cup {None}, accounts : SUBSET Accounts,
   since : MaybeTime, last : MaybeTime, seen : SUBSET Issues, page : SUBSET Issues, more : BOOLEAN,
   issue : Issues \cup {None}, detail : [updated : Int], found : SUBSET Issues, foundLast : MaybeTime,
   tries : Int, attempts : Int]

Past(t) == t = None \/ t <= now

World ==
  /\ jira \in [Issues -> [updated : Int, people : SUBSET Accounts]]
  /\ rows \in [Issues -> [updated : Int]] /\ tracked \in SUBSET Accounts
  /\ now \in Nat /\ watermark \in MaybeTime /\ Past(watermark)
  /\ \A i \in Issues : jira[i].updated <= now

(* A run is concerned with an issue that is behind, tracked and not        *)
(* excused if one of its accounts is involved, unless it is for some days; *)
(* it still has the issue before it, in its page or in what its search     *)
(* will return, and before it is finalized there is none left.             *)
Concern(i, n) ==
  /\ i \in Behind \ Excused /\ IsTracked(i) /\ n.days = None
  /\ jira[i].people \cap n.accounts # {}
Awaits(i, n) ==
  /\ n.pc \in {"search", "issue", "upsert"} /\ i \notin n.seen
  /\ n.since # None => jira[i].updated >= Earliest(n.since)
  /\ i \in n.found => i \in n.page
  /\ (n.pc # "search" /\ ~n.more) => i \in n.page

RunTypes(n) == n \in RunRecord /\ Past(n.last) /\ Past(n.foundLast) /\ n.detail.updated <= now
Fresh(n) == n.pc \in {"idle", "prepare"} => n.seen = {} /\ n.found = {} /\ n.page = {}
Current(n) ==
  n.pc = "upsert" =>
    /\ n.issue \in n.page /\ n.issue \in Issues
    /\ n.detail.updated = jira[n.issue].updated \/ n.issue \in raced
Fetches(n) == n.pc \notin {"idle", "prepare"} => \A i \in Issues : Concern(i, n) => Awaits(i, n)
Good(n) == RunTypes(n) /\ Fresh(n) /\ Current(n) /\ Fetches(n)

SyncInv == World /\ (\A r \in Runs : Good(run[r])) /\ run = [r \in Runs |-> run[r]] /\ NothingMissed

LEMMA PhaseNames ==
  /\ "idle" \in Phases /\ "prepare" \in Phases /\ "search" \in Phases /\ "issue" \in Phases
  /\ "upsert" \in Phases /\ "finalize" \in Phases
BY DEF Phases

LEMMA MinuteIsPast == ASSUME NEW t \in Int PROVE MinuteOf(t) \in Int /\ MinuteOf(t) <= t
<1>1. t % Minute \in 0..(Minute - 1) OBVIOUS
<1> QED BY <1>1 DEF MinuteOf

LEMMA DayIsPast ==
  ASSUME NEW t \in Int, NEW d \in Nat
  PROVE  StartOfDay(t) - d * Day \in Int /\ StartOfDay(t) - d * Day <= t
<1>1. t % Day \in 0..(Day - 1) OBVIOUS
<1>2. d * Day \in Nat OBVIOUS
<1> QED BY <1>1, <1>2 DEF StartOfDay

LEMMA ClosedIsGood == ASSUME World PROVE Good(Closed) /\ Closed.pc = "idle"
<1>1. Closed \in RunRecord BY DEF Closed, NoRow, RunRecord, Phases, MaybeTime
<1>2. RunTypes(Closed) BY <1>1 DEF RunTypes, Past, Closed, NoRow, World
<1> QED BY <1>2 DEF Good, Fresh, Current, Fetches, Closed

LEMMA SyncStarts == Init => SyncInv
<1> SUFFICES ASSUME Init PROVE SyncInv
  OBVIOUS
<1>1. World
  BY DEF Init, World, NoRow, MaybeTime, Past
<1>2. \A r \in Runs : run[r] = Closed BY DEF Init
<1>3. NothingMissed BY DEF Init, NothingMissed, WillBeFetched
<1> QED BY <1>1, <1>2, <1>3, ClosedIsGood DEF SyncInv, Init

(* A run takes a step that changes nothing but its own state.              *)
LEMMA RunMoves ==
  ASSUME SyncInv, NEW r \in Runs, NEW n, Good(n), run' = [run EXCEPT ![r] = n],
         UNCHANGED <<jira, rows, tracked, watermark, now, raced, skipped, backfill, hidden>>
  PROVE  SyncInv'
<1>1. World' BY DEF SyncInv, World, Past
<1>2. NothingMissed'
  BY DEF SyncInv, NothingMissed, Behind, IsBehind, IsTracked, WillBeFetched, Excused
<1>3. \A m : Good(m) => Good(m)'
  BY DEF Good, RunTypes, Past, Fresh, Current, Fetches, Concern, Awaits, Behind, IsBehind, IsTracked, Excused
<1>4. \A s \in Runs : run'[s] = IF s = r THEN n ELSE run[s] BY DEF SyncInv
<1>5. run' = [s \in Runs |-> run'[s]] BY DEF SyncInv
<1> QED BY <1>1, <1>2, <1>3, <1>4, <1>5 DEF SyncInv

(* A step takes a run no further than idle or its preparation.             *)
LEMMA StartIsGood ==
  ASSUME World, NEW by \in {"schedule", "admin"}, NEW full \in BOOLEAN,
         NEW asked \in (SUBSET Accounts) \cup {None}, NEW days \in Nat \cup {None}
  PROVE  LET n == [Closed EXCEPT !.pc = "prepare", !.by = by, !.full = full, !.asked = asked, !.days = days]
         IN  Good(n) /\ n.pc = "prepare"
<1> DEFINE n == [Closed EXCEPT !.pc = "prepare", !.by = by, !.full = full, !.asked = asked, !.days = days]
<1>1. Closed \in RunRecord /\ Past(Closed.last) /\ Past(Closed.foundLast) /\ Closed.detail.updated <= now
      /\ Closed.seen = {} /\ Closed.found = {} /\ Closed.page = {}
  BY ClosedIsGood DEF Good, RunTypes, Fresh
<1>2. /\ n \in RunRecord /\ n.pc = "prepare" /\ n.last = Closed.last /\ n.foundLast = Closed.foundLast
      /\ n.detail = Closed.detail /\ n.seen = Closed.seen /\ n.found = Closed.found /\ n.page = Closed.page
  BY <1>1, ZenonT(30) DEF RunRecord, Phases
<1> HIDE DEF n
<1>3. Good(n) BY <1>1, <1>2 DEF Good, RunTypes, Fresh, Current, Fetches
<1> QED BY <1>2, <1>3 DEF n

-----------------------------------------------------------------------------
LEMMA ChangeKeeps ==
  ASSUME SyncInv, NEW i \in Issues, NEW a \in Accounts, ChangeInJira(i, a) PROVE SyncInv'
<1> DEFINE new == [updated |-> now + 1, people |-> jira[i].people \cup {a}]
<1>0. World /\ jira \in [Issues -> [updated : Int, people : SUBSET Accounts]] /\ now \in Nat
  BY DEF SyncInv, World
<1>1. /\ now' = now + 1 /\ jira' = [jira EXCEPT ![i] = new]
      /\ raced' = IF \E r \in Runs : Open(r) THEN raced \cup {i} ELSE raced
      /\ hidden' = IF watermark # None /\ now' < Earliest(watermark) THEN hidden \cup {i} ELSE hidden \ {i}
      /\ UNCHANGED <<rows, tracked, watermark, run, skipped, backfill>>
  BY DEF ChangeInJira
<1>2. new \in [updated : Int, people : SUBSET Accounts] /\ new.updated = now + 1 BY <1>0
<1> HIDE DEF new
<1>3. \A j \in Issues : jira'[j] = IF j = i THEN new ELSE jira[j] BY <1>0, <1>1
<1>4. World'
  <2>1. jira' \in [Issues -> [updated : Int, people : SUBSET Accounts]] BY <1>0, <1>1, <1>2
  <2>2. \A j \in Issues : jira'[j].updated <= now' BY <1>0, <1>1, <1>2, <1>3 DEF World
  <2>3. Past(watermark)' BY <1>0, <1>1 DEF World, Past, MaybeTime
  <2> QED BY <1>0, <1>1, <2>1, <2>2, <2>3 DEF World
<1>5. \A j \in Issues \ {i} : (j \in Behind <=> j \in Behind') /\ (IsTracked(j) <=> IsTracked(j)')
  BY <1>1, <1>3 DEF Behind, IsBehind, IsTracked
<1>6. Excused \ {i} \subseteq Excused' BY <1>1 DEF Excused
<1>7. NothingMissed'
  <2> SUFFICES ASSUME NEW j \in Behind', IsTracked(j)' PROVE WillBeFetched(j)' \/ j \in Excused'
    BY DEF NothingMissed
  <2>0. j \in Issues BY DEF Behind
  <2>1. CASE j = i
    <3>1. watermark = None \/ Earliest(watermark) \in Int
      BY <1>0, MinuteIsPast DEF World, MaybeTime, Earliest
    <3>2. jira'[j].updated = now + 1 /\ now + 1 \in Int BY <1>0, <1>2, <1>3, <2>0, <2>1
    <3>3. CASE watermark # None /\ now + 1 < Earliest(watermark)
      BY <1>1, <2>1, <3>3 DEF Excused
    <3>4. CASE watermark = None \/ now + 1 >= Earliest(watermark)
      BY <1>1, <3>2, <3>4 DEF WillBeFetched
    <3> QED BY <3>1, <3>2, <3>3, <3>4
  <2>2. CASE j # i
    <3>1. WillBeFetched(j) \/ j \in Excused BY <1>5, <2>0, <2>2 DEF SyncInv, NothingMissed
    <3> QED BY <1>1, <1>3, <1>6, <2>0, <2>2, <3>1 DEF WillBeFetched, Earliest, MinuteOf
  <2> QED BY <2>1, <2>2
<1>8. ASSUME NEW r \in Runs PROVE Good(run[r])'
  <2> DEFINE n == run[r]
  <2>0. Good(n) /\ n \in RunRecord BY DEF SyncInv, Good, RunTypes
  <2>1. n \in RunRecord /\ run'[r] = n BY <1>1, <2>0
  <2>2. RunTypes(n)'
    BY <1>0, <1>1, <2>0 DEF Good, RunTypes, Past, RunRecord, MaybeTime
  <2>3. n.pc # "idle" => i \in raced' BY <1>1 DEF Open
  <2>4. raced \subseteq raced' BY <1>1
  <2>5. Current(n)'
    BY <1>1, <1>3, <2>0, <2>3, <2>4 DEF Good, Current
  <2>6. Fetches(n)'
    <3> SUFFICES ASSUME n.pc \notin {"idle", "prepare"}, NEW j \in Issues, Concern(j, n)'
                 PROVE  Awaits(j, n)'
      BY <1>1 DEF Fetches
    <3>1. j # i BY <2>3 DEF Concern, Excused
    <3>2. jira'[j] = jira[j] BY <1>3, <3>1
    <3>3. Concern(j, n) BY <1>1, <1>5, <1>6, <3>1, <3>2 DEF Concern
    <3>4. Awaits(j, n) BY <2>0, <3>3 DEF Good, Fetches
    <3> QED BY <1>1, <3>2, <3>4 DEF Awaits, Earliest, MinuteOf
  <2>7. Fresh(n)' BY <1>1, <2>0 DEF Good, Fresh
  <2> QED BY <1>1, <2>2, <2>5, <2>6, <2>7 DEF Good
<1>9. (run = [r \in Runs |-> run[r]])' BY <1>1 DEF SyncInv
<1> QED BY <1>4, <1>7, <1>8, <1>9 DEF SyncInv

LEMMA ScheduleKeeps == ASSUME SyncInv, NEW r \in Runs, ScheduledStart(r) PROVE SyncInv'
<1> DEFINE n == [Closed EXCEPT !.pc = "prepare", !.by = "schedule", !.full = FALSE, !.asked = None,
                               !.days = None]
<1>1. World BY DEF SyncInv
<1>2. Good(n) BY <1>1, StartIsGood
<1>3. run' = [run EXCEPT ![r] = n]
      /\ UNCHANGED <<jira, rows, tracked, watermark, now, raced, skipped, backfill, hidden>>
  BY DEF ScheduledStart, Starts
<1> HIDE DEF n
<1> QED BY <1>2, <1>3, RunMoves

LEMMA TriggerKeeps ==
  ASSUME SyncInv, NEW r \in Runs, NEW w \in Wishes, TriggerProjectSync(r, w.full, w.asked, w.days)
  PROVE  SyncInv'
<1> DEFINE d == IF w.days # None /\ w.days < 0 THEN None ELSE w.days
           f == IF w.days # None /\ w.days < 0 THEN TRUE ELSE w.full
           n == [Closed EXCEPT !.pc = "prepare", !.by = "admin", !.full = f, !.asked = w.asked, !.days = d]
<1>1. World BY DEF SyncInv
<1>2. f \in BOOLEAN /\ w.asked \in (SUBSET Accounts) \cup {None} /\ d \in Nat \cup {None}
  <2>1. /\ w.full \in BOOLEAN /\ w.asked \in (SUBSET Accounts) \cup {None} /\ w.days \in Int \cup {None}
    OBVIOUS
  <2>2. d \in Nat \cup {None} BY <2>1
  <2> QED BY <2>1, <2>2
<1>3. run' = [run EXCEPT ![r] = n]
      /\ UNCHANGED <<jira, rows, tracked, watermark, now, raced, skipped, backfill, hidden>>
  BY DEF TriggerProjectSync, Starts
<1> HIDE DEF d, f
<1>4. Good(n) BY <1>1, <1>2, StartIsGood
<1> HIDE DEF n
<1> QED BY <1>3, <1>4, RunMoves

LEMMA TrackedKeeps ==
  ASSUME SyncInv, NEW r \in Runs, NEW accounts \in Choices, SetProjectTrackedUsers(r, accounts)
  PROVE  SyncInv'
<1> DEFINE n == [Closed EXCEPT !.pc = "prepare", !.by = "admin", !.full = TRUE, !.asked = accounts,
                               !.days = None]
           late == {i \in Behind : jira[i].people \cap (accounts \ tracked) # {}}
<1>0. World /\ accounts \in SUBSET Accounts BY DEF SyncInv
<1>1. Good(n) /\ n.pc = "prepare" BY <1>0, StartIsGood
<1>2. /\ run' = [run EXCEPT ![r] = n] /\ tracked' = accounts /\ backfill' = backfill \cup late
      /\ UNCHANGED <<jira, rows, watermark, now, raced, skipped, hidden>>
  BY DEF SetProjectTrackedUsers, Starts
<1> HIDE DEF n
<1>3. World' BY <1>0, <1>2 DEF World, Past
<1>4. Behind' = Behind /\ Excused \cup late = Excused' BY <1>2 DEF Behind, IsBehind, Excused
<1>5. ASSUME NEW i \in Behind \ Excused', IsTracked(i)' PROVE IsTracked(i) /\ i \notin Excused
  BY <1>2, <1>4, <1>5 DEF IsTracked
<1>6. NothingMissed'
  BY <1>2, <1>4, <1>5 DEF SyncInv, NothingMissed, WillBeFetched
<1>7. ASSUME NEW m, Good(m) PROVE Good(m)'
  <2>1. \A i : Concern(i, m)' => Concern(i, m) BY <1>2, <1>4, <1>5 DEF Concern
  <2>2. Fetches(m)'
    BY <1>2, <1>7, <2>1 DEF Good, Fetches, Awaits, Earliest, MinuteOf
  <2> QED BY <1>2, <1>7, <2>2 DEF Good, RunTypes, Past, Fresh, Current
<1>8. \A s \in Runs : run'[s] = IF s = r THEN n ELSE run[s] BY <1>2 DEF SyncInv
<1>9. run' = [s \in Runs |-> run'[s]] BY <1>2 DEF SyncInv
<1> QED BY <1>1, <1>3, <1>6, <1>7, <1>8, <1>9 DEF SyncInv

LEMMA PrepareKeeps == ASSUME SyncInv, NEW r \in Runs, PrepareProjectSync(r) PROVE SyncInv'
<1> DEFINE m == run[r]
           accounts == IF m.asked = None THEN tracked ELSE m.asked
           since == Since(r)
           phase == IF accounts = {} THEN "finalize" ELSE "search"
           no == FALSE
           one == 1
           n == [m EXCEPT !.pc = phase, !.accounts = accounts, !.since = since, !.last = since,
                          !.full = no, !.asked = None, !.attempts = one]
<1>0. /\ World /\ Good(m) /\ m \in RunRecord /\ m.pc = "prepare" /\ NothingMissed
      /\ tracked \in SUBSET Accounts /\ now \in Nat
  BY DEF SyncInv, World, Good, RunTypes, PrepareProjectSync
<1>1. run' = [run EXCEPT ![r] = n]
      /\ UNCHANGED <<jira, rows, tracked, watermark, now, raced, skipped, backfill, hidden>>
  <2>1. run' = [run EXCEPT ![r].pc = IF accounts = {} THEN "finalize" ELSE "search",
                           ![r].accounts = accounts, ![r].since = since, ![r].last = since,
                           ![r].full = FALSE, ![r].asked = None, ![r].attempts = 1]
    BY DEF PrepareProjectSync
  <2>2. DOMAIN run = Runs BY DEF SyncInv
  <2> QED BY <2>1, <2>2, ZenonT(30) DEF PrepareProjectSync
<1>2. accounts \in SUBSET Accounts BY <1>0 DEF RunRecord
<1>3. since \in MaybeTime /\ Past(since)
  <2>1. CASE m.full BY <2>1 DEF Since, MaybeTime, Past
  <2>2. CASE ~m.full /\ m.days # None
    <3>1. m.days \in Nat BY <1>0, <2>2 DEF RunRecord
    <3>2. since = StartOfDay(now) - m.days * Day BY <2>2 DEF Since
    <3> DEFINE d == m.days
    <3> HIDE DEF d
    <3>3. d \in Nat BY <3>1 DEF d
    <3>4. now \in Int BY <1>0
    <3>5. StartOfDay(now) - d * Day \in Int /\ StartOfDay(now) - d * Day <= now
      BY <3>3, <3>4, DayIsPast
    <3>6. since = StartOfDay(now) - d * Day BY <3>2 DEF d
    <3> HIDE DEF since
    <3> QED BY <3>5, <3>6 DEF MaybeTime, Past
  <2>3. CASE ~m.full /\ m.days = None
    <3>1. since = watermark BY <2>3 DEF Since
    <3> QED BY <1>0, <3>1 DEF World
  <2> QED BY <2>1, <2>2, <2>3
<1>4. since = None \/ m.days # None \/ since = watermark BY <1>0 DEF Since, RunRecord
<1>9. phase \in Phases /\ no \in BOOLEAN /\ one \in Int BY PhaseNames
<1> HIDE DEF accounts, since, m, phase, no, one
<1>5. /\ n \in RunRecord /\ n.pc = phase /\ n.since = since
      /\ n.last = since /\ n.foundLast = m.foundLast /\ n.detail = m.detail /\ n.days = m.days
      /\ n.seen = m.seen /\ n.found = m.found /\ n.page = m.page /\ n.accounts = accounts
  BY <1>0, <1>2, <1>3, <1>9 DEF RunRecord
<1> HIDE DEF n
<1>6. RunTypes(n) BY <1>0, <1>3, <1>5 DEF Good, RunTypes
<1>7. Fetches(n)
  <2> SUFFICES ASSUME NEW i \in Issues, Concern(i, n) PROVE Awaits(i, n)
    BY DEF Fetches
  <2>1. n.seen = {} /\ n.found = {} BY <1>0, <1>5 DEF Good, Fresh
  <2>2. WillBeFetched(i) BY <1>0 DEF Concern, NothingMissed
  <2>3. accounts # {} /\ m.days = None BY <1>5 DEF Concern
  <2> QED BY <1>4, <1>5, <2>1, <2>2, <2>3 DEF Awaits, WillBeFetched, phase
<1>8. Good(n) BY <1>5, <1>6, <1>7 DEF Good, Fresh, Current, phase
<1> QED BY <1>1, <1>8, RunMoves

LEMMA SearchKeeps == ASSUME SyncInv, NEW r \in Runs, SearchJiraIssues(r) PROVE SyncInv'
<1> DEFINE m == run[r]
           left == {i \in Issues \ m.seen : Matches(i, r)}
<1>0. Good(m) /\ m \in RunRecord /\ m.pc = "search" /\ DOMAIN run = Runs
  BY DEF SyncInv, Good, RunTypes, SearchJiraIssues
<1>1. ASSUME NEW i \in Issues, Concern(i, m) PROVE i \in left
  BY <1>0, <1>1 DEF Good, Fetches, Awaits, Matches, Concern
<1>2. CASE left = {}
  <2> DEFINE one == 1
             n == [m EXCEPT !.pc = "finalize", !.attempts = one]
  <2>1. run' = [run EXCEPT ![r].pc = "finalize", ![r].attempts = 1]
        /\ UNCHANGED <<jira, rows, tracked, watermark, now, raced, skipped, backfill, hidden>>
    BY <1>2 DEF SearchJiraIssues
  <2>2. run' = [run EXCEPT ![r] = n] BY <1>0, <2>1, Zenon
  <2>6. one \in Int OBVIOUS
  <2> HIDE DEF m, one
  <2>3. /\ n \in RunRecord /\ n.pc = "finalize" /\ n.last = m.last /\ n.foundLast = m.foundLast
        /\ n.detail = m.detail /\ n.days = m.days /\ n.accounts = m.accounts
    BY <1>0, <2>6, PhaseNames DEF RunRecord
  <2> HIDE DEF n
  <2>4. \A i \in Issues : ~Concern(i, n) BY <1>1, <1>2, <2>3 DEF Concern
  <2>5. Good(n) BY <1>0, <2>3, <2>4 DEF Good, RunTypes, Fresh, Current, Fetches
  <2> QED BY <2>1, <2>2, <2>5, RunMoves
<1>3. CASE left # {}
  <2>1. PICK page \in SUBSET left :
          run' = [run EXCEPT ![r].pc = "issue", ![r].page = page, ![r].found = page,
                             ![r].foundLast = m.last, ![r].more = page # left, ![r].tries = 1]
    BY <1>3, Zenon DEF SearchJiraIssues
  <2> DEFINE more == page # left
             one == 1
             n == [m EXCEPT !.pc = "issue", !.page = page, !.found = page, !.foundLast = m.last,
                            !.more = more, !.tries = one]
  <2>2. run' = [run EXCEPT ![r] = n] BY <1>0, <2>1, Zenon
  <2>3. page \in SUBSET Issues /\ more \in BOOLEAN /\ one \in Int OBVIOUS
  <2>8. m.last \in MaybeTime BY <1>0 DEF RunRecord
  <2> HIDE DEF m, left, more, one
  <2>4. /\ n \in RunRecord /\ n.pc = "issue" /\ n.last = m.last /\ n.foundLast = m.last
        /\ n.detail = m.detail /\ n.days = m.days /\ n.accounts = m.accounts /\ n.since = m.since
        /\ n.seen = m.seen /\ n.page = page /\ n.found = page /\ n.more = more
    BY <1>0, <2>3, <2>8, PhaseNames DEF RunRecord
  <2> HIDE DEF n
  <2>5. Fetches(n)
    <3> SUFFICES ASSUME NEW i \in Issues, Concern(i, n) PROVE Awaits(i, n)
      BY DEF Fetches
    <3>1. Concern(i, m) BY <2>4 DEF Concern
    <3>2. Awaits(i, m) BY <1>0, <3>1 DEF Good, Fetches
    <3> QED BY <1>1, <2>4, <3>1, <3>2 DEF Awaits, more
  <2>6. Good(n) BY <1>0, <2>4, <2>5 DEF Good, RunTypes, Fresh, Current
  <2>7. UNCHANGED <<jira, rows, tracked, watermark, now, raced, skipped, backfill, hidden>>
    BY DEF SearchJiraIssues
  <2> QED BY <2>2, <2>6, <2>7, RunMoves
<1> QED BY <1>2, <1>3

LEMMA DetailKeeps ==
  ASSUME SyncInv, NEW r \in Runs, NEW i \in Issues, FetchJiraIssueDetail(r, i) PROVE SyncInv'
<1> DEFINE m == run[r]
           new == [updated |-> jira[i].updated]
           one == 1
           n == [m EXCEPT !.pc = "upsert", !.issue = i, !.tries = one, !.detail = new]
<1>0. /\ World /\ Good(m) /\ m \in RunRecord /\ m.pc = "issue" /\ i \in m.page /\ DOMAIN run = Runs
  BY DEF SyncInv, Good, RunTypes, FetchJiraIssueDetail
<1>1. /\ run' = [run EXCEPT ![r].pc = "upsert", ![r].issue = i, ![r].tries = 1,
                            ![r].detail = [updated |-> jira[i].updated]]
      /\ UNCHANGED <<jira, rows, tracked, watermark, now, raced, skipped, backfill, hidden>>
  BY DEF FetchJiraIssueDetail
<1>2. run' = [run EXCEPT ![r] = n] BY <1>0, <1>1, Zenon
<1>3. new \in [updated : Int] /\ new.updated = jira[i].updated /\ new.updated <= now /\ one \in Int
  BY <1>0 DEF World
<1>4. i \in Issues \cup {None} OBVIOUS
<1> HIDE DEF m, new, one
<1>5. n \in RunRecord BY <1>0, <1>3, <1>4, PhaseNames DEF RunRecord
<1>6. /\ n.pc = "upsert" /\ n.issue = i /\ n.detail = new /\ n.days = m.days /\ n.accounts = m.accounts
      /\ n.since = m.since /\ n.last = m.last /\ n.foundLast = m.foundLast /\ n.seen = m.seen
      /\ n.page = m.page /\ n.found = m.found /\ n.more = m.more
  BY <1>0 DEF RunRecord
<1> HIDE DEF n
<1>7. RunTypes(n) BY <1>0, <1>3, <1>5, <1>6 DEF Good, RunTypes
<1>8. Fetches(n)
  BY <1>0, <1>6 DEF Good, Fetches, Concern, Awaits
<1>9. Good(n) BY <1>0, <1>3, <1>6, <1>7, <1>8 DEF Good, Fresh, Current
<1> QED BY <1>1, <1>2, <1>9, RunMoves

(* A try again from the cursor of the page, or the end of the run.         *)
LEMMA RetryIsGood ==
  ASSUME World, NEW m, Good(m), m.pc # "idle" PROVE Good(RetryOrFail(m))
<1>1. CASE m.attempts < MaxAttempts
  <2> DEFINE more == m.attempts + 1
             one == 1
             no == FALSE
             phase == Again(m.pc)
             n == [m EXCEPT !.pc = phase, !.attempts = more, !.tries = one, !.page = {}, !.found = {},
                            !.foundLast = None, !.more = no, !.issue = None, !.detail = NoRow]
  <2>1. RetryOrFail(m) = n BY <1>1 DEF RetryOrFail
  <2>2. m \in RunRecord /\ RunTypes(m) /\ Fetches(m) BY DEF Good, RunTypes
  <2>3. more \in Int /\ one \in Int /\ no \in BOOLEAN BY <2>2 DEF RunRecord
  <2>4. NoRow \in [updated : Int] /\ NoRow.updated <= now BY DEF NoRow, World
  <2>5. None \in MaybeTime /\ None \in Issues \cup {None} BY DEF MaybeTime
  <2>a. /\ phase \in {"prepare", "search", "finalize"} /\ phase \in Phases
        /\ phase = "prepare" => m.pc = "prepare"
        /\ phase = "finalize" => m.pc = "finalize"
        /\ phase = "search" => m.pc \in {"search", "issue", "upsert"}
    BY <2>2 DEF Again, Phases, RunRecord
  <2> HIDE DEF more, one, no, phase
  <2>6. n \in RunRecord BY <2>2, <2>3, <2>4, <2>5, <2>a, PhaseNames DEF RunRecord
  <2>7. /\ n.pc = phase /\ n.page = {} /\ n.detail = NoRow /\ n.days = m.days /\ n.accounts = m.accounts
        /\ n.since = m.since /\ n.last = m.last /\ n.foundLast = None /\ n.seen = m.seen /\ n.found = {}
    BY <2>2 DEF RunRecord
  <2> HIDE DEF n
  <2>8. RunTypes(n) BY <2>2, <2>4, <2>6, <2>7 DEF RunTypes, Past
  <2>9. Fetches(n)
    BY <2>2, <2>7, <2>a DEF Fetches, Concern, Awaits
  <2>10. Fresh(n) BY <2>7, <2>a DEF Good, Fresh
  <2>11. Current(n) BY <2>7, <2>a DEF Current
  <2> QED BY <2>1, <2>8, <2>9, <2>10, <2>11 DEF Good
<1>2. CASE ~(m.attempts < MaxAttempts)
  BY <1>2, ClosedIsGood DEF RetryOrFail
<1> QED BY <1>1, <1>2

LEMMA AttemptKeeps == ASSUME SyncInv, NEW r \in Runs, AttemptFails(r) PROVE SyncInv'
<1>1. World /\ Good(run[r]) /\ run[r].pc # "idle" BY DEF SyncInv, AttemptFails
<1>2. Good(RetryOrFail(run[r])) BY <1>1, RetryIsGood
<1>3. run' = [run EXCEPT ![r] = RetryOrFail(run[r])]
      /\ UNCHANGED <<jira, rows, tracked, watermark, now, raced, skipped, backfill, hidden>>
  BY DEF AttemptFails
<1> QED BY <1>2, <1>3, RunMoves

LEMMA RequestKeeps == ASSUME SyncInv, NEW r \in Runs, RequestFails(r) PROVE SyncInv'
<1> DEFINE m == run[r]
           more == m.tries + 1
           n == [m EXCEPT !.tries = more]
<1>1. World /\ Good(m) /\ m \in RunRecord /\ m.pc \in {"search", "issue"}
  BY DEF SyncInv, RequestFails, Good, RunTypes
<1>2. UNCHANGED <<jira, rows, tracked, watermark, now, raced, skipped, backfill, hidden>> BY DEF RequestFails
<1>3. run' = [run EXCEPT ![r] = n] \/ run' = [run EXCEPT ![r] = RetryOrFail(m)]
  BY Zenon DEF RequestFails
<1>4. more \in Int BY <1>1 DEF RunRecord
<1>5. Good(RetryOrFail(m))
  <2>1. m.pc # "idle" BY <1>1
  <2> QED BY <1>1, <2>1, RetryIsGood
<1> HIDE DEF m, more
<1>6. n \in RunRecord BY <1>1, <1>4 DEF RunRecord
<1>7. /\ n.pc = m.pc /\ n.detail = m.detail /\ n.days = m.days /\ n.accounts = m.accounts
      /\ n.since = m.since /\ n.last = m.last /\ n.foundLast = m.foundLast /\ n.seen = m.seen
      /\ n.page = m.page /\ n.found = m.found /\ n.more = m.more
  BY <1>1 DEF RunRecord
<1> HIDE DEF n
<1>8. Fetches(n)
  BY <1>1, <1>7 DEF Good, Fetches, Concern, Awaits
<1>9. Good(n)
  BY <1>1, <1>6, <1>7, <1>8 DEF Good, RunTypes, Fresh, Current
<1> QED BY <1>2, <1>3, <1>5, <1>9, RunMoves DEF m

(* The row lands: the issue has caught up, or it changed since its detail  *)
(* was fetched and is excused.                                             *)
LEMMA UpsertKeeps == ASSUME SyncInv, NEW r \in Runs, UpsertIssueFromDetail(r) PROVE SyncInv'
<1>a. PICK m : m = run[r] OBVIOUS
<1> DEFINE i == m.issue
           detail == m.detail
           rest == m.page \ {i}
           latest == Max2(m.foundLast, detail.updated)
           after == [m EXCEPT !.pc = "issue", !.page = rest, !.issue = None, !.detail = NoRow,
                              !.foundLast = latest]
           cursor == [after EXCEPT !.last = latest]
           n == IF rest # {} THEN after ELSE PageDone(cursor)
<1>0. /\ World /\ Good(m) /\ m \in RunRecord /\ m.pc = "upsert" /\ DOMAIN run = Runs
      /\ rows \in [Issues -> [updated : Int]] /\ NothingMissed
      /\ i \in Issues /\ i \in m.page /\ (detail.updated = jira[i].updated \/ i \in raced)
  BY <1>a DEF SyncInv, World, Good, RunTypes, Current, UpsertIssueFromDetail
<1>1. detail \in [updated : Int] /\ detail.updated \in Int /\ m.foundLast \in MaybeTime
  BY <1>0 DEF RunRecord
<1>2. latest \in MaybeTime /\ Past(latest)
  BY <1>0, <1>1 DEF Max2, Good, RunTypes, Past, MaybeTime
<1>3. NoRow \in [updated : Int] /\ NoRow.updated <= now BY <1>0 DEF NoRow, World
<1>4. None \in Issues \cup {None} /\ rest \in SUBSET Issues BY <1>0 DEF RunRecord
<1>5. /\ rows' = [rows EXCEPT ![i] = detail]
      /\ UNCHANGED <<jira, tracked, watermark, now, raced, skipped, backfill, hidden>>
  BY <1>a DEF UpsertIssueFromDetail
<1>6. run' = [run EXCEPT ![r] = n]
  <2> DEFINE a == [run[r] EXCEPT !.pc = "issue", !.page = @ \ {i}, !.issue = None, !.detail = NoRow,
                                 !.foundLast = Max2(@, detail.updated)]
  <2>1. run' = [run EXCEPT ![r] = IF a.page # {} THEN a ELSE PageDone([a EXCEPT !.last = a.foundLast])]
    BY <1>a DEF UpsertIssueFromDetail
  <2>2. a = after BY <1>a
  <2> HIDE DEF a, i, detail, rest, latest
  <2>3. after.page = rest /\ after.foundLast = latest BY <1>0 DEF RunRecord
  <2> QED BY <2>1, <2>2, <2>3
<1> HIDE DEF i, detail, rest, latest
<1>7. after \in RunRecord BY <1>0, <1>2, <1>3, <1>4, PhaseNames DEF RunRecord
<1>8. /\ after.pc = "issue" /\ after.page = rest /\ after.detail = NoRow /\ after.foundLast = latest
      /\ after.days = m.days /\ after.accounts = m.accounts /\ after.since = m.since /\ after.last = m.last
      /\ after.seen = m.seen /\ after.found = m.found /\ after.more = m.more
  BY <1>0 DEF RunRecord
<1> HIDE DEF after
<1>9. cursor \in RunRecord BY <1>2, <1>7 DEF RunRecord
<1>10. /\ cursor.detail = NoRow /\ cursor.foundLast = latest /\ cursor.last = latest
       /\ cursor.days = m.days /\ cursor.accounts = m.accounts /\ cursor.since = m.since
       /\ cursor.seen = m.seen /\ cursor.found = m.found /\ cursor.more = m.more /\ cursor.page = rest
  BY <1>7, <1>8 DEF RunRecord
<1> HIDE DEF cursor
<1> DEFINE phase == IF cursor.more THEN "search" ELSE "finalize"
           all == cursor.seen \cup cursor.found
           one == 1
           done == [cursor EXCEPT !.pc = phase, !.seen = all, !.attempts = one]
<1>11. phase \in Phases /\ all \in SUBSET Issues /\ one \in Int
  BY <1>9, PhaseNames DEF RunRecord
<1>12. PageDone(cursor) = done BY DEF PageDone
<1> HIDE DEF phase, all, one
<1>13. done \in RunRecord BY <1>9, <1>11 DEF RunRecord
<1>14. /\ done.pc = phase /\ done.seen = all /\ done.detail = NoRow /\ done.foundLast = latest
       /\ done.last = latest /\ done.days = m.days /\ done.accounts = m.accounts /\ done.since = m.since
       /\ done.found = m.found /\ done.page = rest
  BY <1>9, <1>10 DEF RunRecord
<1> HIDE DEF done
<1>15. \A j \in Issues : rows'[j] = IF j = i THEN detail ELSE rows[j] BY <1>0, <1>5
<1>16. ASSUME NEW j \in Behind' \ Excused' PROVE j \in Behind \ Excused /\ j # i
  <2>1. j \in Issues /\ rows'[j].updated < jira[j].updated BY <1>5 DEF Behind, IsBehind
  <2>2. j \notin Excused BY <1>5 DEF Excused
  <2>3. j # i
    <3> SUFFICES ASSUME j = i PROVE FALSE
      OBVIOUS
    <3>1. detail.updated < jira[i].updated BY <1>15, <2>1
    <3>2. jira[i].updated \in Int BY <1>0 DEF World
    <3> QED BY <1>0, <1>1, <2>2, <3>1, <3>2 DEF Excused
  <2> QED BY <1>15, <2>1, <2>2, <2>3 DEF Behind, IsBehind
<1>17. \A j, k : Concern(j, k)' => Concern(j, k) /\ j # i
  BY <1>5, <1>16 DEF Concern, IsTracked
<1>18. World' BY <1>0, <1>1, <1>5 DEF World, Past
<1>19. NothingMissed'
  BY <1>0, <1>5, <1>16 DEF NothingMissed, IsTracked, WillBeFetched, Earliest, MinuteOf
<1>20. ASSUME NEW k, Good(k) PROVE Good(k)'
  <2>1. Fetches(k)'
    BY <1>5, <1>17, <1>20 DEF Good, Fetches, Awaits, Earliest, MinuteOf
  <2> QED BY <1>5, <1>20, <2>1 DEF Good, RunTypes, Past, Fresh, Current
<1>21. ASSUME NEW j \in Issues, Concern(j, m)' PROVE Awaits(j, m) /\ j # i
  BY <1>0, <1>17, <1>21 DEF Good, Fetches
<1>22. Good(after)'
  <2>1. RunTypes(after)' BY <1>0, <1>2, <1>3, <1>5, <1>7, <1>8 DEF Good, RunTypes, Past
  <2>2. Fetches(after)'
    <3> SUFFICES ASSUME NEW j \in Issues, Concern(j, after)' PROVE Awaits(j, after)'
      BY DEF Fetches
    <3>1. Awaits(j, m) /\ j # i BY <1>8, <1>21 DEF Concern
    <3> QED BY <1>0, <1>5, <1>8, <3>1 DEF Awaits, Earliest, MinuteOf, rest
  <2> QED BY <1>8, <2>1, <2>2 DEF Good, Fresh, Current
<1>23. ASSUME rest = {} PROVE Good(PageDone(cursor))'
  <2>1. RunTypes(done)' BY <1>2, <1>3, <1>5, <1>13, <1>14 DEF RunTypes, Past
  <2>2. Fetches(done)'
    <3> SUFFICES ASSUME NEW j \in Issues, Concern(j, done)' PROVE Awaits(j, done)'
      BY DEF Fetches
    <3>1. Awaits(j, m) /\ j # i BY <1>14, <1>21 DEF Concern
    <3>2. j \notin m.page BY <1>23, <3>1 DEF rest
    <3>3. j \notin m.found /\ j \notin m.seen /\ m.more BY <1>0, <3>1, <3>2 DEF Awaits
    <3>4. phase = "search" /\ j \notin all BY <1>10, <3>3 DEF phase, all
    <3> QED BY <1>5, <1>14, <3>1, <3>3, <3>4 DEF Awaits, Earliest, MinuteOf
  <2>3. done.pc \in {"search", "finalize"} BY <1>14 DEF phase
  <2>4. Good(done)' BY <2>1, <2>2, <2>3 DEF Good, Fresh, Current
  <2> QED BY <1>12, <1>23, <2>4
<1>24. Good(n)' BY <1>22, <1>23
<1> HIDE DEF n
<1>25. \A s \in Runs : run'[s] = IF s = r THEN n ELSE run[s] BY <1>0, <1>6
<1>26. (\A s \in Runs : Good(run[s]))'
  <2> SUFFICES ASSUME NEW s \in Runs PROVE Good(run[s])'
    OBVIOUS
  <2>1. PICK k : k = run'[s] OBVIOUS
  <2>2. Good(k)' BY <1>20, <1>24, <1>25, <2>1 DEF SyncInv
  <2> QED BY <2>1, <2>2
<1>27. run' = [s \in Runs |-> run'[s]] BY <1>0, <1>6
<1> QED BY <1>18, <1>19, <1>26, <1>27 DEF SyncInv

(* A run in its last step, before which nothing concerns it any more,      *)
(* writes the watermark: what is then missed is excused.                   *)
LEMMA WatermarkWritten ==
  ASSUME SyncInv, NEW r \in Runs, WriteWatermark(r), \A i \in Behind : i \in Excused => i \in Excused'
  PROVE  World' /\ NothingMissed'
<1> DEFINE m == run[r]
<1>0. /\ World /\ Good(m) /\ m \in RunRecord /\ m.pc = "finalize" /\ NothingMissed
  BY DEF SyncInv, Good, RunTypes, WriteWatermark
<1>1. /\ watermark' = IF m.last = None THEN watermark ELSE m.last
      /\ skipped' = (IF IsPartial(r) THEN skipped \cup Behind ELSE skipped) \cap Behind
      /\ UNCHANGED <<jira, rows, tracked, now>>
  BY DEF WriteWatermark
<1>2. Behind' = Behind BY <1>1 DEF Behind, IsBehind
<1>4. World'
  <2>1. watermark' \in MaybeTime /\ Past(watermark')
    BY <1>0, <1>1 DEF World, Good, RunTypes, RunRecord
  <2> QED BY <1>0, <1>1, <2>1 DEF World, Past
<1>5. NothingMissed'
  <2> SUFFICES ASSUME NEW i \in Behind, IsTracked(i), i \notin Excused' PROVE FALSE
    BY <1>1, <1>2 DEF NothingMissed, IsTracked
  <2>1. i \notin Excused /\ i \in Issues BY DEF Behind
  <2>2. ~IsPartial(r) BY <1>1 DEF Excused
  <2>3. m.days = None /\ tracked \subseteq m.accounts BY <2>2 DEF IsPartial
  <2>4. Concern(i, m) BY <2>1, <2>3 DEF Concern, IsTracked
  <2>5. Awaits(i, m) BY <1>0, <2>1, <2>4 DEF Good, Fetches
  <2> QED BY <1>0, <2>5 DEF Awaits
<1> QED BY <1>4, <1>5

(* What an open run still awaits, it awaits after another wrote.           *)
LEMMA OthersAwait ==
  ASSUME SyncInv, NEW r \in Runs, WriteWatermark(r), NEW n, Good(n), n.pc # "idle" => raced \subseteq raced',
         \A i \in Behind : i \in Excused => i \in Excused'
  PROVE  Good(n)'
<1>1. UNCHANGED <<jira, rows, tracked, now>> BY DEF WriteWatermark
<1>2. Behind' = Behind BY <1>1 DEF Behind, IsBehind
<1>3. \A i : Concern(i, n)' => Concern(i, n) BY <1>1, <1>2 DEF Concern, IsTracked
<1>4. Fetches(n)' BY <1>1, <1>3 DEF Good, Fetches, Awaits, Earliest, MinuteOf
<1>5. Current(n)' BY <1>1 DEF Good, Current
<1> QED BY <1>1, <1>4, <1>5 DEF Good, RunTypes, Past, Fresh

(* A run that wrote goes on as n, and the others as before.                *)
LEMMA WriterMoves ==
  ASSUME SyncInv, NEW r \in Runs, WriteWatermark(r), NEW n, Good(n), run' = [run EXCEPT ![r] = n],
         \A i \in Behind : i \in Excused => i \in Excused',
         \A s \in Runs : Open(s) /\ (s # r \/ n.pc # "idle") => raced \subseteq raced'
  PROVE  SyncInv'
<1>1. World' /\ NothingMissed' BY WatermarkWritten
<1>2. Open(r) /\ DOMAIN run = Runs BY DEF WriteWatermark, Open, SyncInv
<1>3. Good(n)'
  <2>1. n.pc # "idle" => raced \subseteq raced' BY <1>2
  <2> QED BY <2>1, OthersAwait
<1>4. ASSUME NEW s \in Runs, s # r, NEW k, k = run[s] PROVE Good(k)'
  <2>1. Good(k) BY <1>4 DEF SyncInv
  <2>2. k.pc # "idle" => raced \subseteq raced' BY <1>4 DEF Open
  <2> QED BY <2>1, <2>2, OthersAwait
<1>5. \A s \in Runs : run'[s] = IF s = r THEN n ELSE run[s] BY <1>2
<1>6. (\A s \in Runs : Good(run[s]))'
  <2> SUFFICES ASSUME NEW s \in Runs PROVE Good(run[s])'
    OBVIOUS
  <2>1. PICK k : k = run'[s] OBVIOUS
  <2>2. CASE s = r BY <1>3, <1>5, <2>2
  <2>3. CASE s # r BY <1>4, <1>5, <2>1, <2>3
  <2> QED BY <2>2, <2>3
<1>7. run' = [t \in Runs |-> run'[t]] BY <1>2
<1> QED BY <1>1, <1>6, <1>7 DEF SyncInv

LEMMA FinalizeKeeps == ASSUME SyncInv, NEW r \in Runs, FinalizeProjectSync(r) PROVE SyncInv'
<1> DEFINE others == \E s \in Runs \ {r} : Open(s)
<1>1. /\ WriteWatermark(r) /\ run' = [run EXCEPT ![r] = Closed]
      /\ raced' = IF others THEN raced ELSE raced \cap Behind
      /\ backfill' = backfill \cap Behind /\ hidden' = hidden \cap Behind
  BY DEF FinalizeProjectSync
<1>2. skipped' = (IF IsPartial(r) THEN skipped \cup Behind ELSE skipped) \cap Behind BY <1>1 DEF WriteWatermark
<1>3. PICK n : n = Closed OBVIOUS
<1>4. Good(n) /\ n.pc = "idle" BY <1>3, ClosedIsGood DEF SyncInv
<1>5. \A i \in Behind : i \in Excused => i \in Excused' BY <1>1, <1>2 DEF Excused
<1>6. \A s \in Runs : Open(s) /\ (s # r \/ n.pc # "idle") => raced \subseteq raced' BY <1>1, <1>4
<1>7. run' = [run EXCEPT ![r] = n] BY <1>1, <1>3
<1> HIDE DEF others
<1> QED BY <1>1, <1>4, <1>5, <1>6, <1>7, WriterMoves

LEMMA LateFailureKeeps == ASSUME SyncInv, NEW r \in Runs, FinalizeFailsLate(r) PROVE SyncInv'
<1>1. /\ WriteWatermark(r) /\ run' = [run EXCEPT ![r] = RetryOrFail(run[r])]
      /\ UNCHANGED <<raced, backfill, hidden>>
  BY DEF FinalizeFailsLate
<1>2. skipped' = (IF IsPartial(r) THEN skipped \cup Behind ELSE skipped) \cap Behind BY <1>1 DEF WriteWatermark
<1>3. PICK n : n = RetryOrFail(run[r]) OBVIOUS
<1>4. World /\ Good(run[r]) /\ run[r].pc # "idle" BY <1>1 DEF SyncInv, WriteWatermark
<1>5. Good(n) BY <1>3, <1>4, RetryIsGood
<1>6. \A i \in Behind : i \in Excused => i \in Excused' BY <1>1, <1>2 DEF Excused
<1>7. raced \subseteq raced' BY <1>1
<1>8. run' = [run EXCEPT ![r] = n] BY <1>1, <1>3
<1> QED BY <1>1, <1>5, <1>6, <1>7, <1>8, WriterMoves

LEMMA SyncStep == SyncInv /\ [Next]_vars => SyncInv'
<1> SUFFICES ASSUME SyncInv, [Next]_vars PROVE SyncInv'
  OBVIOUS
<1>1. ASSUME NEW c \in PossibleChanges, ChangeInJira(c[1], c[2]) PROVE SyncInv'
  <2>1. c[1] \in Issues /\ c[2] \in Accounts OBVIOUS
  <2> QED BY <1>1, <2>1, ChangeKeeps
<1>2. CASE UNCHANGED vars
  BY <1>2, ZenonT(30) DEF vars, SyncInv, World, Past, Good, RunTypes, Fresh, Current, Fetches, Concern, Awaits, Behind,
              IsBehind, IsTracked, Excused, NothingMissed, WillBeFetched, Earliest, MinuteOf
<1> QED BY <1>1, <1>2, ScheduleKeeps, TriggerKeeps, TrackedKeeps, PrepareKeeps, SearchKeeps, DetailKeeps,
           UpsertKeeps, FinalizeKeeps, LateFailureKeeps, RequestKeeps, AttemptKeeps DEF Next, AdminStep, RunStep

(* NothingMissed: a tracked issue whose row is behind Jira is one the next *)
(* run fetches, or one of the kinds that are named (syncIssuesBatch,       *)
(* finalizeProjectSync).                                                   *)
THEOREM SyncMissesNothing == Spec => []NothingMissed
<1>1. Init => SyncInv BY SyncStarts
<1>2. SyncInv /\ [Next]_vars => SyncInv' BY SyncStep
<1>3. SyncInv => NothingMissed BY DEF SyncInv
<1> QED BY <1>1, <1>2, <1>3, PTL DEF Spec
=============================================================================
