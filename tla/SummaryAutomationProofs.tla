----------------------- MODULE SummaryAutomationProofs -----------------------
(***************************************************************************)
(* The lock of a schedule and the distance between its runs, for every     *)
(* number of projects, executions, requests, failures and restarts.        *)
(*                                                                         *)
(* LockProtects and RunsAreSpaced are not inductive.  What is: an intact   *)
(* candidate was last run at least MinFrequency before its execution       *)
(* began (Spaced), a claim that still stands is what the row's lock says   *)
(* (Held), an execution holds a project once (Distinct), and no two        *)
(* standing claims are of one project (Apart).                             *)
(***************************************************************************)
EXTENDS SummaryAutomation, SequenceTheorems, FiniteSetTheorems, TLAPS

(* A run that is to come keeps its distance from the last.                 *)
RowsKeepDistance ==
  \A p \in Projects :
    /\ row[p].enabled => row[p].next # Never
    /\ row[p].next # Never => row[p].since + row[p].next >= MinFrequency

RequestsOK ==
  /\ request \in [Admins -> Requests]
  /\ \A a \in Admins : request[a].op = "update" =>
       /\ request[a].enabled => request[a].next # Never
       /\ request[a].next # Never /\ ~request[a].back => request[a].next >= MinFrequency

(* Where an execution is tells what it holds.                              *)
Bare(e) == e.candidates = <<>> /\ e.claimed = <<>>
Control(e) ==
  /\ e.pc = "read" => e.age = 0
  /\ e.pc = "claim" => e.candidates # <<>>
  /\ e.pc # "claim" => e.candidates = <<>>
  /\ e.pc = "work" => e.claimed # <<>>
  /\ e.pc \notin {"claim", "work"} => e.claimed = <<>>

Distinct(e) ==
  /\ \A m, n \in DOMAIN e.candidates : m # n => e.candidates[m].project # e.candidates[n].project
  /\ \A m, n \in DOMAIN e.claimed : m # n => e.claimed[m].project # e.claimed[n].project
  /\ \A m \in DOMAIN e.candidates, n \in DOMAIN e.claimed :
       e.candidates[m].project # e.claimed[n].project

Far(r, age, c) == c.intact => r[c.project].since - age >= MinFrequency
Spaced(r, e) ==
  /\ \A n \in DOMAIN e.candidates : Far(r, e.age, e.candidates[n])
  /\ \A n \in DOMAIN e.claimed : Far(r, e.age, e.claimed[n])

Stands(e, n) == e.age <= LockTime /\ e.claimed[n].intact
Held(r, e) ==
  \A n \in DOMAIN e.claimed : Stands(e, n) => r[e.claimed[n].project].lock = LockTime - e.age
Apart(e, f) ==
  \A m \in DOMAIN e.claimed, n \in DOMAIN f.claimed :
    e.claimed[m].project = f.claimed[n].project => ~Stands(e, m) \/ ~Stands(f, n)

AutomationInv ==
  /\ TypeOK /\ RowsKeepDistance /\ RequestsOK
  /\ \A w \in Executions : /\ Control(exec[w]) /\ Distinct(exec[w])
                           /\ Spaced(row, exec[w]) /\ Held(row, exec[w])
  /\ \A w, v \in Executions : w # v => Apart(exec[w], exec[v])

Sound(e) == Control(e) /\ Distinct(e) /\ Spaced(row, e) /\ Held(row, e)

LEMMA Parts ==
  ASSUME AutomationInv, NEW w \in Executions
  PROVE  /\ exec[w] \in Execution /\ Sound(exec[w])
         /\ \A v \in Executions : v # w => Apart(exec[w], exec[v]) /\ Apart(exec[v], exec[w])
BY DEF AutomationInv, TypeOK, Sound

LEMMA BareIsSound ==
  ASSUME NEW e, NEW f, NEW r, Bare(e)
  PROVE  Distinct(e) /\ Spaced(r, e) /\ Held(r, e) /\ Apart(e, f) /\ Apart(f, e)
<1>1. DOMAIN e.candidates = {} /\ DOMAIN e.claimed = {} BY DEF Bare
<1> QED BY <1>1 DEF Distinct, Spaced, Held, Apart

LEMMA AttemptOK ==
  ASSUME NEW manual \in BOOLEAN, NEW iteration \in Nat, NEW attempt \in Nat, AutomationAssumption
  PROVE  /\ Attempt(manual, iteration, attempt) \in Execution
         /\ Bare(Attempt(manual, iteration, attempt)) /\ Control(Attempt(manual, iteration, attempt))
<1>1. 0 \in 0..MaxAge BY DEF AutomationAssumption
<1>2. <<>> \in Seq(Candidate) OBVIOUS
<1> QED BY <1>1, <1>2 DEF Attempt, Execution, Bare, Control

LEMMA IdleOK ==
  ASSUME AutomationAssumption PROVE Idle \in Execution /\ Bare(Idle) /\ Control(Idle)
<1>1. Attempt(FALSE, 0, 0) \in Execution /\ Bare(Attempt(FALSE, 0, 0)) BY AttemptOK
<1> QED BY <1>1 DEF Idle, Execution, Bare, Control

LEMMA ExecutionFields ==
  ASSUME NEW e \in Execution
  PROVE  /\ e.manual \in BOOLEAN /\ e.age \in 0..MaxAge
         /\ e.iteration \in Nat /\ e.iteration + 1 \in Nat
         /\ e.attempt \in Nat /\ e.attempt + 1 \in Nat
<1>1. e.manual \in BOOLEAN /\ e.age \in 0..MaxAge BY DEF Execution
<1>2. e.iteration \in Nat /\ e.attempt \in Nat BY DEF Execution
<1> QED BY <1>1, <1>2

LEMMA InitAutomation == ASSUME AutomationAssumption, Init PROVE AutomationInv
<1>1. /\ NewSchedule \in Row /\ NewSchedule.next # Never
      /\ NewSchedule.since + NewSchedule.next >= MinFrequency
  BY DEF AutomationAssumption, NewSchedule, Row, Never, Free, Ago, LongAgo
<1>2. NoRequest \in Requests /\ NoRequest.op = "none" BY DEF NoRequest, Requests
<1>3. TypeOK BY <1>1, <1>2, IdleOK DEF Init, TypeOK
<1>4. RowsKeepDistance
  BY <1>1 DEF Init, RowsKeepDistance
<1>5. RequestsOK BY <1>2 DEF Init, RequestsOK
<1>6. \A w \in Executions : exec[w] = Idle BY DEF Init
<1> QED BY <1>3, <1>4, <1>5, <1>6, IdleOK, BareIsSound DEF AutomationInv

(* The rows stay; every execution keeps what it holds or lets it go.       *)
SameHold(e, f) == e.candidates = f.candidates /\ e.claimed = f.claimed /\ e.age = f.age

LEMMA RowsStay ==
  ASSUME AutomationInv, row' = row, RequestsOK', upsets' \in Nat,
         exec' \in [Executions -> Execution],
         \A v \in Executions :
           Control(exec'[v]) /\ (Bare(exec'[v]) \/ SameHold(exec'[v], exec[v]))
  PROVE  AutomationInv'
<1>1. TypeOK' /\ RowsKeepDistance'
  BY DEF AutomationInv, TypeOK, RowsKeepDistance, RequestsOK
<1>2. ASSUME NEW w \in Executions
      PROVE  Distinct(exec'[w]) /\ Spaced(row', exec'[w]) /\ Held(row', exec'[w])
  <2>1. CASE Bare(exec'[w]) BY <2>1, BareIsSound
  <2>2. CASE SameHold(exec'[w], exec[w])
    <3>1. Distinct(exec[w]) /\ Spaced(row, exec[w]) /\ Held(row, exec[w])
      BY Parts DEF Sound
    <3>2. Distinct(exec'[w]) BY <2>2, <3>1 DEF SameHold, Distinct
    <3>3. Spaced(row', exec'[w]) BY <2>2, <3>1 DEF SameHold, Spaced, Far
    <3>4. Held(row', exec'[w]) BY <2>2, <3>1 DEF SameHold, Held, Stands
    <3> QED BY <3>2, <3>3, <3>4
  <2> QED BY <2>1, <2>2
<1>3. ASSUME NEW w \in Executions, NEW v \in Executions, w # v PROVE Apart(exec'[w], exec'[v])
  <2>1. CASE Bare(exec'[w]) \/ Bare(exec'[v]) BY <2>1, BareIsSound
  <2>2. CASE SameHold(exec'[w], exec[w]) /\ SameHold(exec'[v], exec[v])
    BY <2>2, <1>3 DEF AutomationInv, SameHold, Apart, Stands
  <2> QED BY <2>1, <2>2
<1> QED BY <1>1, <1>2, <1>3 DEF AutomationInv

LEMMA LetsGo ==
  ASSUME AutomationInv, NEW w \in Executions, NEW e \in Execution, Control(e), Bare(e),
         Become(w, e), row' = row, request' = request, upsets' \in Nat
  PROVE  AutomationInv'
<1>1. exec' \in [Executions -> Execution] /\ exec'[w] = e
      /\ \A v \in Executions : v # w => exec'[v] = exec[v]
  BY DEF Become, AutomationInv, TypeOK
<1>2. RequestsOK' BY DEF AutomationInv, RequestsOK
<1>3. \A v \in Executions : v # w => Control(exec'[v]) /\ SameHold(exec'[v], exec[v])
  BY <1>1, Parts DEF SameHold, Sound
<1> QED BY <1>1, <1>2, <1>3, RowsStay

-----------------------------------------------------------------------------
(* What an execution holds, another has held: none of its claims is new.   *)
Within(e, f) ==
  \A n \in DOMAIN e.claimed : \E m \in DOMAIN f.claimed :
    e.claimed[n].project = f.claimed[m].project /\ (Stands(e, n) => Stands(f, m))

LEMMA Assemble ==
  ASSUME AutomationInv, TypeOK', RowsKeepDistance', RequestsOK',
         \A v \in Executions : Within(exec'[v], exec[v]) /\ Sound(exec[v])'
  PROVE  AutomationInv'
<1>1. ASSUME NEW w \in Executions, NEW v \in Executions, w # v PROVE Apart(exec'[w], exec'[v])
  <2>1. Apart(exec[w], exec[v]) BY <1>1 DEF AutomationInv
  <2>2. Within(exec'[w], exec[w]) /\ Within(exec'[v], exec[v]) OBVIOUS
  <2> SUFFICES ASSUME NEW m \in DOMAIN exec'[w].claimed, NEW n \in DOMAIN exec'[v].claimed,
                      exec'[w].claimed[m].project = exec'[v].claimed[n].project,
                      Stands(exec'[w], m), Stands(exec'[v], n)
               PROVE  FALSE
    BY DEF Apart
  <2>3. PICK i \in DOMAIN exec[w].claimed :
          exec[w].claimed[i].project = exec'[w].claimed[m].project /\ Stands(exec[w], i)
    BY <2>2 DEF Within
  <2>4. PICK j \in DOMAIN exec[v].claimed :
          exec[v].claimed[j].project = exec'[v].claimed[n].project /\ Stands(exec[v], j)
    BY <2>2 DEF Within
  <2> QED BY <2>1, <2>3, <2>4 DEF Apart
<1> QED BY <1>1 DEF AutomationInv, Sound

LEMMA AfterClaimsIs ==
  ASSUME NEW d \in Execution, d.pc = "claim"
  PROVE  LET e == AfterClaims(d)
         IN /\ e \in Execution /\ Control(e) /\ e.claimed = d.claimed /\ e.age = d.age
            /\ e.candidates = d.candidates \/ e.candidates = <<>>
<1> DEFINE e == AfterClaims(d)
<1>1. CASE d.candidates # <<>> /\ Len(d.claimed) < Limit
  BY <1>1 DEF AfterClaims, Control
<1>2. CASE ~(d.candidates # <<>> /\ Len(d.claimed) < Limit)
  <2>1. e = [d EXCEPT !.candidates = <<>>, !.pc = IF d.claimed = <<>> THEN "count" ELSE "work"]
    BY <1>2 DEF AfterClaims
  <2>2. <<>> \in Seq(Candidate) OBVIOUS
  <2> QED BY <2>1, <2>2 DEF Execution, Control
<1> QED BY <1>1, <1>2

LEMMA FewerCandidates ==
  ASSUME NEW d, NEW e, NEW r, Distinct(d), Spaced(r, d), Held(r, d),
         e.claimed = d.claimed, e.age = d.age, e.candidates = d.candidates \/ e.candidates = <<>>
  PROVE  Distinct(e) /\ Spaced(r, e) /\ Held(r, e) /\ Within(e, d)
<1>1. Held(r, e) /\ Within(e, d) BY DEF Held, Within, Stands
<1>2. e.candidates = <<>> => DOMAIN e.candidates = {} OBVIOUS
<1> QED BY <1>1, <1>2 DEF Distinct, Spaced

-----------------------------------------------------------------------------
(* Reading the candidates: each is due, and so long since its last run.    *)
DueRead(w, s) ==
  LET due == {p \in Projects : Due(p)}
      taken == {n \in 1..Cardinality(due) : n <= 3 * Limit}
  IN [n \in taken |-> [project |-> s[n], frequency |-> row[s[n]].frequency, intact |-> TRUE]]

LEMMA ReadIsSound ==
  ASSUME AutomationAssumption, AutomationInv, NEW w \in Executions, exec[w].pc = "read",
         NEW s \in [1..Cardinality({p \in Projects : Due(p)}) -> {p \in Projects : Due(p)}],
         InOrder(s)
  PROVE  LET e == AfterClaims([exec[w] EXCEPT !.pc = "claim", !.candidates = DueRead(w, s)])
         IN /\ e \in Execution /\ Sound(e) /\ e.claimed = <<>>
<1> DEFINE due == {p \in Projects : Due(p)}
           taken == {n \in 1..Cardinality(due) : n <= 3 * Limit}
           d == [exec[w] EXCEPT !.pc = "claim", !.candidates = DueRead(w, s)]
           e == AfterClaims(d)
<1>1. exec[w] \in Execution /\ exec[w].age = 0 /\ exec[w].claimed = <<>>
  BY Parts DEF Sound, Control
<1>2. DueRead(w, s) = [n \in taken |-> [project |-> s[n], frequency |-> row[s[n]].frequency, intact |-> TRUE]]
  BY DEF DueRead
<1>3. DueRead(w, s) \in Seq(Candidate)
  <2>1. Cardinality(due) \in Nat
    BY FS_Subset, FS_CardinalityType DEF AutomationAssumption
  <2>2. \E k \in Nat : taken = 1..k
    <3>1. 3 * Limit \in Nat BY DEF AutomationAssumption
    <3> DEFINE c == Cardinality(due)
               m == 3 * Limit
    <3>2. c \in Nat /\ m \in Nat BY <2>1, <3>1
    <3> HIDE DEF c, m
    <3>3. {n \in 1..c : n <= m} = IF c <= m THEN 1..c ELSE 1..m BY <3>2
    <3>4. \E k \in Nat : {n \in 1..c : n <= m} = 1..k BY <3>2, <3>3
    <3> QED BY <3>4 DEF c, m
  <2>3. PICK k \in Nat : taken = 1..k BY <2>2
  <2>4. \A n \in taken : s[n] \in Projects /\ row[s[n]].frequency \in {f \in Nat : f >= MinFrequency}
    BY DEF AutomationInv, TypeOK, Row
  <2>5. \A n \in 1..k : [project |-> s[n], frequency |-> row[s[n]].frequency, intact |-> TRUE] \in Candidate
    BY <2>3, <2>4 DEF Candidate
  <2>6. DueRead(w, s) \in [1..k -> Candidate] BY <1>2, <2>3, <2>5
  <2> QED BY <2>6
<1>4. \A n \in DOMAIN DueRead(w, s) :
        DueRead(w, s)[n].project = s[n] /\ s[n] \in Projects /\ Due(s[n]) /\ n \in DOMAIN s
  BY <1>2
<1>5. \A m, n \in DOMAIN DueRead(w, s) : m # n => DueRead(w, s)[m].project # DueRead(w, s)[n].project
  <2>1. \A m, n \in DOMAIN s : m < n => s[m] # s[n] BY DEF InOrder
  <2>2. \A m, n \in DOMAIN DueRead(w, s) : m # n => m < n \/ n < m BY <1>2
  <2> QED BY <1>4, <2>1, <2>2, ZenonT(30)
<1>6. \A n \in DOMAIN DueRead(w, s) : Far(row, 0, DueRead(w, s)[n])
  <2>1. \A p \in Projects : Due(p) => row[p].since - 0 >= MinFrequency
    BY DEF AutomationInv, TypeOK, Row, RowsKeepDistance, Due, Never, LongAgo, AutomationAssumption
  <2> QED BY <1>4, <2>1 DEF Far
<1>7. d \in Execution /\ d.age = 0 /\ d.claimed = <<>> /\ d.pc = "claim" /\ d.candidates = DueRead(w, s)
  BY <1>1, <1>3 DEF Execution
<1> HIDE DEF d
<1>8. /\ e \in Execution /\ Control(e) /\ e.claimed = <<>> /\ e.age = d.age
      /\ e.candidates = d.candidates \/ e.candidates = <<>>
  BY <1>7, AfterClaimsIs
<1> HIDE DEF e
<1>9. Distinct(d) /\ Spaced(row, d) /\ Held(row, d)
  <2>1. DOMAIN d.claimed = {} BY <1>7
  <2> QED BY <2>1, <1>5, <1>6, <1>7 DEF Distinct, Spaced, Held
<1> QED BY <1>7, <1>8, <1>9, FewerCandidates, ZenonT(30) DEF Sound, e, d

LEMMA ReadStep ==
  ASSUME AutomationAssumption, AutomationInv, NEW w \in Executions, ReadCandidates(w)
  PROVE  AutomationInv'
<1> DEFINE due == {p \in Projects : Due(p)}
<1>1. PICK s \in [1..Cardinality(due) -> due] :
        /\ InOrder(s) /\ exec[w].pc = "read"
        /\ Become(w, AfterClaims([exec[w] EXCEPT !.pc = "claim", !.candidates = DueRead(w, s)]))
  <2> DEFINE taken == {n \in 1..Cardinality(due) : n <= 3 * Limit}
             Read(p) == [project |-> p, frequency |-> row[p].frequency, intact |-> TRUE]
  <2>1. PICK s \in [1..Cardinality(due) -> due] :
          /\ InOrder(s)
          /\ Become(w, AfterClaims([exec[w] EXCEPT !.pc = "claim",
                                                  !.candidates = [n \in taken |-> Read(s[n])]]))
    BY Zenon DEF ReadCandidates
  <2>2. DueRead(w, s) = [n \in taken |-> Read(s[n])] BY DEF DueRead
  <2> QED BY <2>1, <2>2 DEF ReadCandidates
<1> DEFINE e == AfterClaims([exec[w] EXCEPT !.pc = "claim", !.candidates = DueRead(w, s)])
<1>2. e \in Execution /\ Sound(e) /\ e.claimed = <<>> /\ Become(w, e) BY <1>1, ReadIsSound
<1> HIDE DEF e
<1>3. UNCHANGED <<row, request, upsets>> BY DEF ReadCandidates
<1>4. exec' \in [Executions -> Execution] /\ exec'[w] = e
      /\ \A v \in Executions : v # w => exec'[v] = exec[v]
  BY <1>2 DEF Become, AutomationInv, TypeOK
<1>5. TypeOK' /\ RowsKeepDistance' /\ RequestsOK'
  BY <1>3, <1>4 DEF AutomationInv, TypeOK, RowsKeepDistance, RequestsOK
<1>6. ASSUME NEW v \in Executions PROVE Within(exec'[v], exec[v]) /\ Sound(exec[v])'
  <2>1. CASE v = w
    <3>1. DOMAIN e.claimed = {} BY <1>2
    <3> QED BY <2>1, <3>1, <1>2, <1>3, <1>4 DEF Within, Sound
  <2>2. CASE v # w
    BY <2>2, <1>3, <1>4, Parts DEF Within, Sound
  <2> QED BY <2>1, <2>2
<1> QED BY <1>5, <1>6, Assemble

-----------------------------------------------------------------------------
LEMMA HoldsProjects ==
  ASSUME NEW e \in Execution
  PROVE  /\ \A n \in DOMAIN e.candidates : e.candidates[n] \in Candidate /\ e.candidates[n].project \in Projects
         /\ \A n \in DOMAIN e.claimed : e.claimed[n] \in Candidate /\ e.claimed[n].project \in Projects
         /\ e.age \in 0..MaxAge /\ e.age \in Int
<1>1. e.candidates \in Seq(Candidate) /\ e.claimed \in Seq(Candidate) /\ e.age \in 0..MaxAge
  BY DEF Execution
<1>2. \A s \in Seq(Candidate) : \A n \in DOMAIN s : s[n] \in Candidate
  BY ElementOfSeq
<1>3. \A c \in Candidate : c.project \in Projects BY DEF Candidate
<1> QED BY <1>1, <1>2, <1>3

(* A claim: the row's lock is free, so nobody's claim of it stands.        *)
LEMMA HeadIsGone ==
  ASSUME NEW S, NEW s \in Seq(S), s # <<>>
  PROVE  /\ 1 \in DOMAIN s /\ Head(s) = s[1] /\ Tail(s) \in Seq(S)
         /\ \A n \in DOMAIN Tail(s) : n + 1 \in DOMAIN s /\ n + 1 # 1 /\ Tail(s)[n] = s[n + 1]
<1>1. Len(s) \in Nat /\ Len(s) # 0 /\ DOMAIN s = 1..Len(s) /\ Head(s) = s[1] OBVIOUS
<1>2. Tail(s) \in Seq(S) /\ Len(Tail(s)) = Len(s) - 1 /\ DOMAIN Tail(s) = 1..(Len(s) - 1)
      /\ \A i \in 1 .. Len(Tail(s)) : Tail(s)[i] = s[i + 1]
  BY HeadTailProperties
<1> QED BY <1>1, <1>2

LEMMA ClaimStep ==
  ASSUME AutomationAssumption, AutomationInv, NEW w \in Executions, Claim(w)
  PROVE  AutomationInv'
<1> DEFINE x == exec[w]
           c == Head(x.candidates)
           p == c.project
           rest == [x EXCEPT !.candidates = Tail(@)]
           more == [rest EXCEPT !.claimed = Append(@, c)]
<1>1. x \in Execution /\ Sound(x) /\ x.pc = "claim" /\ x.candidates \in Seq(Candidate)
      /\ x.candidates # <<>> /\ x.claimed \in Seq(Candidate) /\ x.age \in 0..MaxAge
  BY Parts DEF Claim, Sound, Control, Execution
<1>2. /\ 1 \in DOMAIN x.candidates /\ c = x.candidates[1] /\ Tail(x.candidates) \in Seq(Candidate)
      /\ \A n \in DOMAIN Tail(x.candidates) :
           n + 1 \in DOMAIN x.candidates /\ n + 1 # 1 /\ Tail(x.candidates)[n] = x.candidates[n + 1]
  BY <1>1, HeadIsGone
<1>3. c \in Candidate /\ p \in Projects
  <2>1. c \in Candidate BY <1>1, <1>2
  <2> QED BY <2>1 DEF Candidate
<1>4. /\ rest \in Execution /\ rest.pc = "claim" /\ rest.candidates = Tail(x.candidates)
      /\ rest.claimed = x.claimed /\ rest.age = x.age
  BY <1>1, <1>2 DEF Execution
<1>5. /\ Distinct(rest) /\ Within(rest, x)
      /\ \A n \in DOMAIN rest.candidates : rest.candidates[n].project # p
      /\ \A n \in DOMAIN rest.claimed : rest.claimed[n].project # p
  <2>1. Distinct(x) BY <1>1 DEF Sound
  <2>2. \A n \in DOMAIN rest.candidates :
          n \in Int /\ n + 1 \in DOMAIN x.candidates /\ n + 1 # 1
          /\ rest.candidates[n] = x.candidates[n + 1]
    BY <1>1, <1>2, <1>4
  <2> HIDE DEF rest, c, x
  <2>3. \A n \in DOMAIN rest.candidates : rest.candidates[n].project # p
    BY <2>1, <2>2, <1>2 DEF Distinct
  <2>4. \A n \in DOMAIN rest.claimed : rest.claimed[n].project # p
    BY <2>1, <1>2, <1>4 DEF Distinct
  <2>5. \A m, n \in DOMAIN rest.candidates : m # n => m + 1 # n + 1
    BY <2>2
  <2>6. Distinct(rest)
    BY <2>1, <2>2, <2>5, <1>4 DEF Distinct
  <2>7. Within(rest, x) BY <1>4 DEF Within, Stands
  <2> QED BY <2>3, <2>4, <2>6, <2>7
<1>6. /\ \A n \in DOMAIN rest.candidates : Far(row, rest.age, rest.candidates[n])
      /\ \A n \in DOMAIN rest.claimed : Far(row, rest.age, rest.claimed[n])
      /\ Far(row, rest.age, c) /\ Held(row, rest)
  BY <1>1, <1>2, <1>4 DEF Sound, Spaced, Held, Stands
<1>7. UNCHANGED <<request, upsets>> /\ RequestsOK' BY DEF Claim, AutomationInv, RequestsOK
<1>8. CASE ~Claimable(p, x.age)
  <2> DEFINE e == AfterClaims(rest)
  <2>1. Become(w, e) /\ row' = row BY <1>8 DEF Claim
  <2>2. /\ e \in Execution /\ Control(e) /\ e.claimed = rest.claimed /\ e.age = rest.age
        /\ e.candidates = rest.candidates \/ e.candidates = <<>>
    BY <1>4, AfterClaimsIs
  <2> HIDE DEF e, rest
  <2>3. Spaced(row, rest) BY <1>6 DEF Spaced
  <2>4. Distinct(e) /\ Spaced(row, e) /\ Held(row, e) /\ Within(e, rest)
    BY <1>5, <1>6, <2>2, <2>3, FewerCandidates
  <2>5. exec' \in [Executions -> Execution] /\ exec'[w] = e
        /\ \A v \in Executions : v # w => exec'[v] = exec[v]
    BY <2>1, <2>2 DEF Become, AutomationInv, TypeOK
  <2>6. TypeOK' /\ RowsKeepDistance'
    BY <2>1, <2>5, <1>7 DEF AutomationInv, TypeOK, RowsKeepDistance, RequestsOK
  <2>7. ASSUME NEW v \in Executions PROVE Within(exec'[v], exec[v]) /\ Sound(exec[v])'
    <3>1. CASE v = w
      <4>1. Within(e, x) BY <2>2, <1>4 DEF Within, Stands
      <4> QED BY <3>1, <4>1, <2>1, <2>2, <2>4, <2>5 DEF Sound
    <3>2. CASE v # w BY <3>2, <2>1, <2>5, Parts DEF Within, Sound
    <3> QED BY <3>1, <3>2
  <2> QED BY <2>6, <2>7, <1>7, Assemble
<1>9. CASE Claimable(p, x.age)
  <2> DEFINE e == AfterClaims(more)
             r == [row EXCEPT ![p].lock = LockTime - x.age]
  <2>1. Become(w, e) /\ row' = r BY <1>9 DEF Claim
  <2>2. /\ Append(x.claimed, c) \in Seq(Candidate)
        /\ \A n \in DOMAIN Append(x.claimed, c) :
             \/ n \in DOMAIN x.claimed /\ Append(x.claimed, c)[n] = x.claimed[n]
             \/ n = Len(x.claimed) + 1 /\ Append(x.claimed, c)[n] = c
    BY <1>1, <1>3, AppendProperties
  <2>3. /\ more \in Execution /\ more.pc = "claim" /\ more.candidates = rest.candidates
        /\ more.claimed = Append(x.claimed, c) /\ more.age = x.age
    BY <1>4, <2>2 DEF Execution
  <2>4. /\ e \in Execution /\ Control(e) /\ e.claimed = more.claimed /\ e.age = more.age
        /\ e.candidates = more.candidates \/ e.candidates = <<>>
    BY <2>3, AfterClaimsIs
  <2> HIDE DEF e, more, rest, c, x
  <2>5. \A n \in DOMAIN more.claimed :
             \/ n \in DOMAIN x.claimed /\ more.claimed[n] = x.claimed[n]
             \/ n = Len(x.claimed) + 1 /\ more.claimed[n] = c
    BY <2>2, <2>3
  <2>6. Distinct(more)
    <3>1. Distinct(rest) /\ rest.claimed = x.claimed /\ more.candidates = rest.candidates
      BY <1>4, <1>5, <2>3
    <3>2. /\ \A n \in DOMAIN rest.candidates : rest.candidates[n].project # c.project
          /\ \A n \in DOMAIN rest.claimed : rest.claimed[n].project # c.project
      BY <1>5
    <3>3. \A m, n \in DOMAIN more.claimed :
            m # n => more.claimed[m].project # more.claimed[n].project
      BY <2>5, <3>1, <3>2 DEF Distinct
    <3> QED BY <2>5, <3>1, <3>2, <3>3 DEF Distinct
  <2>7. /\ r \in [Projects -> Row] /\ r[p].lock = LockTime - x.age
        /\ \A q \in Projects : /\ q # p => r[q] = row[q]
                               /\ r[q].since = row[q].since /\ r[q].next = row[q].next
                               /\ r[q].enabled = row[q].enabled
    <3>1. LockTime - x.age \in Free..LockTime
      BY <1>1 DEF AutomationAssumption, Free, Ago
    <3>2. row[p] \in Row BY <1>3 DEF AutomationInv, TypeOK
    <3>3. [row[p] EXCEPT !.lock = LockTime - x.age] \in Row BY <3>1, <3>2 DEF Row
    <3>4. r = [row EXCEPT ![p] = [row[p] EXCEPT !.lock = LockTime - x.age]] OBVIOUS
    <3> QED BY <3>2, <3>3, <3>4, <1>3 DEF AutomationInv, TypeOK, Row
  <2> HIDE DEF r
  <2>8. Spaced(r, more)
    <3>1. \A d, age : d \in Candidate /\ Far(row, age, d) => Far(r, age, d)
      BY <2>7 DEF Far, Candidate
    <3>2. \A n \in DOMAIN more.candidates :
            more.candidates[n] \in Candidate /\ Far(row, more.age, more.candidates[n])
      BY <1>6, <2>3, <1>4, <1>2
    <3>3. \A n \in DOMAIN more.claimed :
            more.claimed[n] \in Candidate /\ Far(row, more.age, more.claimed[n])
      BY <1>1, <1>3, <1>4, <1>6, <2>3, <2>5
    <3> QED BY <3>1, <3>2, <3>3 DEF Spaced
  <2>9. Held(r, more)
    <3>1. \A n \in DOMAIN x.claimed : x.claimed[n].project \in Projects /\ x.claimed[n].project # p
      BY <1>1, <1>4, <1>5, HoldsProjects
    <3>2. rest.claimed = x.claimed /\ rest.age = x.age /\ more.age = x.age /\ Held(row, rest)
      BY <1>4, <1>6, <2>3
    <3>3. ASSUME NEW n \in DOMAIN more.claimed, Stands(more, n)
          PROVE  r[more.claimed[n].project].lock = LockTime - more.age
      <4>1. CASE n \in DOMAIN x.claimed /\ more.claimed[n] = x.claimed[n]
        <5>1. Stands(rest, n) BY <3>2, <3>3, <4>1 DEF Stands
        <5>2. row[x.claimed[n].project].lock = LockTime - x.age BY <3>2, <4>1, <5>1 DEF Held
        <5>3. r[x.claimed[n].project] = row[x.claimed[n].project] BY <2>7, <3>1, <4>1
        <5> QED BY <3>2, <4>1, <5>2, <5>3
      <4>2. CASE more.claimed[n] = c BY <2>7, <3>2, <4>2
      <4> QED BY <2>5, <4>1, <4>2
    <3> QED BY <3>3 DEF Held
  <2>10. Distinct(e) /\ Spaced(r, e) /\ Held(r, e)
    BY <2>4, <2>6, <2>8, <2>9, FewerCandidates
  <2>11. exec' \in [Executions -> Execution] /\ exec'[w] = e
         /\ \A v \in Executions : v # w => exec'[v] = exec[v]
    BY <2>1, <2>4 DEF Become, AutomationInv, TypeOK
  <2>12. TypeOK' /\ RowsKeepDistance'
    BY <2>1, <2>7, <2>11, <1>7 DEF AutomationInv, TypeOK, RowsKeepDistance, RequestsOK
  <2>13. ASSUME NEW v \in Executions, v # w, NEW n \in DOMAIN exec[v].claimed,
                Stands(exec[v], n)
         PROVE  exec[v].claimed[n].project \in Projects \ {p}
    <3>1. exec[v] \in Execution /\ Held(row, exec[v]) BY Parts DEF Sound
    <3>2. exec[v].claimed[n].project \in Projects /\ exec[v].age \in Nat
      BY <3>1, HoldsProjects
    <3>3. row[exec[v].claimed[n].project].lock >= 0
      BY <2>13, <3>1, <3>2 DEF Held, Stands, AutomationAssumption
    <3>4. row[p].lock < 0 /\ row[p].lock \in Int
      BY <1>1, <1>3, <1>9 DEF Claimable, Unlocked, AutomationInv, TypeOK, Row, Free, Ago,
                              AutomationAssumption
    <3> QED BY <3>2, <3>3, <3>4
  <2>14. ASSUME NEW v \in Executions, v # w PROVE Sound(exec[v])' /\ exec'[v] = exec[v]
    <3>1. exec[v] \in Execution /\ Sound(exec[v]) BY Parts
    <3>2. \A n \in DOMAIN exec[v].candidates : exec[v].candidates[n].project \in Projects
      BY <3>1, HoldsProjects
    <3>3. \A n \in DOMAIN exec[v].claimed : exec[v].claimed[n].project \in Projects
      BY <3>1, HoldsProjects
    <3>4. Spaced(r, exec[v]) BY <3>1, <3>2, <3>3, <2>7 DEF Sound, Spaced, Far
    <3>5. Held(r, exec[v]) BY <3>1, <2>7, <2>13, <2>14 DEF Sound, Held
    <3> QED BY <3>1, <3>4, <3>5, <2>1, <2>11, <2>14 DEF Sound
  <2>15. ASSUME NEW v \in Executions, v # w
         PROVE  Apart(exec'[w], exec'[v]) /\ Apart(exec'[v], exec'[w])
    <3>1. Apart(x, exec[v]) BY <2>15, Parts DEF x
    <3>2. ASSUME NEW m \in DOMAIN e.claimed, NEW n \in DOMAIN exec[v].claimed,
                 e.claimed[m].project = exec[v].claimed[n].project,
                 Stands(e, m), Stands(exec[v], n)
          PROVE  FALSE
      <4>1. e.claimed[m] # c BY <2>13, <2>15, <3>2
      <4>2. m \in DOMAIN x.claimed /\ e.claimed[m] = x.claimed[m] BY <4>1, <2>4, <2>5
      <4> QED BY <3>1, <3>2, <4>2, <2>3, <2>4 DEF Apart, Stands
    <3> QED BY <3>2, <2>11, <2>15 DEF Apart
  <2>16. ASSUME NEW v \in Executions, NEW u \in Executions, v # u PROVE Apart(exec'[v], exec'[u])
    BY <2>15, <2>16, <2>11 DEF AutomationInv
  <2>17. ASSUME NEW v \in Executions PROVE Sound(exec[v])'
    <3>1. CASE v = w BY <3>1, <2>1, <2>4, <2>10, <2>11 DEF Sound
    <3> QED BY <3>1, <2>14
  <2> QED BY <2>12, <2>16, <2>17, <1>7 DEF AutomationInv, Sound
<1> QED BY <1>8, <1>9

-----------------------------------------------------------------------------
(* A project whose row changes: what the others hold of it is not intact.  *)
MarkOf(p, s) == [n \in DOMAIN s |-> [s[n] EXCEPT !.intact = @ /\ s[n].project # p]]

LEMMA MarkIs ==
  ASSUME NEW p, NEW s \in Seq(Candidate)
  PROVE  /\ MarkOf(p, s) \in Seq(Candidate) /\ DOMAIN MarkOf(p, s) = DOMAIN s
         /\ (MarkOf(p, s) = <<>>) <=> (s = <<>>)
         /\ \A n \in DOMAIN s : /\ MarkOf(p, s)[n].project = s[n].project
                                /\ MarkOf(p, s)[n].intact => s[n].intact /\ s[n].project # p
<1>1. \A n \in DOMAIN s : s[n] \in Candidate BY ElementOfSeq
<1>2. \A n \in DOMAIN s : MarkOf(p, s)[n] = [s[n] EXCEPT !.intact = s[n].intact /\ s[n].project # p]
  BY DEF MarkOf
<1>3. \A c \in Candidate : /\ [c EXCEPT !.intact = c.intact /\ c.project # p] \in Candidate
                           /\ [c EXCEPT !.intact = c.intact /\ c.project # p].project = c.project
                           /\ [c EXCEPT !.intact = c.intact /\ c.project # p].intact = (c.intact /\ c.project # p)
  BY DEF Candidate
<1>4. Len(s) \in Nat /\ DOMAIN s = 1..Len(s) /\ (s = <<>> <=> Len(s) = 0) OBVIOUS
<1>5. DOMAIN MarkOf(p, s) = DOMAIN s BY DEF MarkOf
<1>6. MarkOf(p, s) \in [1..Len(s) -> Candidate] BY <1>1, <1>2, <1>3, <1>4, <1>5 DEF MarkOf
<1>7. MarkOf(p, s) \in Seq(Candidate) /\ Len(MarkOf(p, s)) = Len(s) BY <1>4, <1>6
<1>8. MarkOf(p, s) = <<>> <=> Len(MarkOf(p, s)) = 0 BY <1>7
<1>9. \A n \in DOMAIN s : /\ MarkOf(p, s)[n].project = s[n].project
                          /\ MarkOf(p, s)[n].intact => s[n].intact /\ s[n].project # p
  BY <1>1, <1>2, <1>3
<1> QED BY <1>4, <1>5, <1>7, <1>8, <1>9

LEMMA StaleIs ==
  ASSUME NEW p, NEW q \in Execution
  PROVE  /\ Stale(p, q) \in Execution /\ Stale(p, q).pc = q.pc /\ Stale(p, q).age = q.age
         /\ Stale(p, q).candidates = MarkOf(p, q.candidates)
         /\ Stale(p, q).claimed = MarkOf(p, q.claimed)
<1>1. Stale(p, q) = [q EXCEPT !.candidates = MarkOf(p, @), !.claimed = MarkOf(p, @)]
  BY DEF Stale, MarkOf
<1>2. MarkOf(p, q.candidates) \in Seq(Candidate) /\ MarkOf(p, q.claimed) \in Seq(Candidate)
  BY MarkIs DEF Execution
<1> QED BY <1>1, <1>2 DEF Execution

LEMMA DisturbedIsSound ==
  ASSUME AutomationInv, NEW v \in Executions, NEW p \in Projects, NEW r,
         \A q \in Projects : q # p => r[q] = row[q],
         NEW e, e = Stale(p, exec[v])
  PROVE  /\ e \in Execution /\ Within(e, exec[v])
         /\ Control(e) /\ Distinct(e) /\ Spaced(r, e) /\ Held(r, e)
<1> DEFINE x == exec[v]
<1>1. x \in Execution /\ Sound(x) /\ x.candidates \in Seq(Candidate) /\ x.claimed \in Seq(Candidate)
  BY Parts DEF Execution
<1>2. /\ e \in Execution /\ e.pc = x.pc /\ e.age = x.age
      /\ e.candidates = MarkOf(p, x.candidates) /\ e.claimed = MarkOf(p, x.claimed)
  BY <1>1, StaleIs
<1>3. /\ DOMAIN e.candidates = DOMAIN x.candidates /\ (e.candidates = <<>> <=> x.candidates = <<>>)
      /\ \A n \in DOMAIN x.candidates :
           /\ e.candidates[n].project = x.candidates[n].project
           /\ e.candidates[n].intact => x.candidates[n].intact /\ x.candidates[n].project # p
  BY <1>1, <1>2, MarkIs
<1>4. /\ DOMAIN e.claimed = DOMAIN x.claimed /\ (e.claimed = <<>> <=> x.claimed = <<>>)
      /\ \A n \in DOMAIN x.claimed :
           /\ e.claimed[n].project = x.claimed[n].project
           /\ e.claimed[n].intact => x.claimed[n].intact /\ x.claimed[n].project # p
  BY <1>1, <1>2, MarkIs
<1>5. /\ \A n \in DOMAIN x.candidates : x.candidates[n].project \in Projects
      /\ \A n \in DOMAIN x.claimed : x.claimed[n].project \in Projects
  BY <1>1, HoldsProjects
<1> HIDE DEF x
<1>6. Control(e) BY <1>1, <1>2, <1>3, <1>4 DEF Sound, Control
<1>7. Distinct(e) BY <1>1, <1>3, <1>4 DEF Sound, Distinct
<1>8. Spaced(r, e)
  <2>1. Spaced(row, x) BY <1>1 DEF Sound
  <2>2. \A n \in DOMAIN e.candidates : Far(r, e.age, e.candidates[n])
    BY <2>1, <1>2, <1>3, <1>5 DEF Spaced, Far
  <2>3. \A n \in DOMAIN e.claimed : Far(r, e.age, e.claimed[n])
    BY <2>1, <1>2, <1>4, <1>5 DEF Spaced, Far
  <2> QED BY <2>2, <2>3 DEF Spaced
<1>9. Held(r, e) /\ Within(e, x)
  BY <1>1, <1>2, <1>4, <1>5 DEF Sound, Held, Within, Stands
<1> QED BY <1>2, <1>6, <1>7, <1>8, <1>9 DEF x

(* The row of p changes; every execution but perhaps one is disturbed.     *)
LEMMA RowChanges ==
  ASSUME AutomationInv, NEW p \in Projects, NEW r \in Row, row' = [row EXCEPT ![p] = r],
         r.enabled => r.next # Never,
         r.next # Never => r.since + r.next >= MinFrequency,
         RequestsOK', upsets' \in Nat, exec' \in [Executions -> Execution],
         \A v \in Executions :
           \/ exec'[v] = Stale(p, exec[v])
           \/ Within(exec'[v], exec[v]) /\ Sound(exec[v])'
  PROVE  AutomationInv'
<1>1. row' \in [Projects -> Row] /\ row'[p] = r /\ \A q \in Projects : q # p => row'[q] = row[q]
  BY DEF AutomationInv, TypeOK
<1>2. TypeOK' /\ RowsKeepDistance'
  BY <1>1 DEF AutomationInv, TypeOK, RowsKeepDistance, RequestsOK
<1>3. ASSUME NEW v \in Executions PROVE Within(exec'[v], exec[v]) /\ Sound(exec[v])'
  <2>1. CASE exec'[v] = Stale(p, exec[v])
    BY <2>1, <1>1, DisturbedIsSound DEF Sound
  <2> QED BY <2>1
<1> QED BY <1>2, <1>3, Assemble

LEMMA ClampIs ==
  ASSUME AutomationAssumption, NEW minutes \in Int
  PROVE  ClampFrequency(minutes) \in Nat /\ ClampFrequency(minutes) >= MinFrequency
BY DEF AutomationAssumption, ClampFrequency

LEMMA RescheduledIs ==
  ASSUME AutomationAssumption, NEW r \in Row, NEW frequency \in Int, NEW age \in 0..MaxAge
  PROVE  LET n == Rescheduled(r, frequency, age)
         IN n \in Row /\ n.next # Never /\ n.since + n.next >= MinFrequency
<1> DEFINE f == ClampFrequency(frequency)
           later == IF f > age THEN f - age ELSE 0
           n == [r EXCEPT !.lock = Free, !.since = age, !.next = later]
<1>1. f \in Nat /\ f >= MinFrequency BY ClampIs
<1>2. Rescheduled(r, frequency, age) = n BY DEF Rescheduled
<1> HIDE DEF f
<1>3. later \in Nat /\ later # Never /\ age + later >= MinFrequency
  BY <1>1 DEF AutomationAssumption, Never
<1> HIDE DEF later
<1>4. Free \in Free..LockTime /\ age \in 0..LongAgo
  BY DEF AutomationAssumption, Free, Ago, LongAgo
<1>5. n \in Row /\ n.next = later /\ n.since = age BY <1>3, <1>4 DEF Row
<1> QED BY <1>2, <1>3, <1>5

(* A run is recorded: the lock goes with the claim.                        *)
LEMMA RecordStep ==
  ASSUME AutomationAssumption, AutomationInv, NEW w \in Executions, NEW ok \in {0, 1},
         exec[w].pc = "work", UNCHANGED <<request, upsets>>,
         LET c == Head(exec[w].claimed)
         IN Record(w, Rescheduled(row[c.project], c.frequency, exec[w].age), ok)
  PROVE  AutomationInv'
<1> DEFINE x == exec[w]
           c == Head(x.claimed)
           p == c.project
           rest == Tail(x.claimed)
           r == Rescheduled(row[p], c.frequency, x.age)
           e == [x EXCEPT !.claimed = rest, !.processed = @ + ok, !.pc = IF rest = <<>> THEN "count" ELSE "work"]
<1>1. /\ x \in Execution /\ Sound(x) /\ x.claimed \in Seq(Candidate) /\ x.claimed # <<>>
      /\ x.age \in 0..MaxAge /\ x.processed \in Nat /\ x.candidates = <<>>
  BY Parts DEF Sound, Control, Execution
<1>2. /\ 1 \in DOMAIN x.claimed /\ c = x.claimed[1] /\ rest \in Seq(Candidate)
      /\ \A n \in DOMAIN rest : n + 1 \in DOMAIN x.claimed /\ n + 1 # 1 /\ rest[n] = x.claimed[n + 1]
  BY <1>1, HeadIsGone
<1>3. c \in Candidate /\ p \in Projects /\ c.frequency \in Nat
  <2>1. c \in Candidate BY <1>1, <1>2, HoldsProjects
  <2> QED BY <2>1 DEF Candidate
<1>4. row[p] \in Row BY <1>3 DEF AutomationInv, TypeOK
<1>5. r \in Row /\ r.next # Never /\ r.since + r.next >= MinFrequency
  <2>1. PICK y \in Row, f \in Int, age \in 0..MaxAge : y = row[p] /\ f = c.frequency /\ age = x.age
    <3>1. row[p] \in Row /\ c.frequency \in Int /\ x.age \in 0..MaxAge BY <1>1, <1>3, <1>4
    <3> QED BY <3>1
  <2>2. PICK n : n = Rescheduled(y, f, age) OBVIOUS
  <2>3. n \in Row /\ n.next # Never /\ n.since + n.next >= MinFrequency BY <2>2, RescheduledIs
  <2>4. r = n BY <2>1, <2>2
  <2> HIDE DEF r
  <2> QED BY <2>3, <2>4
<1>6. row' = [row EXCEPT ![p] = r] /\ exec' = [v \in Executions |-> IF v = w THEN e ELSE Stale(p, exec[v])]
  BY DEF Record, Disturb
<1>7. /\ e \in Execution /\ e.claimed = rest /\ e.age = x.age /\ e.candidates = x.candidates
      /\ e.pc = IF rest = <<>> THEN "count" ELSE "work"
  <2>1. x.processed + ok \in Nat BY <1>1
  <2> DEFINE pc == IF rest = <<>> THEN "count" ELSE "work"
  <2>2. pc \in {"count", "work"} OBVIOUS
  <2> HIDE DEF pc
  <2>3. LET d == [x EXCEPT !.claimed = rest, !.processed = x.processed + ok, !.pc = pc]
        IN d \in Execution /\ d.claimed = rest /\ d.age = x.age /\ d.candidates = x.candidates /\ d.pc = pc
    BY <1>1, <1>2, <2>1, <2>2 DEF Execution
  <2> QED BY <2>3 DEF pc
<1> HIDE DEF e, r, rest, c, x
<1>8. Control(e) BY <1>1, <1>7 DEF Control
<1>9. \A n \in DOMAIN e.claimed :
        /\ n \in Int /\ n + 1 \in DOMAIN x.claimed /\ e.claimed[n] = x.claimed[n + 1]
        /\ e.claimed[n].project \in Projects \ {p}
  <2>1. \A n \in DOMAIN rest : n \in Int BY <1>2
  <2>2. \A n \in DOMAIN rest : x.claimed[n + 1].project # p BY <1>1, <1>2 DEF Sound, Distinct
  <2>3. \A n \in DOMAIN x.claimed : x.claimed[n].project \in Projects BY <1>1, HoldsProjects
  <2> QED BY <1>2, <1>7, <2>1, <2>2, <2>3
<1>10. Distinct(e)
  <2>1. Distinct(x) BY <1>1 DEF Sound
  <2>2. \A m, n \in DOMAIN e.claimed : m # n => m + 1 # n + 1 BY <1>9
  <2>3. DOMAIN e.candidates = {} BY <1>1, <1>7
  <2> QED BY <2>1, <2>2, <2>3, <1>9 DEF Distinct
<1>11. \A q \in Projects : q # p => row'[q] = row[q] BY <1>6 DEF AutomationInv, TypeOK
<1>12. Spaced(row', e)
  <2>1. Spaced(row, x) BY <1>1 DEF Sound
  <2>2. DOMAIN e.candidates = {} BY <1>1, <1>7
  <2>3. \A n \in DOMAIN e.claimed : Far(row', e.age, e.claimed[n])
    BY <2>1, <1>7, <1>9, <1>11 DEF Spaced, Far
  <2> QED BY <2>2, <2>3 DEF Spaced
<1>13. Held(row', e) /\ Within(e, x)
  <2>1. Held(row, x) BY <1>1 DEF Sound
  <2>2. \A n \in DOMAIN e.claimed : Stands(e, n) => Stands(x, n + 1) BY <1>7, <1>9 DEF Stands
  <2> QED BY <2>1, <2>2, <1>7, <1>9, <1>11 DEF Held, Within
<1>14. exec' \in [Executions -> Execution]
  BY <1>6, <1>7, StaleIs DEF AutomationInv, TypeOK
<1>15. \A v \in Executions :
         \/ exec'[v] = Stale(p, exec[v])
         \/ Within(exec'[v], exec[v]) /\ Sound(exec[v])'
  BY <1>6, <1>8, <1>10, <1>12, <1>13 DEF Sound, x
<1>16. RequestsOK' /\ upsets' \in Nat BY DEF AutomationInv, TypeOK, RequestsOK
<1> QED BY <1>3, <1>5, <1>6, <1>14, <1>15, <1>16, RowChanges

-----------------------------------------------------------------------------
(* The requests.                                                           *)
LEMMA NoRequestOK == NoRequest \in Requests /\ NoRequest.op = "none"
BY DEF NoRequest, Requests

LEMMA RequestIs ==
  ASSUME AutomationInv, NEW a \in Admins
  PROVE  /\ request[a].op = "update" =>
              /\ request[a] \in [op : {"update"}, project : Projects, enabled : BOOLEAN,
                     frequency : {f \in Nat : f >= MinFrequency}, next : Nat \cup {Never}, back : BOOLEAN]
              /\ request[a].enabled => request[a].next # Never
              /\ request[a].next # Never /\ ~request[a].back => request[a].next >= MinFrequency
         /\ request[a].op = "run" => request[a] \in [op : {"run"}, project : Projects, frequency : Nat]
<1>1. request[a] \in Requests BY DEF AutomationInv, RequestsOK
<1> QED BY <1>1 DEF AutomationInv, RequestsOK, Requests, NoRequest

LEMMA Finished ==
  ASSUME AutomationInv, NEW a \in Admins, Finish(a)
  PROVE  RequestsOK'
BY NoRequestOK DEF AutomationInv, RequestsOK, Finish

LEMMA Asks ==
  ASSUME AutomationInv, NEW a \in Admins, NEW q \in Requests, Open(a, q), UNCHANGED <<row, exec, upsets>>,
         q.op = "update" => /\ q.enabled => q.next # Never
                            /\ q.next # Never /\ ~q.back => q.next >= MinFrequency
  PROVE  AutomationInv'
<1>1. RequestsOK' BY DEF AutomationInv, RequestsOK, Open
<1>2. exec' \in [Executions -> Execution] /\ upsets' \in Nat BY DEF AutomationInv, TypeOK
<1>3. \A v \in Executions : Control(exec'[v]) /\ SameHold(exec'[v], exec[v])
  BY Parts DEF SameHold, Sound
<1> QED BY <1>1, <1>2, <1>3, RowsStay

LEMMA UpdateRequestStep ==
  ASSUME AutomationAssumption, AutomationInv, NEW a \in Admins, NEW p \in Projects,
         NEW enabled \in BOOLEAN \cup {NotAsked}, NEW frequency \in Asked \cup {NotAsked},
         UpdateRequest(a, p, enabled, frequency)
  PROVE  AutomationInv'
<1> DEFINE r == row[p]
           f == IF frequency # NotAsked THEN ClampFrequency(frequency) ELSE r.frequency
           on == IF enabled # NotAsked THEN enabled ELSE r.enabled
           restart == frequency # NotAsked \/ r.next = Never
           next == IF ~on THEN Never ELSE IF restart THEN f ELSE r.next
           q == [op |-> "update", project |-> p, enabled |-> on, frequency |-> f, next |-> next,
                 back |-> on /\ ~restart]
<1>1. r \in Row BY DEF AutomationInv, TypeOK
<1>2. r.frequency \in Nat /\ r.frequency >= MinFrequency /\ r.enabled \in BOOLEAN /\ r.next \in Nat \cup {Never}
  BY <1>1 DEF Row
<1>3. f \in Nat /\ f >= MinFrequency
  <2>1. frequency # NotAsked => frequency \in Int BY DEF AutomationAssumption
  <2> QED BY <1>2, <2>1, ClampIs
<1>4. on \in BOOLEAN BY <1>2
<1>5. Update(p, r, enabled, frequency) = q BY DEF Update
<1> HIDE DEF f, on, r
<1>6. next \in Nat \cup {Never} BY <1>2, <1>3
<1>7. /\ on => next # Never
      /\ next # Never /\ ~(on /\ ~restart) => next >= MinFrequency
  BY <1>3 DEF AutomationAssumption, Never
<1> HIDE DEF next, restart
<1>8. q \in Requests /\ q.op = "update" /\ q.enabled = on /\ q.next = next /\ q.back = (on /\ ~restart)
  BY <1>3, <1>4, <1>6 DEF Requests
<1>9. Open(a, q) /\ UNCHANGED <<row, exec, upsets>> BY <1>5 DEF UpdateRequest, r
<1> QED BY <1>7, <1>8, <1>9, Asks

LEMMA RunRequestStep ==
  ASSUME AutomationInv, NEW a \in Admins, NEW p \in Projects, RunRequest(a, p)
  PROVE  AutomationInv'
<1> DEFINE q == [op |-> "run", project |-> p, frequency |-> row[p].frequency]
<1>1. row[p].frequency \in Nat BY DEF AutomationInv, TypeOK, Row
<1>2. q \in Requests /\ q.op = "run" BY <1>1 DEF Requests
<1>3. Open(a, q) /\ UNCHANGED <<row, exec, upsets>> BY DEF RunRequest
<1> QED BY <1>2, <1>3, Asks

LEMMA UpdateStep ==
  ASSUME AutomationAssumption, AutomationInv, NEW a \in Admins, UpdateProjectSummarySchedule(a)
  PROVE  AutomationInv'
<1> DEFINE q == request[a]
           p == q.project
           r == Updated(row[p], q)
<1>1. /\ q \in [op : {"update"}, project : Projects, enabled : BOOLEAN,
                frequency : {f \in Nat : f >= MinFrequency}, next : Nat \cup {Never}, back : BOOLEAN]
      /\ q.enabled => q.next # Never
      /\ q.next # Never /\ ~q.back => q.next >= MinFrequency
  BY RequestIs DEF UpdateProjectSummarySchedule
<1>2. p \in Projects /\ row[p] \in Row BY <1>1 DEF AutomationInv, TypeOK
<1>3. /\ row' = [row EXCEPT ![p] = r] /\ upsets' \in Nat
      /\ IF row'[p].enabled THEN UNCHANGED exec ELSE DisturbAll(p)
  BY DEF UpdateProjectSummarySchedule, AutomationInv, TypeOK
<1>4. RequestsOK' BY Finished DEF UpdateProjectSummarySchedule
<1>5. /\ r.enabled = q.enabled /\ r.next = q.next /\ r \in Row
      /\ r.since = IF q.back /\ row[p].next # q.next THEN LongAgo ELSE row[p].since
      /\ q.enabled => r.lock = row[p].lock
  <2>1. Free \in Free..LockTime /\ LongAgo \in 0..LongAgo /\ LongAgo \in Nat
    BY DEF AutomationAssumption, Free, Ago, LongAgo
  <2> QED BY <1>1, <1>2, <2>1 DEF Updated, Row
<1>6. r.next # Never => r.since + r.next >= MinFrequency
  <2>1. row[p].next # Never => row[p].since + row[p].next >= MinFrequency
    BY <1>2 DEF AutomationInv, RowsKeepDistance
  <2>2. row[p].since \in Nat /\ MinFrequency \in Nat /\ LongAgo \in Nat /\ LongAgo >= MinFrequency
        /\ q.next \in Nat \cup {Never} /\ q.back \in BOOLEAN
    BY <1>1, <1>2 DEF Row, AutomationAssumption, LongAgo
  <2>3. CASE q.back /\ row[p].next # q.next BY <1>5, <2>2, <2>3 DEF Never
  <2>4. CASE q.back /\ row[p].next = q.next BY <1>5, <2>1, <2>4
  <2>5. CASE ~q.back BY <1>1, <1>5, <2>2, <2>5 DEF Never
  <2> QED BY <2>2, <2>3, <2>4, <2>5
<1> HIDE DEF r, q
<1>7. row'[p] = r /\ \A o \in Projects : o # p => row'[o] = row[o]
  BY <1>2, <1>3 DEF AutomationInv, TypeOK
<1>8. CASE r.enabled
  <2>1. exec' = exec BY <1>3, <1>7, <1>8
  <2>2. ASSUME NEW v \in Executions PROVE Within(exec'[v], exec[v]) /\ Sound(exec[v])'
    <3>1. exec[v] \in Execution /\ Sound(exec[v]) BY Parts
    <3>2. \A o \in Projects : row'[o].lock = row[o].lock BY <1>5, <1>7, <1>8
    <3>3. \A o \in Projects : row'[o].since >= row[o].since
      <4>1. \A o \in Projects : row[o].since \in 0..LongAgo /\ LongAgo \in Nat
        BY DEF AutomationInv, TypeOK, Row, AutomationAssumption, LongAgo
      <4> QED BY <4>1, <1>5, <1>7
    <3>4. \A n \in DOMAIN exec[v].candidates : exec[v].candidates[n].project \in Projects
      BY <3>1, HoldsProjects
    <3>5. \A n \in DOMAIN exec[v].claimed : exec[v].claimed[n].project \in Projects
      BY <3>1, HoldsProjects
    <3>6. Held(row', exec[v]) BY <3>1, <3>2, <3>5 DEF Sound, Held
    <3>7. ASSUME NEW c, c.project \in Projects, Far(row, exec[v].age, c) PROVE Far(row', exec[v].age, c)
      <4>1. row'[c.project].since \in Int /\ row[c.project].since \in Int /\ exec[v].age \in Int
            /\ MinFrequency \in Int
        BY <1>2, <1>5, <1>7, <3>1, <3>7, HoldsProjects
        DEF AutomationInv, TypeOK, Row, AutomationAssumption
      <4> QED BY <3>3, <3>7, <4>1 DEF Far
    <3>8. Spaced(row', exec[v]) BY <3>1, <3>4, <3>5, <3>7 DEF Sound, Spaced
    <3> QED BY <2>1, <3>1, <3>6, <3>8 DEF Sound, Within
  <2>3. exec' \in [Executions -> Execution] BY <2>1 DEF AutomationInv, TypeOK
  <2> QED BY <2>2, <2>3, <1>2, <1>3, <1>4, <1>5, <1>6, <1>1, RowChanges
<1>9. CASE ~r.enabled
  <2>1. exec' = [v \in Executions |-> Stale(p, exec[v])] BY <1>3, <1>7, <1>9 DEF DisturbAll
  <2>2. exec' \in [Executions -> Execution] BY <2>1, StaleIs DEF AutomationInv, TypeOK
  <2> QED BY <2>1, <2>2, <1>2, <1>3, <1>4, <1>5, <1>6, <1>9, RowChanges
<1> QED BY <1>8, <1>9

LEMMA TriggerStep ==
  ASSUME AutomationAssumption, AutomationInv, NEW a \in Admins, TriggerProjectSummaryAutomation(a)
  PROVE  AutomationInv'
<1> DEFINE p == request[a].project
           r == Rescheduled(row[p], request[a].frequency, 0)
<1>1. request[a] \in [op : {"run"}, project : Projects, frequency : Nat]
  BY RequestIs DEF TriggerProjectSummaryAutomation
<1>2. p \in Projects /\ request[a].frequency \in Int /\ row[p] \in Row
  BY <1>1 DEF AutomationInv, TypeOK
<1>3. r \in Row /\ r.next # Never /\ r.since + r.next >= MinFrequency
  <2>1. 0 \in 0..MaxAge BY DEF AutomationAssumption
  <2> QED BY <1>2, <2>1, RescheduledIs
<1>4. row' = [row EXCEPT ![p] = r] /\ exec' = [v \in Executions |-> Stale(p, exec[v])] /\ upsets' \in Nat
  BY DEF TriggerProjectSummaryAutomation, DisturbAll, AutomationInv, TypeOK
<1>5. RequestsOK' BY Finished DEF TriggerProjectSummaryAutomation
<1>6. exec' \in [Executions -> Execution] BY <1>4, StaleIs DEF AutomationInv, TypeOK
<1> HIDE DEF r
<1> QED BY <1>2, <1>3, <1>4, <1>5, <1>6, RowChanges

-----------------------------------------------------------------------------
(* Time moves every distance at once.                                      *)
LEMMA TickStep ==
  ASSUME AutomationAssumption, AutomationInv, Tick
  PROVE  AutomationInv'
<1>1. ASSUME NEW p \in Projects
      PROVE  /\ row[p] \in Row /\ row'[p] \in Row /\ row'[p].enabled = row[p].enabled
             /\ row'[p].next = IF row[p].next > 0 THEN row[p].next - 1 ELSE row[p].next
             /\ row'[p].lock = IF row[p].lock > Ago THEN row[p].lock - 1 ELSE row[p].lock
             /\ row'[p].since = IF row[p].since < LongAgo THEN row[p].since + 1 ELSE row[p].since
  <2> DEFINE next == IF row[p].next > 0 THEN row[p].next - 1 ELSE row[p].next
             lock == IF row[p].lock > Ago THEN row[p].lock - 1 ELSE row[p].lock
             since == IF row[p].since < LongAgo THEN row[p].since + 1 ELSE row[p].since
  <2>1. row[p] \in Row BY DEF AutomationInv, TypeOK
  <2>2. row[p].next \in Nat \cup {Never} /\ row[p].lock \in Free..LockTime /\ row[p].since \in 0..LongAgo
    BY <2>1 DEF Row
  <2>3. LongAgo \in Nat /\ LockTime \in Nat /\ Free \in Int /\ Ago = Free + 1
    BY DEF AutomationAssumption, LongAgo, Free, Ago
  <2>4. next \in Nat \cup {Never} BY <2>2 DEF Never
  <2>5. lock \in Free..LockTime BY <2>2, <2>3
  <2>6. since \in 0..LongAgo BY <2>2, <2>3
  <2>7. row'[p] = [row[p] EXCEPT !.next = next, !.lock = lock, !.since = since] BY DEF Tick
  <2> HIDE DEF next, lock, since
  <2>8. /\ row'[p] \in Row /\ row'[p].enabled = row[p].enabled /\ row'[p].next = next
        /\ row'[p].lock = lock /\ row'[p].since = since
    BY <2>1, <2>4, <2>5, <2>6, <2>7 DEF Row
  <2> QED BY <2>1, <2>8 DEF next, lock, since
<1>2. ASSUME NEW w \in Executions
      PROVE  /\ exec[w] \in Execution /\ Sound(exec[w]) /\ exec'[w] \in Execution
             /\ exec'[w].pc = exec[w].pc /\ exec'[w].candidates = exec[w].candidates
             /\ exec'[w].claimed = exec[w].claimed
             /\ exec'[w].age = IF exec[w].pc \in {"idle", "read"} THEN exec[w].age ELSE exec[w].age + 1
             /\ exec[w].age < MaxAge /\ exec[w].age \in Nat
  <2>1. exec[w] \in Execution /\ Sound(exec[w]) BY Parts
  <2>2. exec[w].age < MaxAge /\ exec[w].age \in Nat
    <3>1. exec[w].age \in 0..MaxAge BY <2>1 DEF Execution
    <3>2. exec[w].age < MaxAge BY DEF Tick
    <3> QED BY <3>1, <3>2 DEF AutomationAssumption
  <2>3. exec[w].age + 1 \in 0..MaxAge BY <2>2 DEF AutomationAssumption
  <2>4. exec'[w] = IF exec[w].pc \in {"idle", "read"} THEN exec[w] ELSE [exec[w] EXCEPT !.age = exec[w].age + 1]
    BY DEF Tick
  <2> QED BY <2>1, <2>2, <2>3, <2>4 DEF Execution
<1>3. TypeOK'
  <2>1. row' \in [Projects -> Row] BY <1>1 DEF Tick
  <2>2. exec' \in [Executions -> Execution] BY <1>2 DEF Tick
  <2> QED BY <2>1, <2>2 DEF Tick, AutomationInv, TypeOK
<1>4. RequestsOK' BY DEF Tick, AutomationInv, RequestsOK
<1>5. ASSUME NEW p \in Projects
      PROVE  /\ row[p].since \in 0..LongAgo /\ LongAgo \in Nat /\ LongAgo = MinFrequency + MaxAge
             /\ MinFrequency \in Nat /\ MaxAge \in Nat
             /\ row'[p].since = LongAgo \/ row'[p].since = row[p].since + 1
  BY <1>1 DEF Row, LongAgo, AutomationAssumption
<1>6. RowsKeepDistance'
  <2> SUFFICES ASSUME NEW p \in Projects
               PROVE  /\ row'[p].enabled => row'[p].next # Never
                      /\ row'[p].next # Never => row'[p].since + row'[p].next >= MinFrequency
    BY DEF RowsKeepDistance
  <2>1. /\ row[p].enabled => row[p].next # Never
        /\ row[p].next # Never => row[p].since + row[p].next >= MinFrequency
    BY DEF AutomationInv, RowsKeepDistance
  <2>2. row[p].next \in Nat \cup {Never} BY <1>1 DEF Row
  <2>3. row'[p].next = IF row[p].next > 0 THEN row[p].next - 1 ELSE row[p].next BY <1>1
  <2> QED BY <2>1, <2>2, <2>3, <1>1, <1>5 DEF Never
<1>7. ASSUME NEW w \in Executions PROVE Within(exec'[w], exec[w]) /\ Sound(exec[w])'
  <2>1. CASE Bare(exec[w])
    <3>1. Bare(exec'[w]) BY <2>1, <1>2 DEF Bare
    <3>2. DOMAIN exec'[w].claimed = {} BY <3>1 DEF Bare
    <3>3. Control(exec'[w]) BY <1>2 DEF Sound, Control
    <3> QED BY <3>1, <3>2, <3>3, BareIsSound DEF Sound, Within
  <2>2. CASE ~Bare(exec[w])
    <3>1. exec'[w].age = exec[w].age + 1 /\ exec[w].pc \notin {"idle", "read"}
      BY <2>2, <1>2 DEF Sound, Control, Bare
    <3>2. Control(exec'[w]) BY <3>1, <1>2 DEF Sound, Control
    <3>3. Distinct(exec'[w]) BY <1>2 DEF Sound, Distinct
    <3>4. ASSUME NEW c, c.project \in Projects, Far(row, exec[w].age, c)
          PROVE  Far(row', exec'[w].age, c)
      BY <3>1, <3>4, <1>2, <1>5 DEF Far
    <3>5. Spaced(row', exec'[w])
      BY <3>4, <1>2, HoldsProjects DEF Sound, Spaced
    <3>6. Within(exec'[w], exec[w])
      BY <3>1, <1>2 DEF Within, Stands, AutomationAssumption
    <3>7. ASSUME NEW n \in DOMAIN exec'[w].claimed, Stands(exec'[w], n)
          PROVE  row'[exec'[w].claimed[n].project].lock = LockTime - exec'[w].age
      <4> DEFINE p == exec[w].claimed[n].project
      <4>1. p \in Projects /\ n \in DOMAIN exec[w].claimed BY <1>2, HoldsProjects
      <4>2. Stands(exec[w], n) BY <3>1, <3>7, <1>2 DEF Stands, AutomationAssumption
      <4>3. row[p].lock = LockTime - exec[w].age BY <1>2, <4>1, <4>2 DEF Sound, Held
      <4>4. exec[w].age + 1 <= LockTime BY <3>1, <3>7 DEF Stands
      <4>5. row[p].lock > Ago
        BY <4>3, <4>4, <1>2 DEF AutomationAssumption, Ago
      <4>6. row'[p].lock = row[p].lock - 1 BY <1>1, <4>1, <4>5
      <4> HIDE DEF p
      <4>7. row'[p].lock = LockTime - exec'[w].age
        BY <3>1, <4>3, <4>6, <1>2 DEF AutomationAssumption
      <4> QED BY <4>7, <1>2 DEF p
    <3>8. Held(row', exec'[w]) BY <3>7 DEF Held
    <3> QED BY <3>2, <3>3, <3>5, <3>6, <3>8 DEF Sound
  <2> QED BY <2>1, <2>2
<1> QED BY <1>3, <1>4, <1>6, <1>7, Assemble

-----------------------------------------------------------------------------
LEMMA AutomationStep ==
  ASSUME AutomationAssumption, AutomationInv, [Next]_vars
  PROVE  AutomationInv'
<1>1. ASSUME NEW w \in Executions, StartWorkflow(w) PROVE AutomationInv'
  BY <1>1, AttemptOK, LetsGo DEF StartWorkflow, AutomationInv, TypeOK
<1>2. ASSUME NEW w \in Executions, TriggerWorkflow(w) PROVE AutomationInv'
  <2>1. Become(w, Attempt(TRUE, 1, 1)) /\ UNCHANGED <<row, request>>
    BY <1>2 DEF TriggerWorkflow
  <2>3. upsets' \in Nat BY <1>2 DEF TriggerWorkflow, Upset, AutomationInv, TypeOK
  <2>2. /\ Attempt(TRUE, 1, 1) \in Execution /\ Bare(Attempt(TRUE, 1, 1))
        /\ Control(Attempt(TRUE, 1, 1))
    BY AttemptOK
  <2> QED BY <2>1, <2>2, <2>3, LetsGo
<1>3. ASSUME NEW w \in Executions, ReadCandidates(w) PROVE AutomationInv'
  BY <1>3, ReadStep
<1>4. ASSUME NEW w \in Executions, Claim(w) PROVE AutomationInv'
  BY <1>4, ClaimStep
<1>5. ASSUME NEW w \in Executions, RecordRunSuccess(w) PROVE AutomationInv'
  BY <1>5, RecordStep DEF RecordRunSuccess
<1>6. ASSUME NEW w \in Executions, RecordRunFailure(w) PROVE AutomationInv'
  BY <1>6, RecordStep DEF RecordRunFailure
<1>7. ASSUME NEW w \in Executions, CountDue(w) PROVE AutomationInv'
  <2>1. exec[w] \in Execution /\ exec[w].manual \in BOOLEAN /\ exec[w].iteration + 1 \in Nat
    BY Parts, ExecutionFields
  <2> DEFINE e == IF \/ exec[w].processed = 0 \/ exec[w].iteration \in {0, MaxIterations}
                     \/ \A p \in Projects : ~Due(p)
                  THEN Idle ELSE Attempt(exec[w].manual, exec[w].iteration + 1, 1)
  <2>2. e \in Execution /\ Bare(e) /\ Control(e) BY <2>1, AttemptOK, IdleOK
  <2>3. Become(w, e) /\ UNCHANGED <<row, request, upsets>> BY <1>7 DEF CountDue
  <2> HIDE DEF e
  <2> QED BY <2>2, <2>3, LetsGo DEF AutomationInv, TypeOK
<1>8. ASSUME NEW w \in Executions, ActivityThrows(w) PROVE AutomationInv'
  <2>1. exec[w].manual \in BOOLEAN /\ exec[w].iteration \in Nat /\ exec[w].attempt + 1 \in Nat
    <3>1. exec[w] \in Execution BY Parts
    <3> QED BY <3>1, ExecutionFields
  <2> DEFINE e == IF exec[w].iteration = 0 \/ exec[w].attempt = MaxAttempts THEN Idle
                  ELSE Attempt(exec[w].manual, exec[w].iteration, exec[w].attempt + 1)
  <2>2. e \in Execution /\ Bare(e) /\ Control(e) BY <2>1, AttemptOK, IdleOK
  <2>3. Become(w, e) /\ UNCHANGED <<row, request>> /\ upsets' = upsets + 1
    BY <1>8 DEF ActivityThrows, Upset
  <2> HIDE DEF e
  <2> QED BY <2>2, <2>3, LetsGo DEF AutomationInv, TypeOK
<1>9. ASSUME NEW w \in Executions, ProcessDies(w) PROVE AutomationInv'
  <2>1. exec[w] \in Execution /\ exec[w].manual \in BOOLEAN /\ exec[w].iteration \in Nat
        /\ exec[w].attempt \in Nat /\ exec[w].age \in 0..MaxAge
    BY Parts, ExecutionFields
  <2> DEFINE d == Attempt(exec[w].manual, exec[w].iteration, exec[w].attempt)
             e == IF exec[w].iteration = 0 THEN Idle ELSE [d EXCEPT !.pc = "dead", !.age = exec[w].age]
  <2>2. d \in Execution /\ Bare(d) BY <2>1, AttemptOK
  <2> HIDE DEF d
  <2>3. e \in Execution /\ Bare(e) /\ Control(e)
    BY <2>1, <2>2, IdleOK DEF Execution, Bare, Control
  <2>4. Become(w, e) /\ UNCHANGED <<row, request>> /\ upsets' = upsets + 1
    BY <1>9 DEF ProcessDies, Upset, d
  <2> HIDE DEF e
  <2> QED BY <2>3, <2>4, LetsGo DEF AutomationInv, TypeOK
<1>10. ASSUME NEW w \in Executions, ActivityTimesOut(w) PROVE AutomationInv'
  <2> DEFINE left == IF exec[w].pc = "dead" THEN Idle ELSE [exec[w] EXCEPT !.iteration = 0]
             again == Attempt(exec[w].manual, exec[w].iteration, exec[w].attempt + 1)
  <2>1. exec[w] \in Execution /\ Sound(exec[w]) BY Parts
  <2>2. left \in Execution /\ Control(left) /\ (Bare(left) \/ SameHold(left, exec[w]))
    BY <2>1, IdleOK DEF Execution, Sound, Control, SameHold
  <2>3. again \in Execution /\ Control(again) /\ Bare(again)
    <3>1. exec[w].manual \in BOOLEAN /\ exec[w].iteration \in Nat /\ exec[w].attempt + 1 \in Nat
      BY <2>1, ExecutionFields
    <3> QED BY <3>1, AttemptOK
  <2>4. \/ exec' = [exec EXCEPT ![w] = left]
        \/ \E v \in Executions : exec' = [[exec EXCEPT ![w] = left] EXCEPT ![v] = again]
    BY <1>10 DEF ActivityTimesOut, Become
  <2>5. UNCHANGED <<row, request, upsets>> BY <1>10 DEF ActivityTimesOut
  <2> HIDE DEF left, again
  <2>6. exec' \in [Executions -> Execution]
        /\ \A u \in Executions : exec'[u] = again \/ (exec'[u] = left /\ u = w) \/ exec'[u] = exec[u]
    <3>1. exec \in [Executions -> Execution] BY DEF AutomationInv, TypeOK
    <3>2. CASE exec' = [exec EXCEPT ![w] = left] BY <3>1, <3>2, <2>2
    <3>3. ASSUME NEW v \in Executions, exec' = [[exec EXCEPT ![w] = left] EXCEPT ![v] = again]
          PROVE  /\ exec' \in [Executions -> Execution]
                 /\ \A u \in Executions : exec'[u] = again \/ (exec'[u] = left /\ u = w) \/ exec'[u] = exec[u]
      BY <3>1, <3>3, <2>2, <2>3
    <3> QED BY <3>2, <3>3, <2>4
  <2>7. \A u \in Executions : Control(exec'[u]) /\ (Bare(exec'[u]) \/ SameHold(exec'[u], exec[u]))
    BY <2>2, <2>3, <2>6, Parts DEF Sound, SameHold
  <2>8. RequestsOK' /\ upsets' \in Nat BY <2>5 DEF AutomationInv, TypeOK, RequestsOK
  <2> QED BY <2>5, <2>6, <2>7, <2>8, RowsStay
<1>11. ASSUME NEW a \in Admins, UpdateProjectSummarySchedule(a) PROVE AutomationInv'
  BY <1>11, UpdateStep
<1>12. ASSUME NEW a \in Admins, TriggerProjectSummaryAutomation(a) PROVE AutomationInv'
  BY <1>12, TriggerStep
<1>13. ASSUME NEW a \in Admins, RequestFails(a) PROVE AutomationInv'
  <2>1. UNCHANGED <<row, exec, upsets>> /\ RequestsOK' BY <1>13, Finished DEF RequestFails
  <2>2. exec' \in [Executions -> Execution] /\ upsets' \in Nat BY <2>1 DEF AutomationInv, TypeOK
  <2>3. \A v \in Executions : Control(exec'[v]) /\ SameHold(exec'[v], exec[v])
    BY <2>1, Parts DEF SameHold, Sound
  <2> QED BY <2>1, <2>2, <2>3, RowsStay
<1>14. ASSUME NEW a \in Admins, NEW p \in Projects, RunRequest(a, p) PROVE AutomationInv'
  BY <1>14, RunRequestStep
<1>15. ASSUME NEW a \in Admins, NEW p \in Projects, NEW enabled \in BOOLEAN \cup {NotAsked},
              NEW frequency \in Asked \cup {NotAsked}, UpdateRequest(a, p, enabled, frequency)
       PROVE  AutomationInv'
  BY <1>15, UpdateRequestStep
<1>16. CASE Tick BY <1>16, TickStep
<1>17. CASE UNCHANGED vars
  <2>1. RequestsOK' /\ exec' \in [Executions -> Execution] /\ upsets' \in Nat
    BY <1>17 DEF vars, AutomationInv, TypeOK, RequestsOK
  <2>2. \A v \in Executions : Control(exec'[v]) /\ SameHold(exec'[v], exec[v])
    BY <1>17, Parts DEF vars, SameHold, Sound
  <2> QED BY <1>17, <2>1, <2>2, RowsStay DEF vars
<1> QED
  BY <1>1, <1>2, <1>3, <1>4, <1>5, <1>6, <1>7, <1>8, <1>9, <1>10, <1>11, <1>12, <1>13, <1>14, <1>15,
     <1>16, <1>17 DEF Next, ActivityStep, AdminStep

THEOREM AutomationInvariant == Spec => []AutomationInv
BY InitAutomation, AutomationStep, AutomationAssumption, PTL DEF Spec

(* The rows of ProjectSummarySchedule, the executions of the workflow and  *)
(* the requests of administrators keep their types, the bounds of the      *)
(* distances included (projectSummaryAutomationService.ts).                *)
THEOREM AutomationTypeCorrect == Spec => []TypeOK
BY AutomationInvariant, PTL DEF AutomationInv

(* Two executions that generate a project's summaries at once are one too  *)
(* many only when a lock was outlived or taken away: the conditional claim *)
(* of runProjectSummaryAutomation excludes every other case.               *)
THEOREM LocksProtect == Spec => []LockProtects
<1>1. AutomationInv => LockProtects
  <2> SUFFICES ASSUME AutomationInv, NEW w \in Executions, NEW v \in Executions, NEW p \in Projects,
                      w # v, Generating(w, p), Generating(v, p), Standing(w), Standing(v)
               PROVE  FALSE
    BY DEF LockProtects
  <2>1. ASSUME NEW u \in Executions, Generating(u, p), Standing(u)
        PROVE  /\ 1 \in DOMAIN exec[u].claimed /\ Stands(exec[u], 1)
               /\ exec[u].claimed[1].project = p
    <3>1. exec[u].claimed \in Seq(Candidate) /\ exec[u].claimed # <<>>
      BY <2>1, Parts DEF Generating, Sound, Control, Execution
    <3>2. 1 \in DOMAIN exec[u].claimed /\ Head(exec[u].claimed) = exec[u].claimed[1]
      BY <3>1, HeadIsGone
    <3> QED BY <2>1, <3>2 DEF Generating, Standing, Stands
  <2>2. Apart(exec[w], exec[v]) BY DEF AutomationInv
  <2> QED BY <2>1, <2>2 DEF Apart
<1> QED BY <1>1, AutomationInvariant, PTL

(* A run that the automation records is MIN_SUMMARY_FREQUENCY_MINUTES away *)
(* from the one before it, whatever failed, died or was asked for between  *)
(* (recordProjectSummaryRunSuccess, recordProjectSummaryRunFailure).       *)
THEOREM RunsKeepTheirDistance == Spec => RunsAreSpaced
<1> DEFINE A == \A w \in Executions :
       exec[w].pc = "work" /\ exec'[w].claimed # exec[w].claimed /\ upsets' = upsets
         /\ Head(exec[w].claimed).intact
       => row[Head(exec[w].claimed).project].since - exec[w].age >= MinFrequency
<1>1. AutomationInv /\ [Next]_vars => [A]_vars
  <2> SUFFICES ASSUME AutomationInv, NEW w \in Executions, exec[w].pc = "work",
                      Head(exec[w].claimed).intact
               PROVE  row[Head(exec[w].claimed).project].since - exec[w].age >= MinFrequency
    OBVIOUS
  <2>1. exec[w].claimed \in Seq(Candidate) /\ exec[w].claimed # <<>> /\ Spaced(row, exec[w])
    BY Parts DEF Sound, Control, Execution
  <2>2. 1 \in DOMAIN exec[w].claimed /\ Head(exec[w].claimed) = exec[w].claimed[1]
    BY <2>1, HeadIsGone
  <2> QED BY <2>1, <2>2 DEF Spaced, Far
<1> QED BY <1>1, AutomationInvariant, PTL DEF Spec, RunsAreSpaced
=============================================================================
