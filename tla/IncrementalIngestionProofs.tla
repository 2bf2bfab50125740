---------------------- MODULE IncrementalIngestionProofs ----------------------
(***************************************************************************)
(* What the watermark has passed is in the tables: for every number of     *)
(* keys, every lag, slicing, number of faults and order of runs, crashes   *)
(* and maintenance commands.                                               *)
(*                                                                         *)
(* NothingSkipped and HistoryIsKept speak of the watermark table only; a   *)
(* restart may bring back what lies in the outbox, and a run goes on from  *)
(* slices that others have staged or landed.  The invariant therefore says *)
(* of every row of progress wherever it lies (Reached), of every staged    *)
(* and every landed slice, and of the run at each of its steps, which rows *)
(* of the source have arrived or are still to be brought.                  *)
(***************************************************************************)
EXTENDS IncrementalIngestion, FiniteSetTheorems, WellFoundedInduction, TLAPS

(* Changed since the increment was planned: nobody has to have it.         *)
Changed(k) == source[k] > planned \/ (table.late /\ source[k] = planned)

(* In the raw history, and in the table or in the backup it will be        *)
(* rebuilt beside.                                                         *)
Held(k) == IF At("rebuild") THEN run.backup[k] ELSE merged[k]
InHistory(k) == \E r \in raw : r.key = k /\ r.at = source[k]
Arrived(k) == k \in patched \/ (InHistory(k) /\ (whole => Held(k) = source[k]))

Reached(p) ==
  p.wm # Unread =>
    /\ p.wm <= planned
    /\ \A k \in Keys : source[k] # Absent /\ source[k] <= EffectiveWatermark(p.wm) => Arrived(k)

(* The rows that were in a slice when it was read and still are.           *)
Fixed(s, k) ==
  /\ s.lo < source[k] /\ source[k] <= s.hi
  /\ table.late => s.hi = planned /\ source[k] < planned
RowOf(k) == [key |-> k, at |-> source[k]]

Wm == Nat \cup {Unread}
Row == [key : Keys, at : Nat]
Slice == [lo : Nat, hi : Nat]
Staged == [lo : Nat, hi : Nat, rows : SUBSET Row]
Prog == [wm : Wm, day : Int]
Steps == {"idle", "plan", "stage", "append", "land", "finish", "rebuild"}
RunState == [pc : Steps, day : Int, last : Prog, eff : Nat, todo : Seq(Slice), active : SUBSET Staged,
             backup : [Keys -> Nat]]

Shape ==
  /\ table \in Tables /\ now \in Nat \ {0} /\ planned \in Nat /\ planned <= now
  /\ source \in [Keys -> Nat] /\ \A k \in Keys : source[k] <= now
  /\ merged \in [Keys -> Nat] /\ whole \in BOOLEAN
  /\ pending \subseteq Staged /\ landed \subseteq Slice
  /\ stored \in Prog /\ outbox \in Seq(Prog) /\ buffer \in Seq(Prog)
  /\ run \in RunState

Rows == {stored, run.last} \cup {outbox[n] : n \in DOMAIN outbox} \cup {buffer[n] : n \in DOMAIN buffer}
ProgressHolds == \A p \in Rows : Reached(p)

StagedHolds ==
  \A p \in pending \cup run.active :
    /\ p.hi <= planned
    /\ \A r \in p.rows : r.at <= p.hi /\ r.at <= source[r.key]
    /\ \A k \in Keys : Fixed(p, k) => RowOf(k) \in p.rows

LandedHolds == \A s \in landed : s.hi <= planned /\ \A k \in Keys : Fixed(s, k) => Arrived(k)

HistoryHolds == \A r \in raw : r.key \in Keys /\ r.at \in Nat /\ r.at <= planned /\ r.at <= source[r.key]

(* What the run reads is current unless it changed since.                  *)
ActiveHolds == \A p \in run.active : \A r \in p.rows : r.at = source[r.key] \/ Changed(r.key)

(* A row of the increment is in a slice to come, in one that was read, or  *)
(* has arrived.                                                            *)
ToCome(k) == \E n \in DOMAIN run.todo : run.todo[n].lo < source[k] /\ source[k] <= run.todo[n].hi
WasRead(k) == \E p \in run.active : RowOf(k) \in p.rows
RunHolds ==
  /\ run.pc \in {"idle", "plan", "rebuild"} => run.active = {}
  /\ run.pc \in {"stage", "append", "land"} =>
       /\ run.last.wm # Unread /\ run.eff = EffectiveWatermark(run.last.wm)
       /\ \A n \in DOMAIN run.todo : /\ run.todo[n].hi <= planned
                                     /\ table.late => run.todo[n].hi = planned
       /\ \A k \in Keys : run.eff < source[k] /\ source[k] <= planned /\ ~Changed(k)
                            => ToCome(k) \/ WasRead(k) \/ Arrived(k)
  /\ run.pc \in {"append", "land"} =>
       /\ run.todo = <<>>
       /\ \A p \in run.active : \A r \in p.rows : Changed(r.key) \/ merged[r.key] = source[r.key]
  /\ run.pc = "land" =>
       \A p \in run.active : \A r \in p.rows : \E q \in raw : q.key = r.key /\ q.at = r.at

Holds == Shape /\ ProgressHolds /\ StagedHolds /\ LandedHolds /\ HistoryHolds /\ ActiveHolds /\ RunHolds
IngestionInv == ~overran => Holds

-----------------------------------------------------------------------------
(* The operators.                                                          *)
LEMMA EffectiveIs ==
  ASSUME IngestionAssumption, LateAssumption, table \in Tables, NEW wm \in Nat
  PROVE  /\ EffectiveWatermark(wm) \in Nat /\ EffectiveWatermark(wm) <= wm
         /\ table.late => EffectiveWatermark(wm) = 0 \/ EffectiveWatermark(wm) < wm
<1>1. table.lag \in Nat /\ (table.late => table.lag > 0)
  BY DEF IngestionAssumption, LateAssumption
<1> QED BY <1>1 DEF EffectiveWatermark, Larger

(* A row that the watermark has passed is not one that has changed since.  *)
LEMMA PassedIsOld ==
  ASSUME IngestionAssumption, LateAssumption, Shape, NEW p, p.wm \in Nat, p.wm <= planned,
         NEW k \in Keys, source[k] # Absent, source[k] <= EffectiveWatermark(p.wm)
  PROVE  source[k] <= planned /\ ~Changed(k)
<1>1. source[k] \in Nat /\ planned \in Nat /\ source[k] # 0 BY DEF Shape, Absent
<1>2. /\ EffectiveWatermark(p.wm) \in Nat /\ EffectiveWatermark(p.wm) <= p.wm
      /\ table.late => EffectiveWatermark(p.wm) = 0 \/ EffectiveWatermark(p.wm) < p.wm
  BY EffectiveIs DEF Shape
<1> QED BY <1>1, <1>2 DEF Changed

LEMMA UpsertNew ==
  ASSUME NEW old, NEW rows, NEW k \in Keys, NEW t \in Nat,
         \E r \in rows : r.key = k /\ r.at = t,
         \A r \in rows : r.key = k => r.at \in Nat /\ r.at <= t
  PROVE  Upsert(old, rows)[k] = t
<1> DEFINE found == {r.at : r \in {q \in rows : q.key = k}}
<1>1. t \in found /\ \A u \in found : u \in Nat /\ u <= t OBVIOUS
<1>2. Upsert(old, rows)[k] = IF found = {} THEN old[k] ELSE CHOOSE v \in found : \A u \in found : u <= v
  BY DEF Upsert
<1> HIDE DEF found
<1>3. \A v \in found : (\A u \in found : u <= v) => v = t BY <1>1
<1>4. (CHOOSE v \in found : \A u \in found : u <= v) = t BY <1>1, <1>3
<1> QED BY <1>1, <1>2, <1>4

LEMMA UpsertOld ==
  ASSUME NEW old, NEW rows, NEW k \in Keys, \A r \in rows : r.key # k
  PROVE  Upsert(old, rows)[k] = old[k]
<1>1. {r.at : r \in {q \in rows : q.key = k}} = {} OBVIOUS
<1> QED BY <1>1 DEF Upsert

LEMMA LatestExists ==
  ASSUME NEW S \in SUBSET Nat, S # {}, NEW n \in Nat, \A s \in S : s <= n
  PROVE  \E t \in S : \A u \in S : u <= t
<1> DEFINE bounds == {b \in Nat : \A s \in S : s <= b}
<1>1. bounds # {} /\ bounds \subseteq Nat OBVIOUS
<1> HIDE DEF bounds
<1>2. \E x \in bounds : \A y \in bounds : ~ (<<y, x>> \in OpToRel(<, Nat))
  BY <1>1, NatLessThanWellFounded, WFMin
<1>3. PICK x \in bounds : \A y \in bounds : ~(y < x)
  BY <1>1, <1>2 DEF OpToRel
<1>4. CASE x \in S BY <1>4, <1>3 DEF bounds
<1>5. CASE x \notin S
  <2>1. x \in Nat /\ \A s \in S : s \in Nat /\ s <= x BY DEF bounds
  <2>2. \A s \in S : s # x BY <1>5
  <2>3. \A s \in S : s <= x - 1 /\ x - 1 \in Nat BY <2>1, <2>2
  <2>4. x - 1 \in Nat BY <2>3
  <2>5. x - 1 \in bounds BY <2>3, <2>4 DEF bounds
  <2> QED BY <2>1, <2>5, <1>3
<1> QED BY <1>4, <1>5

LEMMA UpsertTyped ==
  ASSUME NEW old \in [Keys -> Nat], NEW rows, NEW n \in Nat, \A r \in rows : r.at \in Nat /\ r.at <= n
  PROVE  Upsert(old, rows) \in [Keys -> Nat]
<1>1. ASSUME NEW k \in Keys PROVE Upsert(old, rows)[k] \in Nat
  <2> DEFINE found == {r.at : r \in {q \in rows : q.key = k}}
  <2>1. found \in SUBSET Nat /\ \A t \in found : t <= n OBVIOUS
  <2>2. Upsert(old, rows)[k] = IF found = {} THEN old[k] ELSE CHOOSE t \in found : \A u \in found : u <= t
    BY DEF Upsert
  <2> HIDE DEF found
  <2>3. CASE found = {} BY <2>2, <2>3
  <2>4. CASE found # {}
    <3>1. \E t \in found : \A u \in found : u <= t BY <2>1, <2>4, LatestExists
    <3>2. (CHOOSE t \in found : \A u \in found : u <= t) \in found BY <3>1
    <3> QED BY <2>1, <2>2, <2>4, <3>2
  <2> QED BY <2>3, <2>4
<1> QED BY <1>1 DEF Upsert

LEMMA PartsIs ==
  ASSUME IngestionAssumption, NEW rows \in Nat
  PROVE  Parts(rows) \in Nat \ {0}
<1>1. (rows + Target - 1) \div Target \in Int BY DEF IngestionAssumption
<1> DEFINE wanted == (rows + Target - 1) \div Target
<1> HIDE DEF wanted
<1>2. MaxParts \in Nat \ {0} /\ wanted \in Int BY <1>1 DEF IngestionAssumption, wanted
<1>3. Smaller(MaxParts, Larger(2, wanted)) \in Nat \ {0} BY <1>2 DEF Smaller, Larger
<1> QED BY <1>3 DEF Parts, wanted

(* The slices cover the increment.                                         *)
LEMMA SlicesCover ==
  ASSUME NEW lo \in Nat, NEW hi \in Nat, NEW parts \in Nat \ {0}, NEW t \in Nat, lo < t, t <= hi
  PROVE  \E i \in DOMAIN Slices(lo, hi, parts) :
           Slices(lo, hi, parts)[i].lo < t /\ t <= Slices(lo, hi, parts)[i].hi
<1> DEFINE step == Larger(1, (hi - lo) \div parts)
           Bound(i) == IF i = parts THEN hi ELSE lo + i * step
           m == (t - lo - 1) \div step
<1>1. step \in Nat \ {0}
  <2>1. (hi - lo) \div parts \in Int OBVIOUS
  <2> QED BY <2>1 DEF Larger
<1>2. Slices(lo, hi, parts) = [i \in 1..parts |-> [lo |-> Bound(i - 1), hi |-> Bound(i)]]
  BY DEF Slices
<1> HIDE DEF step
<1>3. m \in Nat /\ m * step <= t - lo - 1 /\ t - lo - 1 < m * step + step
  BY <1>1
<1> HIDE DEF m
<1>4. CASE m + 1 < parts
  <2>1. Bound(m) = lo + m * step /\ Bound(m + 1) = lo + (m + 1) * step BY <1>3, <1>4
  <2>2. (m + 1) * step = m * step + step BY <1>1, <1>3
  <2>3. m * step \in Int /\ step \in Int BY <1>1, <1>3
  <2>4. Bound(m) < t /\ t <= Bound(m + 1) BY <1>3, <2>1, <2>2, <2>3
  <2>5. m + 1 \in 1..parts /\ (m + 1) - 1 = m BY <1>3, <1>4
  <2>6. DOMAIN Slices(lo, hi, parts) = 1..parts
        /\ Slices(lo, hi, parts)[m + 1] = [lo |-> Bound((m + 1) - 1), hi |-> Bound(m + 1)]
    BY <1>2, <2>5
  <2> HIDE DEF Bound
  <2>7. Slices(lo, hi, parts)[m + 1] = [lo |-> Bound(m), hi |-> Bound(m + 1)] BY <2>5, <2>6
  <2>8. Slices(lo, hi, parts)[m + 1].lo = Bound(m) /\ Slices(lo, hi, parts)[m + 1].hi = Bound(m + 1)
    BY <2>7
  <2>9. m + 1 \in DOMAIN Slices(lo, hi, parts) BY <2>5, <2>6
  <2> QED BY <2>4, <2>8, <2>9
<1>5. CASE m + 1 >= parts
  <2>1. Bound(parts) = hi /\ Bound(parts - 1) = lo + (parts - 1) * step OBVIOUS
  <2>2. (parts - 1) * step <= m * step BY <1>1, <1>3, <1>5
  <2>3. m * step \in Int /\ (parts - 1) * step \in Int BY <1>1, <1>3
  <2>4. Bound(parts - 1) < t /\ t <= Bound(parts) BY <1>3, <2>1, <2>2, <2>3
  <2>5. parts \in DOMAIN Slices(lo, hi, parts)
        /\ Slices(lo, hi, parts)[parts] = [lo |-> Bound(parts - 1), hi |-> Bound(parts)]
    BY <1>2
  <2> HIDE DEF Bound
  <2>6. Slices(lo, hi, parts)[parts].lo = Bound(parts - 1) /\ Slices(lo, hi, parts)[parts].hi = Bound(parts)
    BY <2>5
  <2> QED BY <2>4, <2>5, <2>6
<1> QED BY <1>3, <1>4, <1>5

LEMMA SlicesAre ==
  ASSUME NEW lo \in Nat, NEW hi \in Nat, NEW parts \in Nat \ {0}
  PROVE  /\ Slices(lo, hi, parts) \in Seq(Slice)
         /\ parts = 1 => \A i \in DOMAIN Slices(lo, hi, parts) : Slices(lo, hi, parts)[i].hi = hi
<1> DEFINE step == Larger(1, (hi - lo) \div parts)
           Bound(i) == IF i = parts THEN hi ELSE lo + i * step
<1>1. step \in Nat
  <2>1. (hi - lo) \div parts \in Int OBVIOUS
  <2> QED BY <2>1 DEF Larger
<1>2. Slices(lo, hi, parts) = [i \in 1..parts |-> [lo |-> Bound(i - 1), hi |-> Bound(i)]]
  BY DEF Slices
<1> HIDE DEF step
<1>3. \A i \in Nat : i * step \in Nat BY <1>1
<1>4. \A i \in Nat : Bound(i) \in Nat BY <1>3
<1>5. \A i \in 1..parts : [lo |-> Bound(i - 1), hi |-> Bound(i)] \in Slice
  BY <1>4 DEF Slice
<1>6. Bound(parts) = hi OBVIOUS
<1> HIDE DEF Bound
<1>7. Slices(lo, hi, parts) \in [1..parts -> Slice] BY <1>2, <1>5
<1>8. Slices(lo, hi, parts) \in Seq(Slice) BY <1>7
<1> QED BY <1>2, <1>6, <1>8

-----------------------------------------------------------------------------
(* What has arrived stays where it is: a step of the progress, of the      *)
(* process or of the staging directory.                                    *)
LEMMA ArrivedStays ==
  ASSUME UNCHANGED <<table, source, planned, merged, raw, whole, patched>>,
         ~At("rebuild"), ~At("rebuild")'
  PROVE  /\ \A k : Arrived(k)' <=> Arrived(k)
         /\ \A p : Reached(p)' <=> Reached(p)
         /\ \A k : Changed(k)' <=> Changed(k)
         /\ \A s, k : Fixed(s, k)' <=> Fixed(s, k)
<1>1. \A k : (Arrived(k)' <=> Arrived(k)) /\ (Changed(k)' <=> Changed(k))
  BY DEF Arrived, InHistory, Held, Changed
<1>2. \A s, k : Fixed(s, k)' <=> Fixed(s, k) BY DEF Fixed
<1>3. \A wm : EffectiveWatermark(wm)' = EffectiveWatermark(wm) BY DEF EffectiveWatermark
<1>4. \A p : Reached(p)' <=> Reached(p) BY <1>1, <1>3 DEF Reached
<1> QED BY <1>1, <1>2, <1>4

LEMMA OnlyProgress ==
  ASSUME Holds, UNCHANGED <<source_vars, merged, raw, whole, patched, pending>>,
         landed' \subseteq landed, ~At("rebuild"), ~At("rebuild")',
         Shape', RunHolds', run'.active \subseteq run.active,
         \A p \in Rows' : p \in Rows \/ Reached(p)
  PROVE  Holds'
<1>1. /\ \A k : Arrived(k)' <=> Arrived(k)
      /\ \A p : Reached(p)' <=> Reached(p)
      /\ \A k : Changed(k)' <=> Changed(k)
      /\ \A s, k : Fixed(s, k)' <=> Fixed(s, k)
  BY ArrivedStays DEF source_vars
<1>2. ProgressHolds' BY <1>1 DEF Holds, ProgressHolds
<1>3. StagedHolds' BY <1>1 DEF Holds, StagedHolds, RowOf, source_vars
<1>4. LandedHolds' BY <1>1 DEF Holds, LandedHolds, source_vars
<1>5. HistoryHolds' BY DEF Holds, HistoryHolds, source_vars
<1>6. ActiveHolds' BY <1>1 DEF Holds, ActiveHolds, source_vars
<1> QED BY <1>2, <1>3, <1>4, <1>5, <1>6 DEF Holds

(* The process goes on to a step at which nothing is owed.                 *)
LEMMA RunEnds ==
  ASSUME Holds, UNCHANGED <<source_vars, merged, raw, whole, patched, pending>>,
         landed' \subseteq landed, ~At("rebuild"),
         stored' \in Prog, outbox' \in Seq(Prog), buffer' \in Seq(Prog),
         run' = Idle \/ run' = [run EXCEPT !.pc = "finish"],
         \A p \in Rows' : p \in Rows \/ Reached(p)
  PROVE  Holds'
<1>1. Idle \in RunState /\ Idle.pc = "idle" /\ Idle.active = {}
  <2>1. [k \in Keys |-> Absent] \in [Keys -> Nat] /\ Initially \in Prog /\ <<>> \in Seq(Slice)
    BY DEF Absent, Initially, Prog, Wm
  <2> QED BY <2>1 DEF Idle, RunState, Steps
<1>2. /\ run' \in RunState /\ run'.pc \in {"idle", "finish"} /\ run'.active \subseteq run.active
      /\ run'.pc = "idle" => run'.active = {}
  <2>1. run \in RunState BY DEF Holds, Shape
  <2>2. CASE run' = Idle BY <1>1, <2>2
  <2>3. CASE run' = [run EXCEPT !.pc = "finish"] BY <2>1, <2>3 DEF RunState, Steps
  <2> QED BY <2>2, <2>3
<1>3. Shape' BY <1>2 DEF Holds, Shape, source_vars
<1>4. RunHolds' BY <1>2 DEF RunHolds
<1> QED BY <1>2, <1>3, <1>4, OnlyProgress DEF At

(* The rows of progress that a write can leave.                            *)
LEMMA LastIs ==
  ASSUME NEW s \in Seq(Prog), s # <<>>
  PROVE  Last(s) \in Prog /\ \E n \in DOMAIN s : Last(s) = s[n]
<1>1. Len(s) \in DOMAIN s /\ Last(s) = s[Len(s)] BY DEF Last
<1>2. s[Len(s)] \in Prog BY <1>1
<1> QED BY <1>1, <1>2

LEMMA JoinIs ==
  ASSUME NEW s \in Seq(Prog), NEW t \in Seq(Prog)
  PROVE  /\ s \o t \in Seq(Prog)
         /\ \A n \in DOMAIN (s \o t) : (\E m \in DOMAIN s : (s \o t)[n] = s[m])
                                       \/ (\E m \in DOMAIN t : (s \o t)[n] = t[m])
<1>1. /\ s \o t \in Seq(Prog) /\ Len(s \o t) = Len(s) + Len(t) /\ Len(s) \in Nat /\ Len(t) \in Nat
      /\ DOMAIN (s \o t) = 1..(Len(s) + Len(t)) /\ DOMAIN s = 1..Len(s) /\ DOMAIN t = 1..Len(t)
  OBVIOUS
<1>2. \A n \in 1..(Len(s) + Len(t)) : (s \o t)[n] = IF n <= Len(s) THEN s[n] ELSE t[n - Len(s)]
  OBVIOUS
<1>3. \A n \in 1..(Len(s) + Len(t)) : n \in 1..Len(s) \/ (~(n <= Len(s)) /\ n - Len(s) \in 1..Len(t))
  BY <1>1
<1> QED BY <1>1, <1>2, <1>3

LEMMA AppendIs ==
  ASSUME NEW s \in Seq(Prog), NEW p \in Prog
  PROVE  /\ Append(s, p) \in Seq(Prog)
         /\ \A n \in DOMAIN Append(s, p) : Append(s, p)[n] = p \/ \E m \in DOMAIN s : Append(s, p)[n] = s[m]
<1>1. /\ Append(s, p) \in Seq(Prog) /\ DOMAIN Append(s, p) = 1..(Len(s) + 1) /\ Len(s) \in Nat
      /\ DOMAIN s = 1..Len(s)
      /\ \A n \in 1..(Len(s) + 1) : Append(s, p)[n] = IF n <= Len(s) THEN s[n] ELSE p
  OBVIOUS
<1>2. \A n \in 1..(Len(s) + 1) : n <= Len(s) => n \in 1..Len(s) BY <1>1
<1> QED BY <1>1, <1>2

LEMMA InitiallyReached == ASSUME IngestionAssumption, LateAssumption, Shape PROVE Reached(Initially)
<1>1. Initially.wm = 0 /\ planned \in Nat /\ \A k \in Keys : source[k] \in Nat
  BY DEF Initially, Shape
<1>2. EffectiveWatermark(0) = 0
  <2>1. EffectiveWatermark(0) \in Nat /\ EffectiveWatermark(0) <= 0 BY EffectiveIs DEF Shape
  <2> QED BY <2>1
<1> QED BY <1>1, <1>2 DEF Reached, Absent

(* Writing the buffer leaves rows of progress that were there before.      *)
LEMMA Written ==
  ASSUME Holds,
         stored' = stored \/ (buffer # <<>> /\ stored' = Last(buffer)),
         outbox' = outbox \/ outbox' = outbox \o buffer,
         buffer' = buffer \/ buffer' = <<>>
  PROVE  /\ stored' \in Prog /\ outbox' \in Seq(Prog) /\ buffer' \in Seq(Prog)
         /\ \A p \in Rows' : p \in Rows \/ p = run'.last
<1>1. outbox \in Seq(Prog) /\ buffer \in Seq(Prog) /\ stored \in Prog BY DEF Holds, Shape
<1>2. buffer # <<>> => Last(buffer) \in Prog /\ \E n \in DOMAIN buffer : Last(buffer) = buffer[n]
  BY <1>1, LastIs
<1>3. outbox \o buffer \in Seq(Prog) BY <1>1, JoinIs
<1>4. <<>> \in Seq(Prog) OBVIOUS
<1>5. stored' \in Prog /\ outbox' \in Seq(Prog) /\ buffer' \in Seq(Prog)
  BY <1>1, <1>2, <1>3, <1>4
<1>6. \A n \in DOMAIN outbox' : (\E m \in DOMAIN outbox : outbox'[n] = outbox[m])
                                \/ (\E m \in DOMAIN buffer : outbox'[n] = buffer[m])
  <2>1. CASE outbox' = outbox BY <2>1
  <2>2. CASE outbox' = outbox \o buffer BY <2>2, <1>1, JoinIs
  <2> QED BY <2>1, <2>2
<1>7. \A n \in DOMAIN buffer' : \E m \in DOMAIN buffer : buffer'[n] = buffer[m]
  <2>1. CASE buffer' = <<>>
    <3>1. DOMAIN buffer' = {} BY <2>1
    <3> QED BY <3>1
  <2> QED BY <2>1
<1>8. stored' = stored \/ \E n \in DOMAIN buffer : stored' = buffer[n] BY <1>2
<1>9. ASSUME NEW p \in Rows' PROVE p \in Rows \/ p = run'.last
  <2>1. \/ p = stored' \/ p = run'.last
        \/ (\E n \in DOMAIN outbox' : p = outbox'[n]) \/ (\E n \in DOMAIN buffer' : p = buffer'[n])
    BY <1>9 DEF Rows
  <2> QED BY <2>1, <1>6, <1>7, <1>8 DEF Rows
<1> QED BY <1>5, <1>9

LEMMA FlushStep ==
  ASSUME Holds, Flush
  PROVE  Holds'
<1>1. buffer # <<>> /\ ~At("rebuild") /\ UNCHANGED <<source_vars, table_vars, stage_vars, run>>
  BY DEF Flush
<1>2. /\ stored' = stored \/ (buffer # <<>> /\ stored' = Last(buffer))
      /\ outbox' = outbox \/ outbox' = outbox \o buffer
      /\ buffer' = buffer \/ buffer' = <<>>
  BY DEF Flush, WriteBuffer
<1>3. /\ stored' \in Prog /\ outbox' \in Seq(Prog) /\ buffer' \in Seq(Prog)
      /\ \A p \in Rows' : p \in Rows \/ p = run'.last
  BY <1>2, Written
<1>4. \A p \in Rows' : p \in Rows BY <1>1, <1>3 DEF Rows
<1>5. Shape' BY <1>1, <1>3 DEF Holds, Shape, source_vars, table_vars, stage_vars
<1>6. RunHolds'
  BY <1>1, ArrivedStays
  DEF Holds, RunHolds, At, source_vars, table_vars, stage_vars, ToCome, WasRead, RowOf, EffectiveWatermark
<1> QED BY <1>1, <1>4, <1>5, <1>6, OnlyProgress DEF At, source_vars, table_vars, stage_vars

LEMMA FinishStep ==
  ASSUME IngestionAssumption, LateAssumption, Holds, Finish
  PROVE  Holds'
<1>1. /\ UNCHANGED <<source_vars, table_vars, pending>> /\ run' = Idle /\ ~At("rebuild")
      /\ landed' \subseteq landed /\ buffer' = <<>>
  BY DEF Finish, At
<1>2. /\ stored' = stored \/ (buffer # <<>> /\ stored' = Last(buffer))
      /\ outbox' = outbox \/ outbox' = outbox \o buffer
  BY DEF Finish
<1>3. /\ stored' \in Prog /\ outbox' \in Seq(Prog) /\ buffer' \in Seq(Prog)
      /\ \A p \in Rows' : p \in Rows \/ p = run'.last
  BY <1>1, <1>2, Written
<1>4. Reached(Initially) /\ run'.last = Initially
  BY <1>1, InitiallyReached DEF Holds, Idle
<1>5. \A p \in Rows' : p \in Rows \/ Reached(p) BY <1>3, <1>4
<1> QED BY <1>1, <1>3, <1>5, RunEnds DEF table_vars

LEMMA CrashStep ==
  ASSUME IngestionAssumption, LateAssumption, Holds, Crash, ~At("rebuild")
  PROVE  Holds'
<1>1. /\ UNCHANGED <<source_vars, table_vars, stage_vars, stored, outbox>> /\ run' = Idle /\ buffer' = <<>>
  <2>1. whole' = whole
    <3>1. whole' = (whole /\ ~At("rebuild")) /\ whole \in BOOLEAN BY DEF Crash, Holds, Shape
    <3> QED BY <3>1
  <2> QED BY <2>1 DEF Crash, table_vars, stage_vars
<1>3. /\ stored' \in Prog /\ outbox' \in Seq(Prog) /\ buffer' \in Seq(Prog)
      /\ \A p \in Rows' : p \in Rows \/ p = run'.last
  BY <1>1, Written
<1>4. Reached(Initially) /\ run'.last = Initially
  BY <1>1, InitiallyReached DEF Holds, Idle
<1>5. \A p \in Rows' : p \in Rows \/ Reached(p) BY <1>3, <1>4
<1> QED BY <1>1, <1>3, <1>5, RunEnds DEF table_vars, stage_vars

LEMMA FailStep ==
  ASSUME Holds, Fail \/ PlanFails
  PROVE  Holds'
<1>1. /\ UNCHANGED <<source_vars, table_vars, stage_vars, state_vars>> /\ run' = [run EXCEPT !.pc = "finish"]
      /\ ~At("rebuild")
  BY DEF Fail, PlanFails, At
<1>2. /\ stored' \in Prog /\ outbox' \in Seq(Prog) /\ buffer' \in Seq(Prog)
      /\ \A p \in Rows' : p \in Rows \/ p = run'.last
  BY <1>1, Written DEF state_vars
<1>3. run'.last = run.last BY <1>1 DEF Holds, Shape, RunState
<1>4. \A p \in Rows' : p \in Rows BY <1>2, <1>3 DEF Rows
<1> QED BY <1>1, <1>2, <1>4, RunEnds DEF table_vars, stage_vars

(* A row of progress that the run sets.                                    *)
LEMMA SetStep ==
  ASSUME Holds, NEW p \in Prog, Reached(p), SetProgress(p), ~At("rebuild"),
         run' = [run EXCEPT !.pc = "finish"], UNCHANGED <<source_vars, table_vars, stage_vars>>
  PROVE  Holds'
<1>1. outbox \in Seq(Prog) /\ buffer \in Seq(Prog) /\ stored' = stored /\ stored \in Prog
      /\ run'.last = run.last
  BY DEF Holds, Shape, SetProgress, RunState
<1>2. buffer' = Append(buffer, p) /\ (outbox' = outbox \/ outbox' = Append(outbox, p))
  BY DEF SetProgress
<1>3. buffer' \in Seq(Prog) /\ outbox' \in Seq(Prog) BY <1>1, <1>2, AppendIs
<1>4. \A n \in DOMAIN outbox' : outbox'[n] = p \/ \E m \in DOMAIN outbox : outbox'[n] = outbox[m]
  <2>1. CASE outbox' = outbox BY <2>1
  <2>2. CASE outbox' = Append(outbox, p) BY <2>2, <1>1, AppendIs
  <2> QED BY <1>2, <2>1, <2>2
<1>5. \A n \in DOMAIN buffer' : buffer'[n] = p \/ \E m \in DOMAIN buffer : buffer'[n] = buffer[m]
  BY <1>1, <1>2, AppendIs
<1>6. ASSUME NEW q \in Rows' PROVE q \in Rows \/ Reached(q)
  <2>1. \/ q = stored' \/ q = run'.last
        \/ (\E n \in DOMAIN outbox' : q = outbox'[n]) \/ (\E n \in DOMAIN buffer' : q = buffer'[n])
    BY <1>6 DEF Rows
  <2>2. q \in Rows \/ q = p BY <2>1, <1>1, <1>4, <1>5 DEF Rows
  <2> QED BY <2>2
<1> QED BY <1>1, <1>3, <1>6, RunEnds DEF table_vars, stage_vars

-----------------------------------------------------------------------------
(* The clock and the source.                                               *)
LEMMA TickStep == ASSUME Holds, Tick PROVE Holds'
<1>1. /\ now' = now + 1 /\ UNCHANGED <<table, source, planned, table_vars, stage_vars, state_vars, run>>
  BY DEF Tick
<1>2. Shape'
  <2>1. now' \in Nat \ {0} /\ planned' <= now' /\ \A k \in Keys : source'[k] <= now'
    BY <1>1 DEF Holds, Shape
  <2> QED BY <1>1, <2>1 DEF Holds, Shape, table_vars, stage_vars, state_vars
<1> USE DEF table_vars, stage_vars, state_vars
<1>3. /\ \A k : Arrived(k)' <=> Arrived(k)
      /\ \A k : Changed(k)' <=> Changed(k)
      /\ \A s, k : Fixed(s, k)' <=> Fixed(s, k)
      /\ \A wm : EffectiveWatermark(wm)' = EffectiveWatermark(wm)
  BY <1>1 DEF Arrived, InHistory, Held, At, Changed, Fixed, EffectiveWatermark
<1>4. ProgressHolds' BY <1>1, <1>3 DEF Holds, ProgressHolds, Rows, Reached
<1>5. StagedHolds' BY <1>1, <1>3 DEF Holds, StagedHolds, RowOf
<1>6. LandedHolds' BY <1>1, <1>3 DEF Holds, LandedHolds
<1>7. HistoryHolds' BY <1>1, <1>3 DEF Holds, HistoryHolds
<1>8. ActiveHolds' BY <1>1, <1>3 DEF Holds, ActiveHolds
<1>9. RunHolds' BY <1>1, <1>3 DEF Holds, RunHolds, ToCome, WasRead, RowOf
<1> QED BY <1>2, <1>4, <1>5, <1>6, <1>7, <1>8, <1>9 DEF Holds

(* A row that changes is newer than every watermark, and than every slice  *)
(* or as new as the slice that was planned in this tick.                   *)
LEMMA ChangeStep ==
  ASSUME IngestionAssumption, LateAssumption, Holds, NEW k \in Keys, Change(k)
  PROVE  Holds'
<1> USE DEF table_vars, stage_vars, state_vars
<1>1. /\ planned < now \/ table.late
      /\ source' = [source EXCEPT ![k] = now]
      /\ UNCHANGED <<table, now, planned, table_vars, stage_vars, state_vars, run>>
  BY DEF Change
<1>2. /\ source'[k] = now /\ \A j \in Keys : j # k => source'[j] = source[j]
      /\ source \in [Keys -> Nat] /\ \A j \in Keys : source'[j] \in Nat /\ source[j] <= source'[j]
      /\ now \in Nat \ {0} /\ planned \in Nat /\ planned <= now
  BY <1>1 DEF Holds, Shape
<1>3. Shape' BY <1>1, <1>2 DEF Holds, Shape
<1>4. \A j \in Keys : j # k => /\ Arrived(j)' <=> Arrived(j)
                               /\ Changed(j)' <=> Changed(j)
                               /\ \A s : Fixed(s, j)' <=> Fixed(s, j)
  BY <1>1, <1>2 DEF Arrived, InHistory, Held, At, Changed, Fixed
<1>5. Changed(k)' BY <1>1, <1>2 DEF Changed
<1>6. \A s : s.hi \in Nat /\ s.hi <= planned => ~Fixed(s, k)' BY <1>1, <1>2 DEF Fixed
<1>7. \A wm : EffectiveWatermark(wm)' = EffectiveWatermark(wm) BY <1>1 DEF EffectiveWatermark
<1>8. ProgressHolds'
  <2>1. ASSUME NEW p \in Rows', p.wm # Unread
        PROVE  /\ p.wm <= planned'
               /\ \A j \in Keys : source'[j] # Absent /\ source'[j] <= EffectiveWatermark(p.wm)' => Arrived(j)'
    <3>1. p \in Rows BY <1>1 DEF Rows
    <3>2. p \in Prog
      <4>1. \A n \in DOMAIN outbox : outbox[n] \in Prog BY DEF Holds, Shape
      <4>2. \A n \in DOMAIN buffer : buffer[n] \in Prog BY DEF Holds, Shape
      <4> QED BY <3>1, <4>1, <4>2 DEF Rows, Holds, Shape, RunState
    <3>3. p.wm \in Nat BY <2>1, <3>2 DEF Prog, Wm
    <3>4. Reached(p) BY <3>1 DEF Holds, ProgressHolds
    <3>5. p.wm <= planned BY <2>1, <3>4 DEF Reached
    <3>6. ~(source'[k] <= EffectiveWatermark(p.wm))
      <4>1. /\ EffectiveWatermark(p.wm) \in Nat /\ EffectiveWatermark(p.wm) <= p.wm
            /\ table.late => EffectiveWatermark(p.wm) = 0 \/ EffectiveWatermark(p.wm) < p.wm
        BY <3>3, EffectiveIs DEF Holds, Shape
      <4> QED BY <1>1, <1>2, <3>3, <3>5, <4>1
    <3> QED BY <1>1, <1>2, <1>4, <1>7, <2>1, <3>4, <3>5, <3>6 DEF Reached
  <2> QED BY <2>1 DEF ProgressHolds, Reached
<1>9. StagedHolds'
  <2> SUFFICES ASSUME NEW p \in pending \cup run.active
               PROVE  /\ p.hi <= planned
                      /\ \A r \in p.rows : r.at <= p.hi /\ r.at <= source'[r.key]
                      /\ \A j \in Keys : Fixed(p, j)' => RowOf(j)' \in p.rows
    BY <1>1 DEF StagedHolds
  <2>1. p \in Staged BY DEF Holds, Shape, RunState
  <2>2. /\ p.hi <= planned
        /\ \A r \in p.rows : r.at <= p.hi /\ r.at <= source[r.key]
        /\ \A j \in Keys : Fixed(p, j) => RowOf(j) \in p.rows
    BY DEF Holds, StagedHolds
  <2>3. \A r \in p.rows : r.key \in Keys /\ r.at \in Nat BY <2>1 DEF Staged, Row
  <2>4. \A r \in p.rows : r.at <= source'[r.key]
    <3> TAKE r \in p.rows
    <3>1. r.key \in Keys /\ r.at \in Nat /\ r.at <= source[r.key] BY <2>2, <2>3
    <3>2. source[r.key] \in Nat /\ source'[r.key] \in Nat /\ source[r.key] <= source'[r.key] BY <1>2, <3>1
    <3> QED BY <3>1, <3>2
  <2>5. \A j \in Keys : Fixed(p, j)' => RowOf(j)' \in p.rows
    <3> SUFFICES ASSUME NEW j \in Keys, Fixed(p, j)' PROVE RowOf(j)' \in p.rows
      OBVIOUS
    <3>1. j # k BY <1>6, <2>1, <2>2 DEF Staged
    <3> QED BY <1>2, <1>4, <2>2, <3>1 DEF RowOf
  <2> QED BY <2>2, <2>4, <2>5
<1>10. LandedHolds'
  <2>1. \A s \in landed : s.hi \in Nat BY DEF Holds, Shape, Slice
  <2> QED BY <1>1, <1>4, <1>6, <2>1 DEF Holds, LandedHolds
<1>11. HistoryHolds'
  <2> SUFFICES ASSUME NEW r \in raw
               PROVE  r.key \in Keys /\ r.at \in Nat /\ r.at <= planned /\ r.at <= source'[r.key]
    BY <1>1 DEF HistoryHolds
  <2>1. r.key \in Keys /\ r.at \in Nat /\ r.at <= planned /\ r.at <= source[r.key]
    BY DEF Holds, HistoryHolds
  <2>2. source[r.key] \in Nat /\ source'[r.key] \in Nat /\ source[r.key] <= source'[r.key] BY <1>2, <2>1
  <2> QED BY <2>1, <2>2
<1>12. \A p \in run.active : \A r \in p.rows : r.key \in Keys
  BY DEF Holds, Shape, RunState, Staged, Row
<1>13. ActiveHolds' BY <1>1, <1>2, <1>4, <1>5, <1>12 DEF Holds, ActiveHolds
<1>14. RunHolds'
  <2>1. \A j \in Keys : j # k => /\ ToCome(j)' <=> ToCome(j)
                                 /\ WasRead(j)' <=> WasRead(j)
    BY <1>1, <1>2 DEF ToCome, WasRead, RowOf
  <2> QED BY <1>1, <1>2, <1>4, <1>5, <1>7, <1>12, <2>1 DEF Holds, RunHolds
<1> QED BY <1>3, <1>8, <1>9, <1>10, <1>11, <1>13, <1>14 DEF Holds

-----------------------------------------------------------------------------
(* A run begins.                                                           *)
LEMMA IdleIs == Idle \in RunState /\ Idle.pc = "idle" /\ Idle.active = {} /\ Idle.last = Initially
                /\ Initially \in Prog
<1>1. [k \in Keys |-> Absent] \in [Keys -> Nat] /\ Initially \in Prog /\ <<>> \in Seq(Slice)
  BY DEF Absent, Initially, Prog, Wm
<1> QED BY <1>1 DEF Idle, RunState, Steps

LEMMA InitHolds == ASSUME IngestionAssumption, LateAssumption, Init PROVE IngestionInv
<1>1. Shape
  <2>1. <<>> \in Seq(Prog) OBVIOUS
  <2> QED BY <2>1, IdleIs DEF Init, Shape, Absent
<1>2. ProgressHolds
  <2>1. DOMAIN outbox = {} /\ DOMAIN buffer = {} BY DEF Init
  <2>2. \A p \in Rows : p = Initially BY <2>1, IdleIs DEF Init, Rows
  <2> QED BY <1>1, <2>2, InitiallyReached DEF ProgressHolds
<1>3. StagedHolds /\ LandedHolds /\ HistoryHolds /\ ActiveHolds /\ RunHolds
  BY IdleIs DEF Init, StagedHolds, LandedHolds, HistoryHolds, ActiveHolds, RunHolds
<1> QED BY <1>1, <1>2, <1>3 DEF IngestionInv, Holds

LEMMA StartStep ==
  ASSUME IngestionAssumption, LateAssumption, Holds, NEW reload \in BOOLEAN, Start(reload)
  PROVE  Holds'
<1>1. /\ At("idle") /\ RestoreAll /\ UNCHANGED <<source_vars, table_vars, stage_vars, buffer>>
  BY DEF Start
<1>2. outbox \in Seq(Prog) /\ stored \in Prog BY DEF Holds, Shape
<1>3. /\ stored' \in Prog /\ (stored' = stored \/ \E n \in DOMAIN outbox : stored' = outbox[n])
      /\ outbox' \in Seq(Prog)
      /\ \A n \in DOMAIN outbox' : \E m \in DOMAIN outbox : outbox'[n] = outbox[m]
  <2>1. outbox # <<>> => Last(outbox) \in Prog /\ \E n \in DOMAIN outbox : Last(outbox) = outbox[n]
    BY <1>2, LastIs
  <2>2. CASE outbox' = <<>> /\ stored' = IF outbox = <<>> THEN stored ELSE Last(outbox)
    <3>1. DOMAIN outbox' = {} /\ outbox' \in Seq(Prog) BY <2>2
    <3> QED BY <1>2, <2>1, <2>2, <3>1
  <2>3. ASSUME NEW n \in DOMAIN outbox, outbox' = <<outbox[n]>>,
               \/ stored' = Last(outbox)
               \/ n = Len(outbox) /\ stored' = IF n = 1 THEN stored ELSE outbox[n - 1]
        PROVE  /\ stored' \in Prog /\ (stored' = stored \/ \E m \in DOMAIN outbox : stored' = outbox[m])
               /\ outbox' \in Seq(Prog)
               /\ \A i \in DOMAIN outbox' : \E m \in DOMAIN outbox : outbox'[i] = outbox[m]
    <3>1. outbox[n] \in Prog /\ outbox # <<>> BY <1>2
    <3>2. outbox' \in Seq(Prog) /\ \A i \in DOMAIN outbox' : outbox'[i] = outbox[n] BY <2>3, <3>1
    <3>3. stored' = stored \/ stored' = Last(outbox) \/ (n # 1 /\ stored' = outbox[n - 1]) BY <2>3
    <3>4. n # 1 => n - 1 \in DOMAIN outbox /\ outbox[n - 1] \in Prog BY <1>2
    <3> QED BY <1>2, <2>1, <3>1, <3>2, <3>3, <3>4
  <2> QED BY <1>1, <2>2, <2>3 DEF RestoreAll
<1>4. PICK day \in Int :
        run' = [Idle EXCEPT !.pc = "plan", !.day = day, !.last = IF reload THEN Initially ELSE stored']
  <2>1. DayOf(now) \in Int BY DEF Holds, Shape, DayOf, IngestionAssumption
  <2>2. PICK day \in IF table.anyDay THEN 0..DayOf(now) ELSE {DayOf(now)} :
          run' = [Idle EXCEPT !.pc = "plan", !.day = day, !.last = IF reload THEN Initially ELSE stored']
    BY Zenon DEF Start
  <2>3. day \in Int BY <2>1
  <2> QED BY <2>2, <2>3
<1>5. /\ run' \in RunState /\ run'.pc = "plan" /\ run'.active = {}
      /\ run'.last = IF reload THEN Initially ELSE stored'
  <2> DEFINE last == IF reload THEN Initially ELSE stored'
  <2>1. last \in Prog BY <1>3, IdleIs
  <2> HIDE DEF last
  <2>2. run' = [Idle EXCEPT !.pc = "plan", !.day = day, !.last = last] BY <1>4 DEF last
  <2>3. run' \in RunState /\ run'.pc = "plan" /\ run'.active = {} /\ run'.last = last
    BY <2>1, <2>2, IdleIs DEF RunState, Steps
  <2> QED BY <2>3 DEF last
<1>6. Shape' BY <1>1, <1>3, <1>5 DEF Holds, Shape, source_vars, table_vars, stage_vars
<1>7. RunHolds' BY <1>5 DEF RunHolds
<1>8. Reached(Initially) BY InitiallyReached DEF Holds
<1>9. ASSUME NEW p \in Rows' PROVE p \in Rows \/ Reached(p)
  <2>1. \/ p = stored' \/ p = run'.last
        \/ (\E n \in DOMAIN outbox' : p = outbox'[n]) \/ (\E n \in DOMAIN buffer' : p = buffer'[n])
    BY <1>9 DEF Rows
  <2>2. p = Initially \/ p = stored' \/ p \in Rows BY <2>1, <1>1, <1>3, <1>5 DEF Rows
  <2> QED BY <2>2, <1>3, <1>8 DEF Rows
<1> QED BY <1>1, <1>5, <1>6, <1>7, <1>9, OnlyProgress DEF At, table_vars, stage_vars

(* Planning: what was promised of the last plan holds of this one.         *)
LEMMA PlanStep ==
  ASSUME IngestionAssumption, LateAssumption, Holds, Plan, ~overran'
  PROVE  Holds'
<1> USE DEF table_vars, stage_vars, state_vars
<1> DEFINE eff == EffectiveWatermark(run.last.wm)
           parts == Parts(Cardinality(Between(eff, now)))
           slices == Slices(eff, now, parts)
<1>1. /\ At("plan") /\ run.last.wm # Unread /\ planned' = now
      /\ run' = [run EXCEPT !.pc = "stage", !.eff = eff, !.todo = slices]
      /\ UNCHANGED <<table, now, source, table_vars, stage_vars, state_vars>>
      /\ \A i \in DOMAIN slices : ~(slices[i].hi > now)
  BY DEF Plan
<1>2. /\ table \in Tables /\ run \in RunState /\ run.last.wm \in Nat /\ run.active = {} /\ run.pc = "plan"
      /\ now \in Nat \ {0} /\ planned \in Nat /\ planned <= now
      /\ \A k \in Keys : source[k] \in Nat /\ source[k] <= now
  BY <1>1 DEF Holds, Shape, RunState, Prog, Wm, RunHolds, At
<1>3. eff \in Nat BY <1>2, EffectiveIs
<1>4. parts \in Nat \ {0}
  <2>1. IsFiniteSet(Between(eff, now))
    <3> DEFINE ks == {j \in Keys : eff < source[j] /\ source[j] <= now}
    <3>1. IsFiniteSet(ks) BY FS_Subset DEF IngestionAssumption
    <3>2. Between(eff, now) = {[key |-> k, at |-> source[k]] : k \in ks} BY DEF Between
    <3> HIDE DEF ks
    <3> DEFINE f == [k \in ks |-> [key |-> k, at |-> source[k]]]
    <3>3. f \in [ks -> Range(f)] /\ Between(eff, now) = Range(f) BY <3>2 DEF Range
    <3>4. f \in Surjection(ks, Between(eff, now)) BY <3>3 DEF Range, Surjection
    <3> QED BY <3>1, <3>4, FS_Surjection
  <2>2. Cardinality(Between(eff, now)) \in Nat BY <2>1, FS_CardinalityType
  <2> QED BY <2>2, PartsIs
<1>5. table.late => parts = 1
  BY <1>2 DEF LateAssumption, Parts
<1> HIDE DEF parts
<1>6. slices \in Seq(Slice) /\ (table.late => \A i \in DOMAIN slices : slices[i].hi = now)
  BY <1>2, <1>3, <1>4, <1>5, SlicesAre
<1>7. \A t \in Nat : eff < t /\ t <= now => \E i \in DOMAIN slices : slices[i].lo < t /\ t <= slices[i].hi
  BY <1>2, <1>3, <1>4, SlicesCover
<1>8. \A i \in DOMAIN slices : slices[i].hi \in Nat /\ slices[i].hi <= now
  <2>1. \A i \in DOMAIN slices : slices[i] \in Slice BY <1>6
  <2> QED BY <1>1, <1>2, <2>1 DEF Slice
<1> HIDE DEF slices, eff
<1>9. /\ run' \in RunState /\ run'.pc = "stage" /\ run'.eff = eff /\ run'.todo = slices
      /\ run'.active = {} /\ run'.last = run.last
  BY <1>1, <1>2, <1>3, <1>6 DEF RunState, Steps
<1>10. Shape' BY <1>1, <1>2, <1>9 DEF Holds, Shape
<1>11. \A k : Arrived(k)' <=> Arrived(k)
  BY <1>1, <1>9 DEF Arrived, InHistory, Held, At
<1>12. \A wm : EffectiveWatermark(wm)' = EffectiveWatermark(wm) BY <1>1 DEF EffectiveWatermark
<1>13. ProgressHolds'
  <2>1. \A p \in Rows : p.wm # Unread => p.wm \in Nat
    <3>1. \A n \in DOMAIN outbox : outbox[n] \in Prog BY DEF Holds, Shape
    <3>2. \A n \in DOMAIN buffer : buffer[n] \in Prog BY DEF Holds, Shape
    <3>3. \A p \in Rows : p \in Prog BY <3>1, <3>2 DEF Rows, Holds, Shape, RunState
    <3> QED BY <3>3 DEF Prog, Wm
  <2>2. Rows' = Rows BY <1>1, <1>9 DEF Rows
  <2>3. \A p \in Rows : Reached(p) BY DEF Holds, ProgressHolds
  <2> QED BY <2>1, <2>2, <2>3, <1>1, <1>2, <1>11, <1>12 DEF ProgressHolds, Reached
<1>14. \A s, k : s.hi \in Nat /\ s.hi <= planned /\ k \in Keys /\ Fixed(s, k)' => Fixed(s, k)
  BY <1>1, <1>2 DEF Fixed
<1>15. StagedHolds'
  <2>1. \A p \in pending : p.hi \in Nat BY DEF Holds, Shape, Staged
  <2> QED BY <2>1, <1>1, <1>2, <1>9, <1>14 DEF Holds, StagedHolds, RowOf
<1>16. LandedHolds'
  <2>1. \A p \in landed : p.hi \in Nat BY DEF Holds, Shape, Slice
  <2> QED BY <2>1, <1>1, <1>2, <1>11, <1>14 DEF Holds, LandedHolds
<1>17. HistoryHolds' BY <1>1, <1>2 DEF Holds, HistoryHolds
<1>18. ActiveHolds' BY <1>9 DEF ActiveHolds
<1>19. RunHolds'
  <2>1. eff = EffectiveWatermark(run.last.wm)' BY <1>9, <1>12 DEF eff
  <2>2. \A k \in Keys : eff < source'[k] /\ source'[k] <= planned' => ToCome(k)'
    BY <1>1, <1>2, <1>7, <1>9 DEF ToCome
  <2> QED BY <2>1, <2>2, <1>1, <1>6, <1>8, <1>9 DEF RunHolds
<1> QED BY <1>10, <1>13, <1>15, <1>16, <1>17, <1>18, <1>19 DEF Holds

-----------------------------------------------------------------------------
(* The run goes on.                                                        *)
LEMMA RowTypes ==
  ASSUME Shape
  PROVE  \A p \in pending \cup run.active :
           /\ p \in Staged /\ p.lo \in Nat /\ p.hi \in Nat
           /\ \A r \in p.rows : r.key \in Keys /\ r.at \in Nat
BY DEF Shape, RunState, Staged, Row

(* Staging a slice reads it; one that has landed has arrived.              *)
LEMMA StageStep ==
  ASSUME IngestionAssumption, LateAssumption, Holds, StageSlice
  PROVE  Holds'
<1> USE DEF table_vars, state_vars, source_vars
<1> DEFINE s == Head(run.todo)
           staged == [lo |-> s.lo, hi |-> s.hi, rows |-> Between(s.lo, s.hi)]
<1>1. /\ At("stage") /\ run.todo # <<>>
      /\ UNCHANGED <<source_vars, table_vars, landed, state_vars>>
      /\ \/ s \in landed /\ pending' = pending /\ run' = [run EXCEPT !.todo = Tail(run.todo)]
         \/ /\ pending' = {p \in pending : Dir(p) # s} \cup {staged}
            /\ run' = [run EXCEPT !.todo = Tail(run.todo), !.active = run.active \cup {staged}]
  BY DEF StageSlice
<1>2. /\ run \in RunState /\ run.pc = "stage" /\ run.todo \in Seq(Slice)
      /\ run.eff = EffectiveWatermark(run.last.wm) /\ run.last.wm # Unread
      /\ \A n \in DOMAIN run.todo : /\ run.todo[n].hi <= planned
                                    /\ table.late => run.todo[n].hi = planned
      /\ \A k \in Keys : run.eff < source[k] /\ source[k] <= planned /\ ~Changed(k)
                           => ToCome(k) \/ WasRead(k) \/ Arrived(k)
  BY <1>1 DEF Holds, Shape, RunState, RunHolds, At
<1>3. \A k \in Keys : source[k] \in Nat BY DEF Holds, Shape
<1>4. /\ 1 \in DOMAIN run.todo /\ s = run.todo[1] /\ Tail(run.todo) \in Seq(Slice)
      /\ \A n \in DOMAIN run.todo : n # 1 => n - 1 \in DOMAIN Tail(run.todo) /\ Tail(run.todo)[n - 1] = run.todo[n]
      /\ \A n \in DOMAIN Tail(run.todo) : n + 1 \in DOMAIN run.todo /\ Tail(run.todo)[n] = run.todo[n + 1]
  <2>1. /\ Len(run.todo) \in Nat \ {0} /\ DOMAIN run.todo = 1..Len(run.todo) /\ s = run.todo[1]
        /\ Tail(run.todo) \in Seq(Slice) /\ DOMAIN Tail(run.todo) = 1..(Len(run.todo) - 1)
        /\ \A n \in 1..(Len(run.todo) - 1) : Tail(run.todo)[n] = run.todo[n + 1]
    BY <1>1, <1>2
  <2>2. \A n \in 1..Len(run.todo) : n # 1 => n - 1 \in 1..(Len(run.todo) - 1) /\ (n - 1) + 1 = n BY <2>1
  <2> QED BY <2>1, <2>2
<1>5. s \in Slice /\ s.lo \in Nat /\ s.hi \in Nat /\ s.hi <= planned /\ (table.late => s.hi = planned)
  <2>1. s \in Slice BY <1>2, <1>4
  <2> QED BY <2>1, <1>2, <1>4 DEF Slice
<1> HIDE DEF s
<1>6. /\ staged \in Staged
      /\ \A r \in staged.rows : r.key \in Keys /\ r.at = source[r.key] /\ r.at <= staged.hi
      /\ \A k \in Keys : s.lo < source[k] /\ source[k] <= s.hi => RowOf(k) \in staged.rows
      /\ staged.hi = s.hi /\ staged.lo = s.lo
  <2>1. Between(s.lo, s.hi) \subseteq Row BY <1>3 DEF Between, Row
  <2>2. \A r \in Between(s.lo, s.hi) : r.key \in Keys /\ r.at = source[r.key] /\ r.at <= s.hi
    BY DEF Between
  <2>3. \A k \in Keys : s.lo < source[k] /\ source[k] <= s.hi => RowOf(k) \in Between(s.lo, s.hi)
    BY DEF Between, RowOf
  <2> QED BY <2>1, <2>2, <2>3, <1>5 DEF Staged
<1> HIDE DEF staged
<1>7. /\ run' \in RunState /\ run'.pc = "stage" /\ run'.eff = run.eff /\ run'.last = run.last
      /\ run'.todo = Tail(run.todo)
      /\ run'.active = run.active \/ run'.active = run.active \cup {staged}
      /\ pending' \subseteq pending \cup {staged}
      /\ s \in landed \/ staged \in run'.active
  <2>1. CASE s \in landed /\ pending' = pending /\ run' = [run EXCEPT !.todo = Tail(run.todo)]
    BY <2>1, <1>2, <1>4 DEF RunState
  <2>2. CASE /\ pending' = {p \in pending : Dir(p) # s} \cup {staged}
             /\ run' = [run EXCEPT !.todo = Tail(run.todo), !.active = run.active \cup {staged}]
    <3>1. run.active \cup {staged} \in SUBSET Staged BY <1>2, <1>6 DEF RunState
    <3> DEFINE more == run.active \cup {staged}
    <3>2. staged \in more /\ more = run.active \cup {staged} OBVIOUS
    <3> HIDE DEF more
    <3>3. run' \in RunState /\ run' = [run EXCEPT !.todo = Tail(run.todo), !.active = more]
      BY <2>2, <1>2, <1>4, <3>1, <3>2 DEF RunState
    <3> QED BY <2>2, <1>2, <3>2, <3>3 DEF RunState
  <2> QED BY <1>1, <2>1, <2>2
<1>8. Shape' BY <1>1, <1>6, <1>7 DEF Holds, Shape
<1>9. /\ \A k : Arrived(k)' <=> Arrived(k)
      /\ \A p : Reached(p)' <=> Reached(p)
      /\ \A k : Changed(k)' <=> Changed(k)
      /\ \A p, k : Fixed(p, k)' <=> Fixed(p, k)
  BY <1>1, <1>2, <1>7, ArrivedStays DEF At
<1>10. ProgressHolds' BY <1>1, <1>7, <1>9 DEF Holds, ProgressHolds, Rows
<1>11. StagedHolds'
  <2>1. \A p \in pending' \cup run'.active : p \in pending \cup run.active \/ p = staged BY <1>7
  <2>2. \A r \in staged.rows : r.at <= source[r.key] BY <1>3, <1>6
  <2>3. \A k \in Keys : Fixed(staged, k) => RowOf(k) \in staged.rows BY <1>6 DEF Fixed
  <2> QED BY <1>1, <1>5, <1>6, <1>9, <2>1, <2>2, <2>3 DEF Holds, StagedHolds, RowOf
<1>12. LandedHolds' /\ HistoryHolds' BY <1>1, <1>9 DEF Holds, LandedHolds, HistoryHolds
<1>13. ActiveHolds' BY <1>1, <1>6, <1>7, <1>9 DEF Holds, ActiveHolds
<1>14. RunHolds'
  <2>1. ASSUME NEW k \in Keys, run.eff < source[k], source[k] <= planned, ~Changed(k)
        PROVE  ToCome(k)' \/ WasRead(k)' \/ Arrived(k)'
    <3>1. CASE WasRead(k) BY <3>1, <1>1, <1>7 DEF WasRead, RowOf
    <3>2. CASE Arrived(k) BY <3>2, <1>9
    <3>3. ASSUME NEW n \in DOMAIN run.todo, n # 1, run.todo[n].lo < source[k], source[k] <= run.todo[n].hi
          PROVE  ToCome(k)'
      BY <3>3, <1>1, <1>4, <1>7, ZenonT(30) DEF ToCome
    <3>4. CASE s.lo < source[k] /\ source[k] <= s.hi
      <4>1. CASE s \in landed
        <5>1. Fixed(s, k) BY <3>4, <2>1, <1>3, <1>5 DEF Fixed, Changed, Holds, Shape
        <5> QED BY <4>1, <5>1, <1>9 DEF Holds, LandedHolds
      <4>2. CASE staged \in run'.active BY <3>4, <4>2, <1>1, <1>6 DEF WasRead, RowOf
      <4> QED BY <4>1, <4>2, <1>7
    <3> QED BY <2>1, <1>2, <1>4, <3>1, <3>2, <3>3, <3>4 DEF ToCome
  <2>2. \A n \in DOMAIN run'.todo : /\ run'.todo[n].hi <= planned
                                    /\ table.late => run'.todo[n].hi = planned
    BY <1>2, <1>4, <1>7
  <2> QED BY <2>1, <2>2, <1>1, <1>2, <1>7, <1>9 DEF RunHolds, EffectiveWatermark
<1> QED BY <1>8, <1>10, <1>11, <1>12, <1>13, <1>14 DEF Holds

(* A step on the tables.                                                   *)
LEMMA TablesStep ==
  ASSUME IngestionAssumption, LateAssumption, Holds, UNCHANGED source_vars, Shape', RunHolds', HistoryHolds',
         pending' \subseteq pending, run'.active \subseteq run.active,
         \A p \in Rows' : p \in Rows \/ p = Initially,
         \A k \in Keys : source[k] <= planned /\ ~Changed(k) /\ Arrived(k) => Arrived(k)',
         \A s \in landed' : s \in landed \/ (s.hi <= planned /\ \A k \in Keys : Fixed(s, k) => Arrived(k)')
  PROVE  Holds'
<1> USE DEF source_vars
<1>1. /\ \A k : Changed(k)' <=> Changed(k)
      /\ \A p, k : Fixed(p, k)' <=> Fixed(p, k)
      /\ \A wm : EffectiveWatermark(wm)' = EffectiveWatermark(wm)
  BY DEF Changed, Fixed, EffectiveWatermark
<1>2. ASSUME NEW p \in Rows', p.wm # Unread, NEW k \in Keys
      PROVE  /\ p.wm <= planned
             /\ source[k] # Absent /\ source[k] <= EffectiveWatermark(p.wm) => Arrived(k)'
  <2>1. Reached(p) BY InitiallyReached DEF Holds, ProgressHolds
  <2>2. p \in Prog
    <3>1. \A n \in DOMAIN outbox : outbox[n] \in Prog BY DEF Holds, Shape
    <3>2. \A n \in DOMAIN buffer : buffer[n] \in Prog BY DEF Holds, Shape
    <3>3. stored \in Prog /\ run.last \in Prog /\ Initially \in Prog BY IdleIs DEF Holds, Shape, RunState
    <3>4. p \in Rows => p \in Prog BY <3>1, <3>2, <3>3 DEF Rows
    <3> QED BY <3>3, <3>4
  <2>3. p.wm \in Nat /\ p.wm <= planned BY <1>2, <2>1, <2>2 DEF Prog, Wm, Reached
  <2>4. source[k] # Absent /\ source[k] <= EffectiveWatermark(p.wm)
          => source[k] <= planned /\ ~Changed(k) /\ Arrived(k)
    BY <1>2, <2>1, <2>3, PassedIsOld DEF Holds, Reached
  <2> QED BY <2>3, <2>4
<1>3. ProgressHolds'
  <2>1. ASSUME NEW p \in Rows', p.wm # Unread PROVE p.wm <= planned
    <3>1. Reached(p) BY InitiallyReached DEF Holds, ProgressHolds
    <3> QED BY <3>1, <2>1 DEF Reached
  <2> QED BY <1>1, <1>2, <2>1 DEF ProgressHolds, Reached
<1>4. LandedHolds'
  <2>1. ASSUME NEW s \in landed, NEW k \in Keys, Fixed(s, k) PROVE s.hi <= planned /\ Arrived(k)'
    <3>1. /\ s.hi <= planned /\ Arrived(k) /\ s.hi \in Nat /\ source[k] \in Nat /\ planned \in Nat
      BY <2>1 DEF Holds, LandedHolds, Shape, Slice
    <3>2. source[k] <= planned /\ ~Changed(k) BY <2>1, <3>1 DEF Fixed, Changed
    <3> QED BY <3>1, <3>2
  <2>2. \A s \in landed : s.hi <= planned BY DEF Holds, LandedHolds
  <2> QED BY <1>1, <2>1, <2>2 DEF LandedHolds
<1>5. StagedHolds' BY <1>1 DEF Holds, StagedHolds, RowOf
<1>6. ActiveHolds' BY <1>1 DEF Holds, ActiveHolds
<1> QED BY <1>3, <1>4, <1>5, <1>6 DEF Holds

LEMMA WindowIs ==
  ASSUME Holds, NEW S \in SUBSET (pending \cup run.active)
  PROVE  \A r \in Window(S) : r.key \in Keys /\ r.at \in Nat /\ r.at <= planned /\ r.at <= source[r.key]
<1> SUFFICES ASSUME NEW p \in S, NEW r \in p.rows
             PROVE  r.key \in Keys /\ r.at \in Nat /\ r.at <= planned /\ r.at <= source[r.key]
  BY DEF Window
<1>1. p.hi \in Nat /\ r.key \in Keys /\ r.at \in Nat /\ planned \in Nat BY RowTypes DEF Holds, Shape
<1>2. p.hi <= planned /\ r.at <= p.hi /\ r.at <= source[r.key] BY DEF Holds, StagedHolds
<1> QED BY <1>1, <1>2

LEMMA NoMoreToCome ==
  ASSUME run.todo = <<>> PROVE \A k : ~ToCome(k)
<1>1. DOMAIN run.todo = {} OBVIOUS
<1> QED BY <1>1 DEF ToCome

(* The merge brings every row of the increment that has not changed since, *)
(* and takes from no other what has arrived.                               *)
LEMMA MergeStep ==
  ASSUME IngestionAssumption, LateAssumption, Holds, MergeUpsert
  PROVE  Holds'
<1> USE DEF stage_vars, state_vars, source_vars
<1>1. /\ At("stage") /\ run.todo = <<>> /\ merged' = Upsert(merged, Window(run.active))
      /\ run' = [run EXCEPT !.pc = "append"]
      /\ UNCHANGED <<source_vars, raw, whole, patched, stage_vars, state_vars>>
  BY DEF MergeUpsert
<1>2. /\ run \in RunState /\ run.pc = "stage" /\ \A k \in Keys : source[k] \in Nat
      /\ merged \in [Keys -> Nat] /\ planned \in Nat
  BY <1>1 DEF Holds, Shape, At
<1>3. /\ run' \in RunState /\ run'.pc = "append" /\ run'.eff = run.eff /\ run'.last = run.last
      /\ run'.todo = run.todo /\ run'.active = run.active
  BY <1>1, <1>2 DEF RunState, Steps
<1>4. Shape'
  <2>1. merged' \in [Keys -> Nat] BY <1>1, <1>2, WindowIs, UpsertTyped
  <2> QED BY <1>1, <1>3, <2>1 DEF Holds, Shape
<1>5. ASSUME NEW k \in Keys, ~Changed(k)
      PROVE  /\ merged'[k] = merged[k] \/ merged'[k] = source[k]
             /\ (\E r \in Window(run.active) : r.key = k) => merged'[k] = source[k]
  <2>1. \A r \in Window(run.active) : r.key = k => r.at = source[k]
    BY <1>5 DEF Holds, ActiveHolds, Window
  <2>2. CASE \E r \in Window(run.active) : r.key = k
    <3>1. \E r \in Window(run.active) : r.key = k /\ r.at = source[k] BY <2>1, <2>2
    <3>2. \A r \in Window(run.active) : r.key = k => r.at \in Nat /\ r.at <= source[k] BY <2>1, <1>2
    <3>3. Upsert(merged, Window(run.active))[k] = source[k] BY <3>1, <3>2, <1>2, UpsertNew
    <3> QED BY <3>3, <1>1, <2>2
  <2>3. CASE \A r \in Window(run.active) : r.key # k
    BY <2>3, <1>1, UpsertOld
  <2> QED BY <2>2, <2>3
<1>6. \A k \in Keys : Arrived(k) /\ ~Changed(k) => Arrived(k)'
  BY <1>1, <1>2, <1>3, <1>5 DEF Arrived, InHistory, Held, At
<1>7. \A k : Changed(k)' <=> Changed(k) BY <1>1 DEF Changed
<1>8. RunHolds'
  <2>1. \A p \in run.active : \A r \in p.rows : Changed(r.key) \/ merged'[r.key] = source[r.key]
    <3> TAKE p \in run.active
    <3> TAKE r \in p.rows
    <3>1. r.key \in Keys /\ r \in Window(run.active) BY RowTypes DEF Holds, Window
    <3> QED BY <3>1, <1>5
  <2>2. \A k \in Keys : (ToCome(k)' <=> ToCome(k)) /\ (WasRead(k)' <=> WasRead(k))
    BY <1>1, <1>3 DEF ToCome, WasRead, RowOf
  <2> QED BY <1>1, <1>2, <1>3, <1>6, <1>7, <2>1, <2>2 DEF Holds, RunHolds, EffectiveWatermark
<1>9. Rows' = Rows BY <1>1, <1>3 DEF Rows
<1>10. HistoryHolds' BY <1>1 DEF Holds, HistoryHolds
<1> QED BY <1>1, <1>3, <1>4, <1>6, <1>8, <1>9, <1>10, TablesStep

(* The append: what the merge has brought has arrived, patched or not.     *)
LEMMA AppendStep ==
  ASSUME IngestionAssumption, LateAssumption, Holds, AppendRaw
  PROVE  Holds'
<1> USE DEF stage_vars, state_vars, source_vars
<1> DEFINE rows == Window(run.active)
           brought == {r.key : r \in rows}
<1>1. /\ At("append") /\ patched' = patched \ brought
      /\ raw' = raw \cup {[key |-> r.key, at |-> r.at, day |-> run.day] : r \in rows}
      /\ run' = [run EXCEPT !.pc = "land"]
      /\ UNCHANGED <<source_vars, merged, whole, stage_vars, state_vars>>
  BY DEF AppendRaw
<1>2. run \in RunState /\ run.pc = "append" BY <1>1 DEF Holds, Shape, At
<1>3. /\ run' \in RunState /\ run'.pc = "land" /\ run'.eff = run.eff /\ run'.last = run.last
      /\ run'.todo = run.todo /\ run'.active = run.active
  BY <1>1, <1>2 DEF RunState, Steps
<1>4. Shape' BY <1>1, <1>3 DEF Holds, Shape
<1>5. ASSUME NEW r \in rows PROVE \E q \in raw' : q.key = r.key /\ q.at = r.at
  <2> DEFINE q == [key |-> r.key, at |-> r.at, day |-> run.day]
  <2>1. q \in raw' /\ q.key = r.key /\ q.at = r.at BY <1>1
  <2> QED BY <2>1
<1>6. \A k : InHistory(k) => InHistory(k)' BY <1>1 DEF InHistory
<1>7. ASSUME NEW k \in brought, ~Changed(k) PROVE Arrived(k)'
  <2>1. PICK r \in rows : r.key = k OBVIOUS
  <2>2. r.at = source[k] BY <1>7, <2>1 DEF Holds, ActiveHolds, Window
  <2>3. InHistory(k)' BY <1>1, <1>5, <2>1, <2>2 DEF InHistory
  <2>4. merged[k] = source[k] BY <1>2, <1>7, <2>1 DEF Holds, RunHolds, Window
  <2> QED BY <1>1, <1>3, <2>3, <2>4 DEF Arrived, Held, At
<1>8. \A k : k \notin brought /\ Arrived(k) => Arrived(k)'
  BY <1>1, <1>2, <1>3, <1>6 DEF Arrived, Held, At
<1>9. \A k : Arrived(k) /\ ~Changed(k) => Arrived(k)' BY <1>7, <1>8
<1>10. \A k : Changed(k)' <=> Changed(k) BY <1>1 DEF Changed
<1>11. HistoryHolds'
  <2>1. \A r \in rows : r.key \in Keys /\ r.at \in Nat /\ r.at <= planned /\ r.at <= source[r.key]
    BY WindowIs
  <2> QED BY <1>1, <2>1 DEF Holds, HistoryHolds
<1>12. RunHolds'
  <2>1. \A p \in run.active : \A r \in p.rows : r \in rows BY DEF Window
  <2>2. \A k \in Keys : (ToCome(k)' <=> ToCome(k)) /\ (WasRead(k)' <=> WasRead(k))
    BY <1>1, <1>3 DEF ToCome, WasRead, RowOf
  <2> HIDE DEF rows
  <2> QED BY <1>1, <1>2, <1>3, <1>5, <1>9, <1>10, <2>1, <2>2 DEF Holds, RunHolds, EffectiveWatermark
<1>13. Rows' = Rows BY <1>1, <1>3 DEF Rows
<1> QED BY <1>1, <1>3, <1>4, <1>9, <1>11, <1>12, <1>13, TablesStep

(* A slice is marked once what it brought is in the tables.                *)
LEMMA LandStep ==
  ASSUME IngestionAssumption, LateAssumption, Holds, MarkLanded
  PROVE  Holds'
<1> USE DEF table_vars, state_vars, source_vars
<1>1. /\ UNCHANGED <<source_vars, table_vars, state_vars, run>>
      /\ At("land") \/ (At("stage") /\ Window(run.active) = {})
  BY DEF MarkLanded
<1>2. PICK s \in run.active \cap pending : pending' = pending \ {s} /\ landed' = landed \cup {Dir(s)}
  BY DEF MarkLanded, Land
<1>3. /\ s \in Staged /\ s.lo \in Nat /\ s.hi \in Nat /\ s.hi <= planned
      /\ \A k \in Keys : Fixed(s, k) => RowOf(k) \in s.rows
      /\ planned \in Nat /\ \A k \in Keys : source[k] \in Nat
  BY RowTypes DEF Holds, StagedHolds, Shape
<1>4. Dir(s) \in Slice /\ Dir(s).lo = s.lo /\ Dir(s).hi = s.hi BY <1>3 DEF Dir, Slice
<1>5. Shape' BY <1>1, <1>2, <1>4 DEF Holds, Shape
<1>6. /\ \A k : Arrived(k)' <=> Arrived(k)
      /\ \A k : Changed(k)' <=> Changed(k)
  BY <1>1, ArrivedStays DEF At
<1>7. ASSUME NEW k \in Keys, Fixed(Dir(s), k) PROVE Arrived(k)
  <2>1. Fixed(s, k) BY <1>4, <1>7 DEF Fixed
  <2>2. ~Changed(k) BY <2>1, <1>3 DEF Fixed, Changed
  <2>3. RowOf(k) \in s.rows BY <1>3, <2>1
  <2>4. At("land") BY <1>1, <2>3 DEF Window
  <2>5. RowOf(k).key = k /\ RowOf(k).at = source[k] BY DEF RowOf
  <2>6. merged[k] = source[k] BY <2>2, <2>3, <2>4, <2>5 DEF Holds, RunHolds, At
  <2>7. InHistory(k)
    <3>1. \E q \in raw : q.key = RowOf(k).key /\ q.at = RowOf(k).at
      BY <2>3, <2>4 DEF Holds, RunHolds, At
    <3> QED BY <2>5, <3>1 DEF InHistory
  <2> QED BY <2>4, <2>6, <2>7 DEF Arrived, Held, At
<1>8. RunHolds'
  BY <1>1, <1>6 DEF Holds, RunHolds, ToCome, WasRead, RowOf, EffectiveWatermark
<1>9. Rows' = Rows BY <1>1 DEF Rows
<1>10. HistoryHolds' BY <1>1 DEF Holds, HistoryHolds
<1>11. \A d \in landed' : d \in landed \/ (d.hi <= planned /\ \A k \in Keys : Fixed(d, k) => Arrived(k)')
  BY <1>2, <1>3, <1>4, <1>6, <1>7
<1> QED BY <1>1, <1>2, <1>5, <1>6, <1>8, <1>9, <1>10, <1>11, TablesStep

LEMMA NothingStep ==
  ASSUME Holds, RecordNothing
  PROVE  Holds'
<1>1. run.last \in Prog /\ Reached(run.last) BY DEF Holds, Shape, RunState, ProgressHolds, Rows
<1>2. /\ SetProgress(run.last) /\ ~At("rebuild") /\ run' = [run EXCEPT !.pc = "finish"]
      /\ UNCHANGED <<source_vars, table_vars, stage_vars>>
  BY DEF RecordNothing, At
<1> QED BY <1>1, <1>2, SetStep

(* The new watermark is that of a row of the history: what lies between    *)
(* the watermark the increment began at and this one was read.             *)
LEMMA RecordStep ==
  ASSUME IngestionAssumption, LateAssumption, Holds, RecordProgress
  PROVE  Holds'
<1>1. /\ At("land") /\ run' = [run EXCEPT !.pc = "finish"] /\ UNCHANGED <<source_vars, table_vars, stage_vars>>
  BY DEF RecordProgress
<1>2. PICK p \in [wm : Times \cup {Unread}, day : 0..DayOf(now) \cup {Unread}] :
        NewProgress(p) /\ SetProgress(p)
  BY Zenon DEF RecordProgress
<1>3. p \in Prog
  <2>1. DayOf(now) \in Int /\ MaxTime \in Nat BY DEF Holds, Shape, DayOf, IngestionAssumption
  <2>2. Times \subseteq Nat /\ 0..DayOf(now) \subseteq Int BY <2>1 DEF Times
  <2>3. Times \cup {Unread} \subseteq Wm /\ 0..DayOf(now) \cup {Unread} \subseteq Int
    BY <2>2 DEF Wm, Unread
  <2> QED BY <1>2, <2>3 DEF Prog
<1>4. Reached(p)
  <2> SUFFICES ASSUME p.wm # Unread
               PROVE  /\ p.wm <= planned
                      /\ \A k \in Keys : source[k] # Absent /\ source[k] <= EffectiveWatermark(p.wm) => Arrived(k)
    BY DEF Reached
  <2>1. p.wm \in Nat BY <1>3 DEF Prog, Wm
  <2>2. PICK r \in raw : p.wm = r.at
    <3>1. Increment # {} BY <1>2 DEF NewProgress
    <3>2. p.wm \in {r.at : r \in Increment} BY <1>2, <3>1 DEF NewProgress, IsLatest
    <3> QED BY <3>2 DEF Increment
  <2>3. p.wm <= planned BY <2>2 DEF Holds, HistoryHolds
  <2>4. ASSUME NEW k \in Keys, source[k] # Absent, source[k] <= EffectiveWatermark(p.wm) PROVE Arrived(k)
    <3>1. source[k] <= planned /\ ~Changed(k) BY <2>1, <2>3, <2>4, PassedIsOld DEF Holds
    <3>2. /\ run.last.wm # Unread /\ run.eff = EffectiveWatermark(run.last.wm) /\ run.todo = <<>>
          /\ run.eff < source[k] => ToCome(k) \/ WasRead(k) \/ Arrived(k)
      BY <1>1, <3>1 DEF Holds, RunHolds, At
    <3>3. CASE source[k] <= run.eff
      <4>1. Reached(run.last) BY DEF Holds, ProgressHolds, Rows
      <4> QED BY <2>4, <3>2, <3>3, <4>1 DEF Reached
    <3>4. CASE WasRead(k)
      <4>1. PICK q \in run.active : RowOf(k) \in q.rows BY <3>4 DEF WasRead
      <4>2. RowOf(k).key = k /\ RowOf(k).at = source[k] BY DEF RowOf
      <4>3. merged[k] = source[k] BY <1>1, <3>1, <4>1, <4>2 DEF Holds, RunHolds, At
      <4>4. \E h \in raw : h.key = RowOf(k).key /\ h.at = RowOf(k).at
        BY <1>1, <4>1 DEF Holds, RunHolds, At
      <4>5. InHistory(k) BY <4>2, <4>4 DEF InHistory
      <4> QED BY <1>1, <4>3, <4>5 DEF Arrived, Held, At
    <3>5. source[k] \in Nat /\ run.eff \in Nat BY DEF Holds, Shape, RunState
    <3> QED BY <3>2, <3>3, <3>4, <3>5, NoMoreToCome
  <2> QED BY <2>3, <2>4
<1> QED BY <1>1, <1>2, <1>3, <1>4, SetStep DEF At

-----------------------------------------------------------------------------
(* Maintenance.                                                            *)
LEMMA ApplyStep ==
  ASSUME IngestionAssumption, LateAssumption, Holds, ApplyPending
  PROVE  Holds'
<1> USE DEF stage_vars, state_vars, source_vars
<1> DEFINE rows == Window(pending)
           brought == {r.key : r \in rows}
<1>1. /\ At("idle") /\ merged' = Upsert(merged, rows) /\ patched' = patched \cup brought
      /\ \/ landed' = landed \cup {Dir(s) : s \in pending} /\ pending' = {}
         \/ UNCHANGED stage_vars
      /\ UNCHANGED <<source_vars, raw, whole, state_vars, run>>
  BY DEF ApplyPending
<1>2. ASSUME NEW s \in pending
      PROVE  /\ Dir(s) \in Slice /\ Dir(s).hi <= planned
             /\ \A k \in Keys : Fixed(Dir(s), k) => Arrived(k)'
  <2>1. s \in Staged /\ s.lo \in Nat /\ s.hi \in Nat /\ s.hi <= planned
        /\ \A k \in Keys : Fixed(s, k) => RowOf(k) \in s.rows
    BY RowTypes DEF Holds, StagedHolds
  <2>2. Dir(s) \in Slice /\ Dir(s).lo = s.lo /\ Dir(s).hi = s.hi BY <2>1 DEF Dir, Slice
  <2>3. ASSUME NEW k \in Keys, Fixed(Dir(s), k) PROVE Arrived(k)'
    <3>1. Fixed(s, k) BY <2>2, <2>3 DEF Fixed
    <3>2. RowOf(k) \in rows BY <2>1, <3>1 DEF Window
    <3>3. k \in brought BY <3>2 DEF RowOf
    <3> QED BY <1>1, <3>3 DEF Arrived
  <2> QED BY <2>1, <2>2, <2>3
<1>3. Shape'
  <2>1. merged' \in [Keys -> Nat]
    <3>1. merged \in [Keys -> Nat] /\ planned \in Nat BY DEF Holds, Shape
    <3> QED BY <1>1, <3>1, WindowIs, UpsertTyped
  <2>2. landed' \subseteq Slice /\ pending' \subseteq Staged BY <1>1, <1>2 DEF Holds, Shape
  <2> QED BY <1>1, <2>1, <2>2 DEF Holds, Shape
<1>4. ASSUME NEW k \in Keys, Arrived(k) PROVE Arrived(k)'
  <2>1. CASE k \in brought BY <1>1, <2>1 DEF Arrived
  <2>2. CASE k \notin brought
    <3>1. merged'[k] = merged[k] BY <1>1, <2>2, UpsertOld
    <3> QED BY <1>1, <1>4, <3>1 DEF Arrived, InHistory, Held, At
  <2> QED BY <2>1, <2>2
<1>5. RunHolds' BY <1>1 DEF Holds, RunHolds, At
<1>6. HistoryHolds' BY <1>1 DEF Holds, HistoryHolds
<1>7. Rows' = Rows BY <1>1 DEF Rows
<1>8. \A s \in landed' : s \in landed \/ (s.hi <= planned /\ \A k \in Keys : Fixed(s, k) => Arrived(k)')
  BY <1>1, <1>2
<1>9. pending' \subseteq pending BY <1>1
<1> QED BY <1>1, <1>3, <1>4, <1>5, <1>6, <1>7, <1>8, <1>9, TablesStep

LEMMA RebuildStep ==
  ASSUME IngestionAssumption, LateAssumption, Holds, RebuildFromRaw
  PROVE  Holds'
<1> USE DEF stage_vars, state_vars, source_vars
<1>1. /\ At("idle") /\ merged' = [k \in Keys |-> Absent]
      /\ run' = [run EXCEPT !.pc = "rebuild", !.backup = merged]
      /\ UNCHANGED <<source_vars, raw, whole, patched, stage_vars, state_vars>>
  BY DEF RebuildFromRaw
<1>2. run \in RunState /\ merged \in [Keys -> Nat] BY DEF Holds, Shape
<1>3. /\ run' \in RunState /\ run'.pc = "rebuild" /\ run'.backup = merged /\ run'.last = run.last
      /\ run'.active = run.active
  BY <1>1, <1>2 DEF RunState, Steps
<1>4. merged' \in [Keys -> Nat] BY <1>1 DEF Absent
<1>5. Shape' BY <1>1, <1>3, <1>4 DEF Holds, Shape
<1>6. \A k : Arrived(k) => Arrived(k)' BY <1>1, <1>3 DEF Arrived, InHistory, Held, At
<1>7. RunHolds' BY <1>1, <1>3 DEF Holds, RunHolds, At
<1>8. HistoryHolds' BY <1>1 DEF Holds, HistoryHolds
<1>9. Rows' = Rows BY <1>1, <1>3 DEF Rows
<1> QED BY <1>1, <1>3, <1>5, <1>6, <1>7, <1>8, <1>9, TablesStep

(* The process is done, or gone: only the tables and the rows of progress  *)
(* are left.                                                               *)
LEMMA LeftAlone ==
  ASSUME IngestionAssumption, LateAssumption, Holds,
         UNCHANGED <<source_vars, raw, stage_vars, stored, outbox, patched>>, buffer' \in {buffer, <<>>},
         run' = Idle, merged' \in [Keys -> Nat], whole' \in BOOLEAN,
         \A k \in Keys : Arrived(k) => Arrived(k)'
  PROVE  Holds'
<1> USE DEF stage_vars, source_vars
<1>1. Shape'
  <2>1. buffer' \in Seq(Prog)
    <3>1. buffer \in Seq(Prog) /\ <<>> \in Seq(Prog) BY DEF Holds, Shape
    <3> QED BY <3>1
  <2> QED BY <2>1, IdleIs DEF Holds, Shape
<1>2. RunHolds' BY IdleIs DEF RunHolds
<1>3. HistoryHolds' BY DEF Holds, HistoryHolds
<1>4. ASSUME NEW p \in Rows' PROVE p \in Rows \/ p = Initially
  <2>1. \/ p = stored' \/ p = run'.last
        \/ (\E n \in DOMAIN outbox' : p = outbox'[n]) \/ (\E n \in DOMAIN buffer' : p = buffer'[n])
    BY <1>4 DEF Rows
  <2>2. DOMAIN <<>> = {} OBVIOUS
  <2>3. CASE \E n \in DOMAIN buffer' : p = buffer'[n]
    <3>1. buffer' = buffer BY <2>2, <2>3
    <3> QED BY <2>3, <3>1 DEF Rows
  <2> QED BY <2>1, <2>3, IdleIs DEF Rows
<1> QED BY <1>1, <1>2, <1>3, <1>4, IdleIs, TablesStep

(* The table that is filled from the history is the history's.             *)
LEMMA RebuiltStep ==
  ASSUME IngestionAssumption, LateAssumption, Holds, Rebuilt
  PROVE  Holds'
<1>1. /\ merged' = Upsert([k \in Keys |-> Absent], raw) /\ whole' = TRUE /\ run' = Idle
      /\ UNCHANGED <<source_vars, raw, patched, stage_vars, state_vars>>
  BY DEF Rebuilt
<1>2. merged' \in [Keys -> Nat]
  <2>1. [k \in Keys |-> Absent] \in [Keys -> Nat] /\ planned \in Nat BY DEF Absent, Holds, Shape
  <2>2. \A r \in raw : r.at \in Nat /\ r.at <= planned BY DEF Holds, HistoryHolds
  <2> QED BY <1>1, <2>1, <2>2, UpsertTyped
<1>3. ASSUME NEW k \in Keys, Arrived(k) PROVE Arrived(k)'
  <2>1. CASE k \in patched BY <1>1, <2>1 DEF Arrived
  <2>2. CASE InHistory(k)
    <3>1. InHistory(k)' BY <1>1, <2>2 DEF InHistory, source_vars
    <3>2. \A r \in raw : r.key = k => r.at \in Nat /\ r.at <= source[k] BY DEF Holds, HistoryHolds
    <3>3. source[k] \in Nat BY DEF Holds, Shape
    <3>4. Upsert([j \in Keys |-> Absent], raw)[k] = source[k]
      BY <2>2, <3>2, <3>3, UpsertNew DEF InHistory
    <3> QED BY <1>1, <3>1, <3>4, IdleIs DEF Arrived, Held, At, source_vars
  <2> QED BY <1>3, <2>1, <2>2 DEF Arrived
<1> QED BY <1>1, <1>2, <1>3, LeftAlone DEF state_vars

LEMMA RebuildEndsStep ==
  ASSUME IngestionAssumption, LateAssumption, Holds, RebuildFails \/ (Crash /\ At("rebuild"))
  PROVE  Holds'
<1>1. /\ At("rebuild") /\ run' = Idle /\ buffer' \in {buffer, <<>>}
      /\ UNCHANGED <<source_vars, raw, patched, stage_vars, stored, outbox>>
      /\ \/ merged' = run.backup /\ whole' = whole
         \/ merged' = merged /\ whole' = FALSE
  <2>1. CASE RebuildFails BY <2>1 DEF RebuildFails, state_vars
  <2>2. CASE Crash /\ At("rebuild") BY <2>2 DEF Crash
  <2> QED BY <2>1, <2>2
<1>2. merged' \in [Keys -> Nat] /\ whole' \in BOOLEAN
  BY <1>1 DEF Holds, Shape, RunState
<1>3. \A k \in Keys : Arrived(k) => Arrived(k)'
  BY <1>1, IdleIs DEF Arrived, InHistory, Held, At, source_vars
<1> QED BY <1>1, <1>2, <1>3, LeftAlone

-----------------------------------------------------------------------------
LEMMA NothingStirs == ASSUME Holds, UNCHANGED vars PROVE Holds'
<1>1. UNCHANGED <<table, now, source, planned, merged, raw, whole, patched, pending, landed, stored, outbox,
                  buffer, run>>
  BY DEF vars, source_vars, table_vars, stage_vars, state_vars
<1>2. Shape' BY <1>1 DEF Holds, Shape
<1>3. /\ \A k : Arrived(k)' <=> Arrived(k)
      /\ \A k : Changed(k)' <=> Changed(k)
      /\ \A s, k : Fixed(s, k)' <=> Fixed(s, k)
      /\ \A wm : EffectiveWatermark(wm)' = EffectiveWatermark(wm)
  BY <1>1 DEF Arrived, InHistory, Held, At, Changed, Fixed, EffectiveWatermark
<1>4. ProgressHolds' BY <1>1, <1>3 DEF Holds, ProgressHolds, Rows, Reached
<1>5. StagedHolds' BY <1>1, <1>3 DEF Holds, StagedHolds, RowOf
<1>6. LandedHolds' BY <1>1, <1>3 DEF Holds, LandedHolds
<1>7. HistoryHolds' BY <1>1 DEF Holds, HistoryHolds
<1>8. ActiveHolds' BY <1>1, <1>3 DEF Holds, ActiveHolds
<1>9. RunHolds' BY <1>1, <1>3 DEF Holds, RunHolds, ToCome, WasRead, RowOf
<1> QED BY <1>2, <1>4, <1>5, <1>6, <1>7, <1>8, <1>9 DEF Holds

LEMMA IngestionStep ==
  ASSUME IngestionAssumption, LateAssumption, IngestionInv, [Next]_vars
  PROVE  IngestionInv'
<1> SUFFICES ASSUME ~overran' PROVE Holds'
  BY DEF IngestionInv
<1>1. CASE UNCHANGED vars
  <2>1. Holds BY <1>1 DEF IngestionInv, vars, source_vars
  <2> QED BY <1>1, <2>1, NothingStirs
<1>2. CASE Plan
  <2>1. Holds BY <1>2 DEF IngestionInv, Plan
  <2> QED BY <2>1, <1>2, PlanStep
<1>3. CASE Next /\ ~Plan
  <2>1. overran' = overran
    BY <1>3 DEF Next, Step, Tick, Change, Start, PlanFails, StageSlice, MergeUpsert, AppendRaw, MarkLanded,
                RecordNothing, RecordProgress, Finish, Flush, Fail, Crash, ApplyPending, RebuildFromRaw,
                Rebuilt, RebuildFails, source_vars
  <2>2. Holds BY <2>1 DEF IngestionInv
  <2>3. CASE Tick BY <2>2, <2>3, TickStep
  <2>4. ASSUME NEW k \in Keys, Change(k) PROVE Holds' BY <2>2, <2>4, ChangeStep
  <2>5. ASSUME NEW reload \in BOOLEAN, Start(reload) PROVE Holds' BY <2>2, <2>5, StartStep
  <2>6. CASE PlanFails \/ Fail BY <2>2, <2>6, FailStep
  <2>7. CASE StageSlice BY <2>2, <2>7, StageStep
  <2>8. CASE MergeUpsert BY <2>2, <2>8, MergeStep
  <2>9. CASE AppendRaw BY <2>2, <2>9, AppendStep
  <2>10. CASE MarkLanded BY <2>2, <2>10, LandStep
  <2>11. CASE RecordNothing BY <2>2, <2>11, NothingStep
  <2>12. CASE RecordProgress BY <2>2, <2>12, RecordStep
  <2>13. CASE Finish BY <2>2, <2>13, FinishStep
  <2>14. CASE Flush BY <2>2, <2>14, FlushStep
  <2>15. CASE Crash BY <2>2, <2>15, CrashStep, RebuildEndsStep
  <2>16. CASE ApplyPending BY <2>2, <2>16, ApplyStep
  <2>17. CASE RebuildFromRaw BY <2>2, <2>17, RebuildStep
  <2>18. CASE Rebuilt BY <2>2, <2>18, RebuiltStep
  <2>19. CASE RebuildFails BY <2>2, <2>19, RebuildEndsStep
  <2> QED
    BY <1>3, <2>3, <2>4, <2>5, <2>6, <2>7, <2>8, <2>9, <2>10, <2>11, <2>12, <2>13, <2>14, <2>15, <2>16,
       <2>17, <2>18, <2>19 DEF Next, Step
<1> QED BY <1>1, <1>2, <1>3

(* Whatever the order of runs, crashes and failed writes, every row of     *)
(* progress that a start may find has reached no further than the tables,  *)
(* unless a slice was planned past the present.                            *)
THEOREM IngestionInvariant == Spec => []IngestionInv
<1>1. Init => IngestionInv BY IngestionAssumption, LateAssumption, InitHolds
<1>2. IngestionInv /\ [Next]_vars => IngestionInv'
  BY IngestionAssumption, LateAssumption, IngestionStep
<1> QED BY <1>1, <1>2, PTL DEF Spec

(* What the watermark in the table has passed has arrived.                 *)
LEMMA PassedHasArrived ==
  ASSUME IngestionInv, ~overran, NEW k \in Keys \ patched, source[k] # Absent, Covers(stored.wm, source[k])
  PROVE  InHistory(k) /\ (whole => Held(k) = source[k])
<1>1. Reached(stored) BY DEF IngestionInv, Holds, ProgressHolds, Rows
<1>2. Arrived(k) BY <1>1 DEF Reached, Covers
<1> QED BY <1>2 DEF Arrived

(* NothingSkipped: a row that no later increment will read again is in the *)
(* intermediate table as it is in the source (scd1, commit_increment).     *)
THEOREM NothingIsSkipped == Spec => []NothingSkipped
<1>1. IngestionInv => NothingSkipped BY PassedHasArrived DEF NothingSkipped, Held
<1> QED BY <1>1, IngestionInvariant, PTL

(* HistoryIsKept: and in the raw history, from which the table can be      *)
(* rebuilt.                                                                *)
THEOREM HistoryStays == Spec => []HistoryIsKept
<1>1. IngestionInv => HistoryIsKept BY PassedHasArrived DEF HistoryIsKept, InHistory
<1> QED BY <1>1, IngestionInvariant, PTL
=============================================================================
