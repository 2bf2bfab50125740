------------------------ MODULE IncrementalIngestion ------------------------
(***************************************************************************)
(* The ingestion platform copies a source table into an intermediate       *)
(* (Iceberg) table and a raw history, an increment at a time: the strategy *)
(* scd1, the planner that cuts an increment into slices, the staging       *)
(* directory, the sink that merges and appends, the state that remembers   *)
(* the watermark, and the maintenance commands;                            *)
(* platform/spark-ingestion/packages                                       *)
(*   ingestion-runtime: strategies.py, planning/adaptive.py,               *)
(*   runtime-common: state.py, staging.py, io/filesystem.py,               *)
(*     endpoints/hdfs/parquet.py and warehouse.py,                         *)
(*   runtime-orchestration: orchestrator.py.                               *)
(*                                                                         *)
(* A row is its key and the time of its last change (the incremental       *)
(* column); time 0 is before anything happened.  One table is followed;    *)
(* the tables that run beside it only share the buffer of the state, and   *)
(* show by the moments at which it is flushed.                             *)
(***************************************************************************)
EXTENDS Integers, Sequences, FiniteSets, SequencesExt

CONSTANTS
  Keys,         \* primary keys
  Tables,       \* configurations of the table: keys, those its rows may have; lag, how
                \* far an increment reaches back (lag_seconds); sliced (slicing.enabled);
                \* late: whether the source may still change a row in the tick in which an
                \* increment was planned; and anyDay: whether --load-date may name a day
                \* that is over
  DayLength,    \* ticks to a load_date
  MaxCount,     \* max_count: an increment of more rows is sliced
  Target,       \* target_rows_per_slice
  MaxParts,     \* max_partitions
  MaxTime,      \* bound: the last tick of the clock
  MaxFaults     \* bound: crashes, exceptions and failed writes, together

ASSUME IngestionAssumption ==
  /\ IsFiniteSet(Keys)
  /\ Tables \subseteq [keys : SUBSET Keys, lag : Nat, sliced : BOOLEAN, late : BOOLEAN, anyDay : BOOLEAN]
  /\ DayLength \in Nat \ {0}
  /\ MaxCount \in Nat /\ Target \in Nat \ {0} /\ MaxParts \in Nat \ {0}
  /\ MaxTime \in Nat /\ MaxFaults \in Nat

(* A row may be as new as the watermark and come after it: the lag has to  *)
(* reach it, and no slice that landed without it may be skipped.           *)
ASSUME LateAssumption == \A t \in Tables : t.late => t.lag > 0 /\ ~t.sliced

VARIABLES
  table,                   \* the configuration
  now, source, planned,    \* the clock, when each key was last changed in the source, and
                           \* when the last increment was planned
  merged, raw,             \* the intermediate table, and the raw history
  pending, landed,         \* staged slices without, and with, the marker _LANDED
  stored, outbox, buffer,  \* the watermark table; the files of the outbox; rows not flushed
  run,                     \* the process: its step and what it holds in memory
  faults,
  whole, patched,          \* histories: no rebuild was broken off; the keys that maintenance
                           \* has merged from old slices and no run has brought since; and
  overran                  \* whether a slice was planned that reaches past the present
source_vars == <<table, now, source, planned, overran>>
table_vars == <<merged, raw, whole, patched>>
stage_vars == <<pending, landed>>
state_vars == <<stored, outbox, buffer>>
vars == <<source_vars, table_vars, stage_vars, state_vars, run, faults>>

Absent == 0
Times == 0..MaxTime
DayOf(t) == t \div DayLength

(* A progress row.  Unread is what str(None) leaves in it: a text that is  *)
(* not a watermark.                                                        *)
Unread == -1
Progress == [wm : Times \cup {Unread}, day : Nat \cup {Unread}]
Initially == [wm |-> 0, day |-> 0]

Idle == [pc |-> "idle", day |-> 0, last |-> Initially, eff |-> 0, todo |-> <<>>, active |-> {},
         backup |-> [k \in Keys |-> Absent]]

Init ==
  /\ table \in Tables /\ now = 1 /\ planned = 0 /\ source = [k \in Keys |-> Absent]
  /\ merged = [k \in Keys |-> Absent] /\ raw = {}
  /\ pending = {} /\ landed = {}
  /\ stored = Initially /\ outbox = <<>> /\ buffer = <<>>
  /\ run = Idle /\ faults = 0
  /\ whole = TRUE /\ patched = {} /\ overran = FALSE

Fault == faults < MaxFaults /\ faults' = faults + 1
NoFault == faults' = faults
At(step) == run.pc = step

-----------------------------------------------------------------------------
(* The source.                                                             *)

Tick ==
  /\ now < MaxTime
  /\ now' = now + 1
  /\ UNCHANGED <<table, source, planned, overran, table_vars, stage_vars, state_vars, run, faults>>

Change(k) ==
  /\ k \in table.keys
  /\ planned < now \/ table.late
  /\ source' = [source EXCEPT ![k] = now]
  /\ UNCHANGED <<table, now, planned, overran, table_vars, stage_vars, state_vars, run, faults>>

(* The rows of a slice as JDBC reads them: after lo, up to hi.             *)
Between(lo, hi) == {[key |-> k, at |-> source[k]] : k \in {j \in Keys : lo < source[j] /\ source[j] <= hi}}

-----------------------------------------------------------------------------
(* The state: rows of progress go to the outbox and to a buffer, the       *)
(* buffer to the watermark table.                                          *)

(* Writing the buffer: it is mirrored into the outbox, written, and the    *)
(* mirror is deleted.  A failure leaves the batch in the buffer; after the *)
(* write it leaves it in the table as well.                                *)
WriteBuffer ==
  \/ /\ NoFault
     /\ stored' = IF buffer = <<>> THEN stored ELSE Last(buffer)
     /\ buffer' = <<>>
     /\ outbox' = outbox
  \/ /\ buffer # <<>> /\ Fault
     /\ buffer' = buffer
     /\ \/ outbox' = outbox /\ stored' = stored
        \/ outbox' = outbox \o buffer /\ stored' \in {stored, Last(buffer)}

(* maybe_flush_by_age, and a flush for the size of the buffer.             *)
Flush ==
  /\ ~At("idle") /\ ~At("rebuild") /\ buffer # <<>>
  /\ WriteBuffer
  /\ UNCHANGED <<source_vars, table_vars, stage_vars, run>>

(* The files of the outbox are written to the table in the order of their  *)
(* names and deleted; the file of an exception stays for the next start,   *)
(* and may have been written.                                              *)
RestoreAll ==
  \/ /\ NoFault
     /\ stored' = IF outbox = <<>> THEN stored ELSE Last(outbox)
     /\ outbox' = <<>>
  \/ /\ Fault
     /\ \E n \in DOMAIN outbox :
          /\ outbox' = <<outbox[n]>>
          /\ \/ stored' = Last(outbox)
             \/ n = Len(outbox) /\ stored' = IF n = 1 THEN stored ELSE outbox[n - 1]

(* set_progress: the outbox's failure is swallowed.                        *)
SetProgress(p) ==
  /\ buffer' = Append(buffer, p)
  /\ \/ outbox' = Append(outbox, p) /\ NoFault
     \/ outbox' = outbox /\ Fault
  /\ stored' = stored

-----------------------------------------------------------------------------
(* A run.                                                                  *)

(* The process restores the outbox, preloads the last watermark and, with  *)
(* --reload, sets it aside.                                                *)
Start(reload) ==
  /\ At("idle")
  /\ RestoreAll
  /\ \E day \in IF table.anyDay THEN 0..DayOf(now) ELSE {DayOf(now)} :
       run' = [Idle EXCEPT !.pc = "plan", !.day = day,
                           !.last = IF reload THEN Initially ELSE stored']
  /\ UNCHANGED <<source_vars, table_vars, stage_vars, buffer>>

Larger(a, b) == IF a < b THEN b ELSE a
Smaller(a, b) == IF a < b THEN a ELSE b

Parts(rows) ==
  IF ~table.sliced \/ rows <= MaxCount THEN 1
  ELSE Smaller(MaxParts, Larger(2, (rows + Target - 1) \div Target))

(* Epoch bounds: of many parts of a short span the inner ones lie past hi. *)
Slices(lo, hi, parts) ==
  LET step == Larger(1, (hi - lo) \div parts)
      Bound(i) == IF i = parts THEN hi ELSE lo + i * step
  IN [i \in 1..parts |-> [lo |-> Bound(i - 1), hi |-> Bound(i)]]

UnlaggedWatermark(wm) == wm               \* mutant
EffectiveWatermark(wm) == Larger(wm - table.lag, 0)

Plan ==
  /\ At("plan") /\ run.last.wm # Unread
  /\ LET eff == EffectiveWatermark(run.last.wm)
         slices == Slices(eff, now, Parts(Cardinality(Between(eff, now))))
     IN /\ run' = [run EXCEPT !.pc = "stage", !.eff = eff, !.todo = slices]
        /\ overran' = (overran \/ \E i \in DOMAIN slices : slices[i].hi > now)
  /\ planned' = now
  /\ UNCHANGED <<table, now, source, table_vars, stage_vars, state_vars, faults>>

PlanFailsAtFirst ==  \* mutant: a table that has no watermark yet has no default
  /\ At("plan") /\ run.last.wm \in {Unread, Initially.wm}
  /\ run' = [run EXCEPT !.pc = "finish"]
  /\ UNCHANGED <<source_vars, table_vars, stage_vars, state_vars, faults>>

(* A text that is not a watermark has no literal: the table fails.         *)
PlanFails ==
  /\ At("plan") /\ run.last.wm = Unread
  /\ run' = [run EXCEPT !.pc = "finish"]
  /\ UNCHANGED <<source_vars, table_vars, stage_vars, state_vars, faults>>

(* A slice that has landed is skipped; any other is written over what an   *)
(* earlier run has staged of it.                                           *)
Dir(s) == [lo |-> s.lo, hi |-> s.hi]

StageSlice ==
  /\ At("stage") /\ run.todo # <<>>
  /\ LET s == Head(run.todo)
         staged == [lo |-> s.lo, hi |-> s.hi, rows |-> Between(s.lo, s.hi)]
     IN IF s \in landed
        THEN pending' = pending /\ run' = [run EXCEPT !.todo = Tail(@)]
        ELSE /\ pending' = {p \in pending : Dir(p) # s} \cup {staged}
             /\ run' = [run EXCEPT !.todo = Tail(@), !.active = @ \cup {staged}]
  /\ UNCHANGED <<source_vars, table_vars, landed, state_vars, faults>>

Window(slices) == UNION {s.rows : s \in slices}

(* dedup and MERGE INTO: of the rows of a key the latest, whatever the     *)
(* table holds.                                                            *)
Upsert(old, rows) ==
  [k \in Keys |-> LET found == {r.at : r \in {q \in rows : q.key = k}}
                  IN IF found = {} THEN old[k] ELSE CHOOSE t \in found : \A u \in found : u <= t]

MergeUpsert ==
  /\ At("stage") /\ run.todo = <<>> /\ Window(run.active) # {}
  /\ merged' = Upsert(merged, Window(run.active))
  /\ run' = [run EXCEPT !.pc = "append"]
  /\ UNCHANGED <<source_vars, raw, whole, patched, stage_vars, state_vars, faults>>

OverwriteRaw ==  \* mutant: mode overwrite, of the day's partition
  /\ At("append")
  /\ raw' = {r \in raw : r.day # run.day}
            \cup {[key |-> r.key, at |-> r.at, day |-> run.day] : r \in Window(run.active)}
  /\ patched' = patched \ {r.key : r \in Window(run.active)}
  /\ run' = [run EXCEPT !.pc = "land"]
  /\ UNCHANGED <<source_vars, merged, whole, stage_vars, state_vars, faults>>

AppendRaw ==
  /\ At("append")
  /\ raw' = raw \cup {[key |-> r.key, at |-> r.at, day |-> run.day] : r \in Window(run.active)}
  /\ patched' = patched \ {r.key : r \in Window(run.active)}
  /\ run' = [run EXCEPT !.pc = "land"]
  /\ UNCHANGED <<source_vars, merged, whole, stage_vars, state_vars, faults>>

Land(s) ==
  /\ pending' = pending \ {s}
  /\ landed' = landed \cup {Dir(s)}

MarkLanded ==
  /\ \/ At("land")
     \/ At("stage") /\ run.todo = <<>> /\ Window(run.active) = {}
  /\ \E s \in run.active \cap pending : Land(s)
  /\ UNCHANGED <<source_vars, table_vars, state_vars, run, faults>>

(* Nothing was staged, or nothing but empty slices: the watermark stays.   *)
RecordNothing ==
  /\ At("stage") /\ run.todo = <<>> /\ Window(run.active) = {} /\ run.active \cap pending = {}
  /\ SetProgress(run.last)
  /\ run' = [run EXCEPT !.pc = "finish"]
  /\ UNCHANGED <<source_vars, table_vars, stage_vars>>

(* The new watermark is the latest row of the raw history since the last   *)
(* load_date and after the watermark the increment began at.               *)
IsLatest(t, times) == t \in times /\ \A u \in times : u <= t
Increment == {r \in raw : r.day >= run.last.day /\ r.at > run.eff}
NewProgress(p) ==
  IF Increment = {} THEN p = [wm |-> Unread, day |-> Unread]
  ELSE IsLatest(p.wm, {r.at : r \in Increment}) /\ IsLatest(p.day, {r.day : r \in Increment})

RecordProgress ==
  /\ At("land") /\ run.active \cap pending = {}
  /\ \E p \in [wm : Times \cup {Unread}, day : 0..DayOf(now) \cup {Unread}] :
       NewProgress(p) /\ SetProgress(p)
  /\ run' = [run EXCEPT !.pc = "finish"]
  /\ UNCHANGED <<source_vars, table_vars, stage_vars>>

(* The last flush; a batch that it fails to write is gone with the         *)
(* process.  ttl_cleanup then removes landed slices that are old.          *)
Finish ==
  /\ At("finish")
  /\ \/ /\ NoFault
        /\ stored' = IF buffer = <<>> THEN stored ELSE Last(buffer)
        /\ outbox' = outbox
     \/ /\ buffer # <<>> /\ Fault
        /\ \/ outbox' = outbox /\ stored' = stored
           \/ outbox' = outbox \o buffer /\ stored' \in {stored, Last(buffer)}
  /\ buffer' = <<>>
  /\ run' = Idle
  /\ landed' = {s \in landed : DayOf(now) <= DayOf(s.hi)}
  /\ UNCHANGED <<source_vars, table_vars, pending>>

(* An exception of the strategy ends the table, not the process.           *)
Fail ==
  /\ run.pc \in {"plan", "stage", "append", "land"}
  /\ Fault
  /\ run' = [run EXCEPT !.pc = "finish"]
  /\ UNCHANGED <<source_vars, table_vars, stage_vars, state_vars>>

Crash ==
  /\ ~At("idle") /\ Fault
  /\ run' = Idle
  /\ buffer' = <<>>
  /\ whole' = (whole /\ ~At("rebuild"))
  /\ UNCHANGED <<source_vars, merged, raw, patched, stage_vars, stored, outbox>>

-----------------------------------------------------------------------------
(* Maintenance: --maintenance-mode apply and rebuild-from-raw.             *)

(* Slices that were staged and never landed are merged, however old they   *)
(* are.  The raw history does not get them.                                *)
ApplyPending ==
  /\ At("idle") /\ pending # {}
  /\ merged' = Upsert(merged, Window(pending))
  /\ patched' = patched \cup {r.key : r \in Window(pending)}
  /\ \/ /\ landed' = landed \cup {Dir(s) : s \in pending}
        /\ pending' = {} /\ NoFault
     \/ UNCHANGED stage_vars /\ Fault
  /\ UNCHANGED <<source_vars, raw, whole, state_vars, run>>

(* The table is renamed to a backup, a new one is filled from the raw      *)
(* history and the backup is dropped.                                      *)
RebuildFromRaw ==
  /\ At("idle") /\ raw # {}
  /\ merged' = [k \in Keys |-> Absent]
  /\ run' = [run EXCEPT !.pc = "rebuild", !.backup = merged]
  /\ UNCHANGED <<source_vars, raw, whole, patched, stage_vars, state_vars, faults>>

Rebuilt ==
  /\ At("rebuild")
  /\ merged' = Upsert([k \in Keys |-> Absent], raw)
  /\ whole' = TRUE
  /\ run' = Idle
  /\ UNCHANGED <<source_vars, raw, patched, stage_vars, state_vars, faults>>

(* The backup is renamed back, which fails once the new table was created. *)
RebuildFails ==
  /\ At("rebuild") /\ Fault
  /\ \/ merged' = run.backup /\ whole' = whole
     \/ merged' = merged /\ whole' = FALSE
  /\ run' = Idle
  /\ UNCHANGED <<source_vars, raw, patched, stage_vars, state_vars>>

-----------------------------------------------------------------------------
Step == Plan \/ PlanFails \/ StageSlice \/ MergeUpsert \/ AppendRaw \/ MarkLanded
        \/ RecordNothing \/ RecordProgress \/ Finish
Next ==
  \/ Tick \/ \E k \in Keys : Change(k)
  \/ \E reload \in BOOLEAN : Start(reload)
  \/ Step \/ Flush \/ Fail \/ Crash
  \/ ApplyPending \/ RebuildFromRaw \/ Rebuilt \/ RebuildFails

Spec == Init /\ [][Next]_vars

(* Time passes, the scheduler starts the job again and again, and a job    *)
(* that runs goes on.                                                      *)
FairSpec == Spec /\ WF_vars(Tick) /\ SF_vars(\E reload \in BOOLEAN : Start(reload)) /\ WF_vars(Step) /\ WF_vars(Rebuilt)

-----------------------------------------------------------------------------
Covers(wm, t) == wm # Unread /\ t <= EffectiveWatermark(wm)

(* A row that no later increment will read again, because the watermark    *)
(* has passed it, is in the intermediate table as it is in the source;     *)
(* unless a rebuild was broken off, maintenance merged an old slice, or a  *)
(* slice was planned past the present.                                     *)
NothingSkipped ==
  whole /\ ~At("rebuild") /\ ~overran => \A k \in Keys \ patched :
    source[k] # Absent /\ Covers(stored.wm, source[k]) => merged[k] = source[k]

(* It is in the raw history, from which the table can be rebuilt.          *)
HistoryIsKept ==
  ~overran => \A k \in Keys \ patched : source[k] # Absent /\ Covers(stored.wm, source[k]) =>
    \E r \in raw : r.key = k /\ r.at = source[k]

(* Every change of the source reaches the intermediate table: unless a     *)
(* rebuild is broken off, maintenance merges an old slice of the row, a    *)
(* slice was planned past the present, or the watermark cannot be read.    *)
ChangesArrive ==
  \A k \in Keys : \A t \in 1..(MaxTime - 1) :
    source[k] = t ~> (merged[k] >= t \/ source[k] > t \/ ~whole \/ k \in patched
                  \/ overran \/ stored.wm = Unread)
=============================================================================
