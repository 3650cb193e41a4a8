------------------------------ MODULE Sweeper ------------------------------
(***************************************************************************)
(* internal/store/sweeper.go: the goroutine that deletes lapsed uploads.   *)
(*                                                                         *)
(* One pass at boot, then one per tick of a ticker whose period is MinTTL. *)
(* A pass works through a snapshot of the lapsed rows, one DELETE and one  *)
(* unlink at a time, while handlers run.                                   *)
(***************************************************************************)
EXTENDS Store

CONSTANT QueriesFail  \* FALSE: the query for lapsed rows always succeeds

ASSUME QueriesMayFail == QueriesFail \in BOOLEAN

VARIABLES
  sweep,     \* "off", "waiting" for the ticker, on "rows", or on a "file"
  due,       \* the ticker's next tick; 0 until the pass at boot has made it
  queue,     \* what is left of the pass's snapshot
  sweeping   \* the snapshot entry whose row was deleted last, or NoRow

sweeperVars == <<sweep, due, queue, sweeping>>

\* One *Upload of ListExpired's result.
Entry == [slug: Slugs, row: Row]

SweeperTypeOK ==
  /\ sweep \in {"off", "waiting", "rows", "file"}
  /\ due \in 0..MaxNow
  /\ queue \subseteq Entry
  /\ sweeping \in Entry \cup {NoRow}

SweeperInit == sweep = "off" /\ due = 0 /\ queue = {} /\ sweeping = NoRow

\* Mutant: a row that expires this instant is left to nobody.
ListExpiredLate ==
  LET lapsed == {s \in Slugs : rows[s] # NoRow /\ Expiry(rows[s]) < now}
  IN {[slug |-> s, row |-> rows[s]] : s \in lapsed}

\* Mutant: the next pass's rows are taken along.
ListExpiredEarly ==
  LET lapsed == {s \in Slugs : rows[s] # NoRow /\ Expiry(rows[s]) <= now + 1}
  IN {[slug |-> s, row |-> rows[s]] : s \in lapsed}

ListExpired ==
  LET lapsed == {s \in Slugs : rows[s] # NoRow /\ Lapsed(rows[s])}
  IN {[slug |-> s, row |-> rows[s]] : s \in lapsed}

(***************************************************************************)
(* The ticker sends a tick every MinTTL and drops those nobody is there to *)
(* take, so the tick after one that was taken late keeps to the schedule.  *)
(* The last instant stands for all the later ones, and a tick that would   *)
(* come after it comes then.                                               *)
(***************************************************************************)
InTime(t) == IF t <= MaxNow THEN t ELSE MaxNow

NextTicks == {InTime(t) : t \in {u \in (now + 1)..(now + MinTTL) : (u - due) % MinTTL = 0}}

\* The pass at boot waits for no tick: the ticker is made after it.
TakeTick ==
  \/ due = 0 /\ UNCHANGED due
  \/ due # 0 /\ due <= now /\ due' \in NextTicks

\* A pass is over.
AwaitTick ==
  /\ sweep' = "waiting"
  /\ due' = IF due = 0 THEN InTime(now + MinTTL) ELSE due

BeginSweep ==
  /\ sweep = "waiting" /\ TakeTick
  /\ ListExpired # {}
  /\ queue' = ListExpired
  /\ sweep' = "rows"
  /\ UNCHANGED <<storeVars, sweeping>>

\* Nothing has lapsed, or the query failed: the pass ends where it began.
\* (With nothing lapsed a failed query makes no difference.)
SkipSweep ==
  /\ sweep = "waiting"
  /\ \/ ListExpired = {} /\ UNCHANGED faults
     \/ ListExpired # {} /\ QueriesFail /\ Fault
  /\ \/ due = 0 /\ AwaitTick
     \/ due # 0 /\ TakeTick /\ UNCHANGED sweep
  /\ UNCHANGED <<rows, files, now, queue, sweeping>>

\* ORDER BY expiry
IsNext(i) == i \in queue /\ \A j \in queue : Expiry(i.row) <= Expiry(j.row)

\* Go on with the rest of the snapshot, or wait for the next tick.
NextRow(rest) ==
  /\ queue' = rest
  /\ \/ rest = {} /\ AwaitTick
     \/ rest # {} /\ sweep' = "rows" /\ UNCHANGED due

\* DELETE by slug alone: the row may not be the one the snapshot holds.
SweepRow ==
  /\ sweep = "rows"
  /\ \E i \in queue :
       /\ IsNext(i)
       /\ rows[i.slug] # NoRow
       /\ DeleteRow(i.slug)
       /\ queue' = queue \ {i}
       /\ sweeping' = i
  /\ sweep' = "file"
  /\ UNCHANGED <<files, now, faults, due>>

\* The row is already gone, or the DELETE failed: on to the next row.
SkipRow ==
  /\ sweep = "rows"
  /\ \E i \in queue :
       /\ IsNext(i)
       /\ \/ rows[i.slug] = NoRow /\ UNCHANGED faults
          \/ Fault
       /\ NextRow(queue \ {i})
  /\ UNCHANGED <<rows, files, now, sweeping>>

SweepFile ==
  /\ sweep = "file"
  /\ TryRemove(DiskName(sweeping.slug, sweeping.row.ext))
  /\ sweeping' = NoRow
  /\ NextRow(queue)
  /\ UNCHANGED <<rows, now>>

Sweep == BeginSweep \/ SkipSweep \/ SweepRow \/ SkipRow \/ SweepFile

\* Mutant: the pass is left between a row and its file.
StopSweeperAnywhere ==
  /\ sweep # "off"
  /\ sweep' = "off" /\ due' = 0
  /\ queue' = {}
  /\ UNCHANGED <<storeVars, sweeping>>

\* Mutant: sweepOnce returns, but the ticker loop does not.
StopSweeperReturns ==
  /\ sweep \in {"waiting", "rows"}
  /\ sweep' = "waiting"
  /\ queue' = {}
  /\ UNCHANGED <<storeVars, due, sweeping>>

\* The context ended: seen by the ticker loop, or between two rows.
StopSweeper ==
  /\ sweep \in {"waiting", "rows"}
  /\ sweep' = "off" /\ due' = 0
  /\ queue' = {}
  /\ UNCHANGED <<storeVars, sweeping>>
=============================================================================
