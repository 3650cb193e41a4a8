------------------------------ MODULE KShared ------------------------------
(***************************************************************************)
(* The kshared server: the request handlers, the sweeper and the life of   *)
(* the process over one data directory, through crashes and restarts.      *)
(*                                                                         *)
(* A crash is a kill of the process: the table and the directory are as    *)
(* the last completed call left them.  (Power loss, after which WAL with   *)
(* synchronous=NORMAL may forget the last commits, is not modelled.)       *)
(***************************************************************************)
EXTENDS Handlers, Sweeper, Boot

CONSTANTS
  MaxCrashes,  \* bound: kills in one behaviour
  MaxStops     \* bound: SIGTERMs in one behaviour

ASSUME LifeLimits == MaxCrashes \in Nat /\ MaxStops \in Nat

VARIABLES crashes, stops

lifeVars == <<crashes, stops>>

vars == <<storeVars, requestVars, sweeperVars, bootVars, lifeVars>>

TypeOK ==
  /\ StoreTypeOK /\ HandlersTypeOK /\ SweeperTypeOK /\ BootTypeOK
  /\ crashes \in 0..MaxCrashes /\ stops \in 0..MaxStops

Init ==
  /\ StoreInit /\ HandlersInit /\ SweeperInit /\ BootInit
  /\ crashes = 0 /\ stops = 0

-----------------------------------------------------------------------------
\* The sweeper's pass at boot, which a stalled call may stretch like any other.
FirstPass == due = 0 /\ sweep \in {"rows", "file"}

Clock ==
  /\ Tick /\ KeepsPace
  /\ Stalls \/ ~FirstPass
  /\ UNCHANGED <<requestVars, sweeperVars, bootVars, lifeVars>>

Boot ==
  /\ Start \/ Repair
  /\ UNCHANGED <<requestVars, sweeperVars, lifeVars>>

\* Mutant: the sweeper waits for the ticker first.
ListenWaits ==
  /\ EndPass("rows", DanglingRows, "serving")
  /\ sweep' = "waiting" /\ due' = InTime(now + MinTTL)
  /\ UNCHANGED <<queue, sweeping, requestVars, lifeVars>>

\* The last pass ends; the sweeper's goroutine and the listener start.
Listen ==
  /\ EndPass("rows", DanglingRows, "serving")
  /\ sweep' = "waiting" /\ due' = 0
  /\ UNCHANGED <<queue, sweeping, requestVars, lifeVars>>

\* The listener accepts connections until a signal arrives.
Accept(r) ==
  /\ phase = "serving"
  /\ Arrive(r)
  /\ UNCHANGED <<sweeperVars, bootVars, lifeVars>>

\* Handlers run on until they answer or the process ends.
Handle(r) ==
  /\ Advance(r)
  /\ UNCHANGED <<sweeperVars, bootVars, lifeVars>>

LoseClient(r) ==
  /\ HangUp(r)
  /\ UNCHANGED <<sweeperVars, bootVars, lifeVars>>

\* Its context lives until the listener has drained.
RunSweeper ==
  /\ \/ phase \in {"serving", "draining"} /\ Sweep
     \/ phase = "stopping" /\ (SweepFile \/ StopSweeper)
  /\ UNCHANGED <<requestVars, bootVars, lifeVars>>

-----------------------------------------------------------------------------
\* SIGTERM or SIGINT: stop accepting.
Terminate ==
  /\ phase = "serving" /\ stops < MaxStops
  /\ phase' = "draining"
  /\ stops' = stops + 1
  /\ UNCHANGED <<skipped, crashes, storeVars, requestVars, sweeperVars>>

(***************************************************************************)
(* Shutdown waits for every connection, but TimeoutHandler has answered    *)
(* for a request whose context ended: its handler still runs, and nothing  *)
(* waits for it.                                                           *)
(***************************************************************************)
Drained ==
  /\ phase = "draining"
  /\ \A r \in Requests : InFlight(r) => r \in cancelled
  /\ phase' = "stopping"
  /\ UNCHANGED <<skipped, lifeVars, storeVars, requestVars, sweeperVars>>

\* The process is gone and every goroutine with it.
ProcessEnds ==
  /\ phase' = "down"
  /\ pc' = [r \in Requests |-> IF InFlight(r) THEN "lost" ELSE pc[r]]
  /\ sweep' = "off" /\ due' = 0 /\ queue' = {} /\ sweeping' = NoRow
  /\ UNCHANGED <<skipped, storeVars, heldVars, shownVars>>

Exit ==
  /\ phase = "stopping" /\ sweep = "off"
  /\ ProcessEnds
  /\ UNCHANGED lifeVars

(***************************************************************************)
(* A kill at any point.  It stands as well for the exits main takes with   *)
(* requests in flight: a listener error, a Shutdown that ran out of its    *)
(* 30 seconds, a sweeper that did not stop within 10.                      *)
(***************************************************************************)
Crash ==
  /\ phase # "down" /\ crashes < MaxCrashes
  /\ crashes' = crashes + 1
  /\ ProcessEnds
  /\ UNCHANGED stops

\* Nothing in hand: the process waits for a request, a tick or a signal.
Idle ==
  /\ phase = "serving" /\ sweep = "waiting" /\ ListExpired = {}
  /\ \A r \in Requests : ~InFlight(r)
  /\ UNCHANGED vars

Next ==
  \/ Clock \/ Boot \/ Listen
  \/ \E r \in Requests : Accept(r) \/ Handle(r) \/ LoseClient(r)
  \/ RunSweeper
  \/ Terminate \/ Drained \/ Exit \/ Crash \/ Idle

Spec == Init /\ [][Next]_vars

-----------------------------------------------------------------------------
(* The promise about links, read off this state: a link shows the body its *)
(* row describes, has shown those of the rows ever committed for it, and   *)
(* is retired when it had a row and has none.                              *)

Shown(s) == {b \in committed : target[b] = s}

LinksNow ==
  [s \in Slugs |->
     IF rows[s] # NoRow THEN rows[s].body
     ELSE IF Shown(s) = {} THEN NoSlug ELSE NoRow]

LinksPast == [s \in Slugs |-> Shown(s)]

Answers ==
  [g \in Gets |-> IF got[g] = NoFile THEN NoFile ELSE <<target[g], got[g].body>>]

Registry ==
  INSTANCE LinkRegistry WITH
    Links <- Slugs,
    Bodies <- Senders,
    Readers <- Gets,
    Unpublished <- NoSlug,
    Retired <- NoRow,
    Nothing <- NoFile,
    link <- LinksNow,
    past <- LinksPast,
    served <- Answers

\* The server implements LinkRegistry, whatever fails or crashes: no slug is
\* published again after its row is gone, no body twice, and no reader gets
\* a body that was never committed for the link it asked for.
KeepsPromise == Registry!Spec

-----------------------------------------------------------------------------
(* Safety.                                                                 *)

\* No replace and no delete was ever let through to this slug.
Untouched(s) == \A q \in Replaces \cup Deletes : target[q] # s

(***************************************************************************)
(* An upload that was answered with its link keeps it until it lapses,     *)
(* with its row and its bytes as sent, if nobody replaces or deletes it:   *)
(* no other upload, sweep, crash, failed call or boot pass takes either.   *)
(* The extension ".partial" is excepted: see ReapSparesLinks.              *)
(***************************************************************************)
DurableUpload ==
  \A r \in Uploads :
    (/\ pc[r] = "done"
     /\ Untouched(target[r])
     /\ ~Lapsed(mine[r])
     /\ mine[r].ext # PartialExt)
    => /\ rows[target[r]] = mine[r]
       /\ LET f == files[DiskName(target[r], mine[r].ext)] IN
            f # NoFile /\ f.body = r /\ f.whole

(***************************************************************************)
(* An upload answered with an error has left no row behind: a row without  *)
(* an owner needs two failed storage calls, or a client that was gone when *)
(* the roll-back ran.                                                      *)
(***************************************************************************)
FailedUploadUndone ==
  \A r \in Uploads :
    (pc[r] = "failed" /\ r \notin cancelled /\ faults < 2)
      => \A s \in Slugs : rows[s] # NoRow => rows[s].body # r

(***************************************************************************)
(* A request that has been answered has left no scratch file, whichever    *)
(* way it went: all slugs taken, a body cut short, a row gone in the       *)
(* meantime, a client that hung up.  It takes a failed storage call, or    *)
(* the end of the process, to leave one for a boot to reap.                *)
(***************************************************************************)
AnsweredLeavesNoScratch ==
  faults = 0 =>
    \A q \in Senders : pc[q] \in Answered => files[PartialName(q)] = NoFile

(***************************************************************************)
(* What GET /s/{slug} sends is a complete body that was sent to that very  *)
(* slug, whatever replaces, crashes and scratch files were about; and the  *)
(* one its uploader sent, if no replace was let through to the slug.       *)
(***************************************************************************)
ServedFaithful ==
  \A g \in Gets : pc[g] = "done" =>
    /\ got[g].whole
    /\ target[got[g].body] = target[g]
    /\ (\A q \in Replaces : target[q] # target[g]) => got[g].body = seen[g].body

\* Requests that write to a slug and are not over, or ended half-way.
Unsettled(s) ==
  \E q \in Senders \cup Deletes :
    /\ target[q] = s
    /\ InFlight(q) \/ pc[q] = "lost"

(***************************************************************************)
(* While storage calls succeed, the row of a slug nobody is writing to     *)
(* names the file that holds the very bytes the row describes: replace and *)
(* delete leave no row without its file and no size, name or type that is  *)
(* another body's.  Replaces of a slug must take turns for it: see         *)
(* ReplacedLinkOpens.                                                      *)
(***************************************************************************)
RowDescribesFile ==
  faults = 0 =>
    \A s \in Slugs : rows[s] # NoRow /\ ~Unsettled(s) =>
      LET f == files[DiskName(s, rows[s].ext)] IN
        rows[s].ext # PartialExt => f # NoFile /\ f.body = rows[s].body

\* Every row has its file, and every file but scratch files has its row.
RowHasFile(s) == rows[s] # NoRow => files[DiskName(s, rows[s].ext)] # NoFile

FilesHaveRow(s) ==
  \A e \in Exts \ {PartialExt} :
    files[DiskName(s, e)] # NoFile => rows[s] # NoRow /\ rows[s].ext = e

Consistent == \A s \in Slugs : RowHasFile(s) /\ FilesHaveRow(s)

(***************************************************************************)
(* A boot whose passes met no error hands a consistent directory to the    *)
(* listener, whatever the last process was doing when it died.             *)
(***************************************************************************)
BootRepairs ==
  [][phase = "rows" /\ phase' = "serving" /\ ~skipped'
       => Consistent']_vars

\* A replace of this slug renewed a row that had lapsed while its body came in.
Outlived(s) == \E q \in Replaces \cap committed : target[q] = s /\ ~StampedInTime(q)

(***************************************************************************)
(* If writers take turns, storage calls are fast and succeed, and nobody   *)
(* died or hung up, a shutdown that drained leaves every row with its file *)
(* and no scratch file; and no file without its row, no torn               *)
(* DELETE-then-unlink, except under a slug whose row lapsed while the body *)
(* of a replace was on the way: the sweeper may take the renewed row by a  *)
(* stale snapshot and the old extension, and the new file stays.           *)
(***************************************************************************)
CleanStop ==
  [][(/\ ~Overlap /\ ~Stalls
      /\ phase = "stopping" /\ phase' = "down"
      /\ crashes' = 0 /\ faults = 0 /\ cancelled = {})
     => /\ \A s \in Slugs : RowHasFile(s)' /\ (~Outlived(s) => FilesHaveRow(s)')
        /\ \A r \in Senders : files'[PartialName(r)] = NoFile]_vars

(***************************************************************************)
(* A lapsed row is in the table for less than one period of the sweeper,   *)
(* whatever its stamp was against the ticker's and however long the        *)
(* process was down: once a pass is over and until the next one is due.    *)
(* Stalled calls are excepted: one may write a row that has lapsed, or     *)
(* stretch the pass at boot, from whose end the ticker counts.             *)
(***************************************************************************)
SweptOnTime ==
  (faults = 0 /\ sweep = "waiting" /\ now < due)
    => \A s \in Slugs : rows[s] # NoRow => now < Expiry(rows[s]) + MinTTL

-----------------------------------------------------------------------------
(* Liveness.                                                               *)

(***************************************************************************)
(* A handler's next call returns: storage calls end, and a body that       *)
(* trickles in is cut off by TimeoutHandler.  Time passes, the sweeper's    *)
(* goroutine is scheduled and its ticker fires; a boot gets through its    *)
(* passes; main is scheduled.  Requests, signals, hang-ups, crashes and    *)
(* starts of the process are up to the environment and owe nothing.        *)
(***************************************************************************)
Fairness ==
  /\ \A r \in Requests : WF_vars(Handle(r))
  /\ WF_vars(RunSweeper)
  /\ WF_vars(Repair /\ UNCHANGED <<requestVars, sweeperVars, lifeVars>>)
  /\ WF_vars(Listen) /\ WF_vars(Drained) /\ WF_vars(Exit)
  /\ WF_vars(Clock)

FairSpec == Spec /\ Fairness

\* Somebody starts the process whenever it is down.
StaysUp == <>[](phase # "down")

\* Every request that was let in is answered, or dies with the process: no
\* failed call, hang-up or shutdown leaves a handler at a step it cannot leave.
AllAnswered == \A r \in Requests : InFlight(r) ~> (pc[r] \in Answered \cup {"lost"})

\* If the process is left running, a lapsed row is deleted in the end, or a
\* replace renews it: a DELETE that failed is tried again by a later pass.
LapsedRowGoes ==
  StaysUp => \A s \in Slugs :
    (rows[s] # NoRow /\ Lapsed(rows[s])) ~> (rows[s] = NoRow \/ ~Lapsed(rows[s]))

\* Nobody writes to a link behind another's back: a row outlives the time from
\* its INSERT or UPDATE to the rename of its file, and a replace keeps the
\* extension under which a delete or the sweeper will remove the file.
WritesInOrder ==
  [](/\ faults = 0
     /\ \A q \in Senders : pc[q] = "promoting" => rows[target[q]] # NoRow
     /\ \A q \in Replaces : mine[q] # NoRow => mine[q].ext = seen[q].ext)

\* Bytes of a link that is gone leave the disk in the end, if the process is
\* left running and writes come in order: the handler, the sweeper or the next
\* boot removes them, wherever a crash fell between the row and the file.
RetiredBytesGo ==
  (StaysUp /\ WritesInOrder) => \A n \in SlugNames :
    (files[n] # NoFile /\ rows[n[1]] = NoRow) ~> (files[n] = NoFile)

\* A scratch file that a boot finds old enough is gone by the time it serves,
\* or with a later boot; only an error of the pass itself lets it stay.
StaleScratchGoes ==
  (StaysUp /\ []~skipped) => \A q \in Senders :
    LET f == files[PartialName(q)] IN
      (phase = "down" /\ f # NoFile /\ f.mtime + ReapAge <= now) ~> f = NoFile

\* A shutdown that began ends, by an exit or a kill: no handler, connection
\* or sweep keeps it waiting for ever.
ShutdownEnds == phase \in {"draining", "stopping"} ~> phase = "down"

-----------------------------------------------------------------------------
(* What the comments and docs say and the code does not do: each is found  *)
(* violated by a run of its own.                                           *)

\* sweeper.go: "RunSweeper deletes expired uploads".  A replace between the
\* snapshot and the DELETE renews a row that is then deleted fresh.
SweepsOnlyExpired ==
  [][\A s \in Slugs :
       (sweep = "rows" /\ sweep' = "file" /\ rows[s] # NoRow /\ rows'[s] = NoRow)
         => Lapsed(rows[s])]_vars

\* container.go: ReapPartials removes what crashes leave orphaned.  An upload
\* whose name ends in ".partial" has a file name of that shape for good.
ReapSparesLinks ==
  [][phase = "reaping" =>
       \A s \in Slugs : IsFound(s) =>
         LET n == DiskName(s, rows[s].ext) IN files[n] # NoFile => files'[n] # NoFile]_vars

\* files.go: "a committed file with an UPDATE-but-no-rename gap is recovered".
\* The next boot leaves the old bytes under the new row, or drops the link.
ReplaceGapRecovered ==
  [][(phase = "rows" /\ phase' = "serving" /\ ~skipped) =>
       \A q \in Replaces :
         (pc[q] = "lost" /\ q \in committed /\ Expiry(mine[q]) > now)
           => LET f == files[DiskName(target[q], mine[q].ext)] IN
                rows[target[q]] = mine[q] /\ f # NoFile /\ f.body = q]_vars

\* README: "the public URL is unchanged across replacements".  Of two replaces
\* that overlap, the one to clean up last removes what the other put there.
ReplacedLinkOpens ==
  \A s \in Slugs :
    (rows[s] # NoRow /\ ~Unsettled(s) /\ faults = 0)
      => files[DiskName(s, rows[s].ext)] # NoFile

\* architecture.md: "If-Modified-Since handled".  The validator is the row's
\* stamp, to the second: a GET between a replace's UPDATE and its rename, or in
\* the second of both versions, sends old bytes under the new one's.
CopyIsCurrent ==
  \A g \in Gets :
    (/\ pc[g] = "done" /\ faults = 0
     /\ IsFound(target[g]) /\ ~Unsettled(target[g])
     /\ rows[target[g]].at = seen[g].at)
      => got[g].body = rows[target[g]].body
=============================================================================
