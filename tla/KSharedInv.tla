----------------------------- MODULE KSharedInv -----------------------------
(***************************************************************************)
(* The inductive invariants behind the theorems about KShared: four layers *)
(* that make up IInv, and four more on top of it, each inductive once the  *)
(* ones it is said to rest on are known, which runs check too; and one     *)
(* step of a proof, Repairs.                                               *)
(***************************************************************************)
EXTENDS KShared

(***************************************************************************)
(* Layer 1, control: which kind of request may be at which step, and what  *)
(* a request at that step holds; while no request is served, none is in    *)
(* flight and the sweeper is off.                                          *)
(***************************************************************************)
UploadSteps == {"new", "lost", "streaming", "inserting", "promoting", "rolling",
                "discarding", "done", "failed"}
ReplaceSteps == {"new", "lost", "streaming", "updating", "promoting", "discarding",
                 "cleaning", "done", "missed", "failed"}
DeleteSteps == {"new", "lost", "deleting", "unlinking", "done", "missed", "failed"}
GetSteps == {"new", "lost", "opening", "done", "missed", "failed"}

StepsOfKind ==
  /\ \A r \in Uploads : pc[r] \in UploadSteps
  /\ \A r \in Replaces : pc[r] \in ReplaceSteps
  /\ \A r \in Deletes : pc[r] \in DeleteSteps
  /\ \A r \in Gets : pc[r] \in GetSteps

\* A sender's row is built before its body streams, its file is there until
\* it is renamed or dropped, and attempts are counted below the limit.
SendersHold ==
  /\ \A r \in Senders :
       pc[r] \in {"streaming", "inserting", "updating", "promoting"}
         => mine[r] \in Row /\ files[PartialName(r)] # NoFile
  /\ \A r \in Uploads : pc[r] \in {"new", "streaming", "inserting"} => tries[r] < SlugRetries

\* A request past its lookup, or past its INSERT, has a slug
\* (and the row it saw).
TargetsSet ==
  /\ \A r \in Requests : pc[r] = "new" => target[r] = NoSlug
  /\ \A r \in Uploads : pc[r] \in {"streaming", "inserting"} => target[r] = NoSlug
  /\ \A r \in Uploads : pc[r] \in {"promoting", "rolling", "done"} => target[r] \in Slugs
  /\ \A r \in Replaces \cup Deletes \cup Gets :
       InFlight(r) => target[r] \in Slugs /\ seen[r] \in Row

QuietOutside ==
  phase \in {"down", "reaping", "files", "rows"} =>
    sweep = "off" /\ \A r \in Requests : ~InFlight(r)

SweepingHeld == sweep = "file" => sweeping \in Entry

Control ==
  /\ TypeOK /\ StepsOfKind /\ SendersHold /\ TargetsSet /\ QuietOutside /\ SweepingHeld

(***************************************************************************)
(* Layer 2, ownership: a slug is drawn by one upload; every row is the one *)
(* its sender built for that slug; whatever names a slug comes after its   *)
(* owner; the sweeper holds only rows that have lapsed, and for a slug     *)
(* nobody touched that is its owner's row.                                 *)
(***************************************************************************)
Owned(s) == \E u \in Uploads : target[u] = s

OneOwner ==
  \A u, v \in Uploads : target[u] = target[v] /\ target[u] # NoSlug => u = v

TargetsOwned == \A r \in Requests : target[r] # NoSlug => Owned(target[r])

\* A row is written once, after its sender stamped it.
Written(r) == r \in committed

WrittenIsFinal ==
  /\ \A r \in Senders : Written(r) => pc[r] \notin {"new", "streaming", "inserting", "updating"}
  /\ \A r \in Uploads : target[r] # NoSlug => Written(r)

RowsOfSenders ==
  \A s \in Slugs : rows[s] # NoRow =>
    LET b == rows[s].body IN Written(b) /\ target[b] = s /\ mine[b] = rows[s]

BodiesOwn ==
  \A r \in Senders :
    /\ mine[r] # NoRow => mine[r].body = r
    /\ Written(r) => mine[r] # NoRow

LapsedEntry(i) ==
  /\ Lapsed(i.row)
  /\ Owned(i.slug)
  /\ Untouched(i.slug) => \A u \in Uploads : target[u] = i.slug => i.row = mine[u]

SweepsLapsed ==
  /\ \A i \in queue : LapsedEntry(i)
  /\ sweep = "file" => LapsedEntry(sweeping)

Ownership ==
  /\ OneOwner /\ TargetsOwned /\ WrittenIsFinal /\ RowsOfSenders /\ BodiesOwn /\ SweepsLapsed

(***************************************************************************)
(* Layer 3, durability: scratch files hold their own request's bytes, all  *)
(* of them once the stream has ended; from its INSERT on, a live upload    *)
(* nobody touched has its row, and from its rename on its file.            *)
(***************************************************************************)
ScratchOwn ==
  \A r \in Senders : files[PartialName(r)] # NoFile =>
    /\ files[PartialName(r)].body = r
    /\ pc[r] \in {"inserting", "updating", "promoting"} => files[PartialName(r)].whole

Kept(r) ==
  /\ Untouched(target[r])
  /\ ~Lapsed(mine[r])
  /\ mine[r].ext # PartialExt

RowKept ==
  \A r \in Uploads : pc[r] \in {"promoting", "done"} /\ Kept(r) => rows[target[r]] = mine[r]

FileKept ==
  \A r \in Uploads : pc[r] = "done" /\ Kept(r) =>
    LET f == files[DiskName(target[r], mine[r].ext)] IN
      f # NoFile /\ f.body = r /\ f.whole

Durability == ScratchOwn /\ RowKept /\ FileKept

(***************************************************************************)
(* Layer 4, undoing: a roll-back begins after a failed call, so if it does *)
(* not take the row of its upload back, that was the second one or its     *)
(* context had ended.                                                      *)
(***************************************************************************)
Undone ==
  \A r \in Uploads :
    /\ pc[r] = "rolling" => faults > 0
    /\ (pc[r] \in {"discarding", "failed"} /\ r \notin cancelled /\ faults < 2)
         => \A s \in Slugs : rows[s] # NoRow => rows[s].body # r

\* The layers together: inductive, and strong enough for TypeOK, DurableUpload
\* and FailedUploadUndone.
IInv == Control /\ Ownership /\ Durability /\ Undone

-----------------------------------------------------------------------------
(***************************************************************************)
(* Serving, on top of the four layers: whatever a slug's name holds, in    *)
(* any extension, is the whole body of a sender whose row was committed    *)
(* for that slug, and whose row has that extension; a GET has looked up a  *)
(* row of its slug, and has opened such a file when it is done.            *)
(***************************************************************************)
PromotersWritten == \A r \in Replaces : pc[r] = "promoting" => Written(r)

SlugFilesOwn ==
  \A s \in Slugs, e \in Exts :
    LET f == files[DiskName(s, e)] IN
      f # NoFile => f.whole /\ Written(f.body) /\ target[f.body] = s /\ mine[f.body].ext = e

SeenOwn ==
  \A g \in Gets : seen[g] # NoRow =>
    target[g] \in Slugs /\ Written(seen[g].body) /\ target[seen[g].body] = target[g]

GotOwn ==
  \A g \in Gets :
    /\ got[g] # NoFile <=> pc[g] = "done"
    /\ got[g] # NoFile =>
         got[g].whole /\ Written(got[g].body) /\ target[got[g].body] = target[g] /\ seen[g] # NoRow

Serving == PromotersWritten /\ SlugFilesOwn /\ SeenOwn /\ GotOwn

-----------------------------------------------------------------------------
(***************************************************************************)
(* Turns, on top of the four layers: a slug whose row a delete or the      *)
(* sweeper has taken has none while they go for its file; and if writers   *)
(* take turns, a writer in flight finds the row it saw or wrote, and every *)
(* row has its file, unless its sender is between the row and the rename   *)
(* or died on the way.  (A boot may have reaped a file named *.partial,    *)
(* and its row goes with the last pass, of that boot or, if it was killed  *)
(* meanwhile, of a later one.)                                             *)
(***************************************************************************)
Removing ==
  /\ \A d \in Deletes : pc[d] = "unlinking" => rows[target[d]] = NoRow
  /\ sweep = "file" => rows[sweeping.slug] = NoRow

OneWriter ==
  \A p \in Senders, q \in Senders \cup Deletes :
    p # q /\ InFlight(p) /\ InFlight(q) /\ target[p] # NoSlug => target[p] # target[q]

RowsAsHeld ==
  /\ \A q \in Senders :
       pc[q] \in {"promoting", "cleaning"} => rows[target[q]] \in {mine[q], NoRow}
  /\ \A q \in Replaces \cup Deletes :
       pc[q] \in {"streaming", "updating", "deleting"} => rows[target[q]] \in {seen[q], NoRow}
  /\ \A q \in Replaces : pc[q] = "cleaning" => mine[q].ext # seen[q].ext

HalfDone(s) ==
  \E q \in Senders \cup Deletes : target[q] = s /\ pc[q] \in {"promoting", "lost"}

NotServing == phase \in {"down", "reaping", "files", "rows"}

RowsDescribe ==
  faults = 0 =>
    \A s \in Slugs :
      (rows[s] # NoRow /\ ~HalfDone(s) /\ ~(NotServing /\ rows[s].ext = PartialExt)) =>
        LET f == files[DiskName(s, rows[s].ext)] IN
          f # NoFile /\ (rows[s].ext # PartialExt => f.body = rows[s].body)

Turns == Removing /\ (~Overlap => OneWriter /\ RowsAsHeld /\ RowsDescribe)

(***************************************************************************)
(* Schedule, on top of Control: a ticker's next tick is at most a period   *)
(* away; and if no call is slow, rows are alive when they are written, and *)
(* what a pass without errors has left behind, or has yet to meet, lapses  *)
(* so late that the next tick is within a period of it.                    *)
(***************************************************************************)
Paced ==
  /\ \A q \in Senders : mine[q] # NoRow => Accepted(mine[q].ttl)
  /\ ~Stalls =>
       /\ \A q \in Senders :
            pc[q] \in {"inserting", "updating", "promoting"} => Expiry(mine[q]) > now
       /\ \A q \in Replaces :
            pc[q] = "updating" /\ StampedInTime(q) => Expiry(seen[q]) > now

Ticking ==
  /\ sweep \in {"off", "waiting"} => queue = {}
  /\ sweep = "off" => due = 0
  /\ due # 0 => due <= now + MinTTL

Queued(s) == \E i \in queue : i.slug = s

LeftToNextTick ==
  (~Stalls /\ faults = 0) =>
    \A s \in Slugs : rows[s] # NoRow /\ ~Queued(s) =>
      /\ due # 0 => due < Expiry(rows[s]) + MinTTL
      /\ FirstPass => Expiry(rows[s]) > now

Schedule == Paced /\ Ticking /\ LeftToNextTick

(***************************************************************************)
(* Accounts, on top of all of these: while storage calls succeed, every    *)
(* scratch file has its sender in flight, or lost with its process.  If    *)
(* besides writers take turns, storage calls are fast, and nobody died or  *)
(* hung up, then a slug no replace outlived (see CleanStop) has the row    *)
(* its sender is about to rename a file for, is truly described by the     *)
(* sweeper's snapshot, and each file of it has its row, or somebody on the *)
(* way to remove it.                                                       *)
(***************************************************************************)
Undisturbed == ~Overlap /\ ~Stalls /\ faults = 0 /\ crashes = 0 /\ cancelled = {}

Draining == phase = "stopping" => \A r \in Requests : InFlight(r) => r \in cancelled

NoneLost == \A r \in Requests : pc[r] # "lost"

ScratchHeld ==
  faults = 0 =>
    \A q \in Senders : files[PartialName(q)] # NoFile =>
      pc[q] \in {"streaming", "inserting", "updating", "promoting", "discarding", "lost"}

RowsAwaitFile ==
  \A q \in Senders :
    pc[q] = "promoting" /\ ~Outlived(target[q]) => rows[target[q]] = mine[q]

SnapshotTrue == \A i \in queue : ~Outlived(i.slug) => rows[i.slug] \in {i.row, NoRow}

Removal(s, e) ==
  \/ \E q \in Replaces :
       /\ target[q] = s /\ seen[q].ext = e
       /\ pc[q] \in {"promoting", "cleaning"} /\ mine[q].ext # e
  \/ \E d \in Deletes : target[d] = s /\ seen[d].ext = e /\ pc[d] = "unlinking"
  \/ sweep = "file" /\ sweeping.slug = s /\ sweeping.row.ext = e

FilesAccounted ==
  \A s \in Slugs, e \in Exts \ {PartialExt} :
    files[DiskName(s, e)] # NoFile /\ ~Outlived(s)
      => (rows[s] # NoRow /\ rows[s].ext = e) \/ Removal(s, e)

Accounts ==
  /\ Draining
  /\ ScratchHeld
  /\ Undisturbed => NoneLost /\ RowsAwaitFile /\ SnapshotTrue /\ FilesAccounted

(***************************************************************************)
(* Repairs, on top of Control, a step of the proof of BootRepairs: once    *)
(* the second pass of a boot is over, and met no error, no file is without *)
(* its row.                                                                *)
(***************************************************************************)
Repairs == phase = "rows" /\ ~skipped => OrphanFiles = {}
=============================================================================
