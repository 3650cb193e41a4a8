-------------------------------- MODULE Boot --------------------------------
(***************************************************************************)
(* The life of the kshared process (cmd/server/main.go): the three repair  *)
(* passes of a boot, in order, then serving, then a drained shutdown.      *)
(*                                                                         *)
(* Each pass is one loop over directory entries or rows, and a crash may   *)
(* fall between two turns of it.  An error in a pass is only a warning:    *)
(* the entries it concerns stay as they are and the boot goes on.          *)
(***************************************************************************)
EXTENDS Store

VARIABLES
  phase,     \* what main is doing
  skipped    \* this boot left something unrepaired

bootVars == <<phase, skipped>>

Phases == {"down", "reaping", "files", "rows", "serving", "draining", "stopping"}

BootTypeOK == phase \in Phases /\ skipped \in BOOLEAN

BootInit == phase = "down" /\ skipped = FALSE

Start ==
  /\ phase = "down"
  /\ phase' = "reaping"
  /\ skipped' = FALSE
  /\ UNCHANGED storeVars

(***************************************************************************)
(* What each pass has to repair: scratch files not written to for ReapAge, *)
(* other files no row names, and rows whose file is missing.               *)
(***************************************************************************)
\* Mutant: a file exactly at the floor is too young.
StalePartialsOlder ==
  {n \in Names : files[n] # NoFile /\ IsPartial(n) /\ files[n].mtime + ReapAge < now}

StalePartials ==
  {n \in Names : files[n] # NoFile /\ IsPartial(n) /\ files[n].mtime + ReapAge <= now}

KnownNames == {DiskName(s, rows[s].ext) : s \in {x \in Slugs : rows[x] # NoRow}}

\* Mutant: the floor of ReapPartials applied to this pass too.
OrphanFilesAged ==
  {n \in Names : /\ files[n] # NoFile /\ ~IsPartial(n) /\ n \notin KnownNames
                 /\ files[n].mtime + ReapAge <= now}

OrphanFiles ==
  {n \in Names : files[n] # NoFile /\ ~IsPartial(n) /\ n \notin KnownNames}

\* Mutant: the readers' query, which hides lapsed rows.
DanglingRowsFound ==
  {s \in Slugs : IsFound(s) /\ files[DiskName(s, rows[s].ext)] = NoFile}

DanglingRows ==
  {s \in Slugs : rows[s] # NoRow /\ files[DiskName(s, rows[s].ext)] = NoFile}

ReapPartial ==
  /\ phase = "reaping"
  /\ \E n \in StalePartials : RemoveFile(n)
  /\ UNCHANGED <<rows, now, faults, bootVars>>

ReapOrphan ==
  /\ phase = "files"
  /\ \E n \in OrphanFiles : RemoveFile(n)
  /\ UNCHANGED <<rows, now, faults, bootVars>>

DropDangling ==
  /\ phase = "rows"
  /\ \E s \in DanglingRows : DeleteRow(s)
  /\ UNCHANGED <<files, now, faults, bootVars>>

\* A pass ends with nothing left to do, or after failing on what is left.
EndPass(from, left, to) ==
  /\ phase = from
  /\ phase' = to
  /\ \/ left = {} /\ UNCHANGED <<skipped, faults>>
     \/ left # {} /\ Fault /\ skipped' = TRUE
  /\ UNCHANGED <<rows, files, now>>

EndReap == EndPass("reaping", StalePartials, "files")
EndReconcileFiles == EndPass("files", OrphanFiles, "rows")

Repair == ReapPartial \/ EndReap \/ ReapOrphan \/ EndReconcileFiles \/ DropDangling
=============================================================================
