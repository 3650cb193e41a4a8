------------------------------ MODULE Handlers ------------------------------
(***************************************************************************)
(* cmd/server: the handlers of the four requests that touch a link.        *)
(*                                                                         *)
(*   upload   stream to <nonce>.partial; INSERT; rename to <slug><ext>     *)
(*   replace  SELECT; stream to <nonce>.partial; UPDATE; rename to         *)
(*            <slug><new ext>; remove <slug><old ext>                      *)
(*   delete   SELECT; DELETE; remove <slug><ext>                           *)
(*   serve    SELECT; open <slug><ext>                                     *)
(*                                                                         *)
(* Each request is a process with a program counter; a step is one storage *)
(* call and the code up to the next one, so that the steps of any requests *)
(* interleave as the goroutines of net/http do.  The lookup of a replace   *)
(* is fused with the creation of its scratch file, which no other process  *)
(* can see.                                                                *)
(***************************************************************************)
EXTENDS Store

CONSTANTS
  NoSlug,       \* the request has no slug yet
  SlugRetries,  \* slugCollisionRetries
  MayHangUp,    \* bound: API requests whose context may end before they do
  Overlap,      \* FALSE: a request waits for the writers of its slug
  Stalls        \* FALSE: storage calls are fast against lifetimes

ASSUME HandlerLimits ==
  /\ SlugRetries \in Nat \ {0}
  /\ MayHangUp \subseteq Senders \cup Deletes
  /\ NoSlug \notin Slugs
  /\ Overlap \in BOOLEAN /\ Stalls \in BOOLEAN

VARIABLES
  pc,          \* where each request is
  target,      \* the slug it drew or was sent to
  seen,        \* the row its SELECT returned, "u" in the code
  mine,        \* the row it writes, "u" of insertWithRetry and "updated"
  tries,       \* slugs an upload has drawn in vain
  cancelled,   \* requests whose context has ended
  got,         \* the file a GET opened
  committed    \* history: senders whose row was written to the table

\* What a handler has in its local variables; what it leaves outside them.
heldVars == <<target, seen, mine, tries>>
shownVars == <<cancelled, got, committed>>

requestVars == <<pc, heldVars, shownVars>>

Working == {"streaming", "inserting", "updating", "promoting", "rolling",
            "discarding", "cleaning", "deleting", "unlinking", "opening"}
Answered == {"done", "missed", "failed"}
Steps == {"new", "lost"} \cup Working \cup Answered

HandlersTypeOK ==
  /\ pc \in [Requests -> Steps]
  /\ target \in [Requests -> Slugs \cup {NoSlug}]
  /\ seen \in [Requests -> Row \cup {NoRow}]
  /\ mine \in [Senders -> Row \cup {NoRow}]
  /\ tries \in [Uploads -> 0..SlugRetries]
  /\ cancelled \subseteq MayHangUp
  /\ got \in [Gets -> File \cup {NoFile}]
  /\ committed \subseteq Senders

HandlersInit ==
  /\ pc = [r \in Requests |-> "new"]
  /\ target = [r \in Requests |-> NoSlug]
  /\ seen = [r \in Requests |-> NoRow]
  /\ mine = [r \in Senders |-> NoRow]
  /\ tries = [r \in Uploads |-> 0]
  /\ cancelled = {}
  /\ got = [r \in Gets |-> NoFile]
  /\ committed = {}

InFlight(r) == pc[r] \in Working

Goto(r, step) == pc' = [pc EXCEPT ![r] = step]

(***************************************************************************)
(* A statement runs under the request's context: once that has ended every *)
(* statement fails, and before that one may fail on its own.  File calls   *)
(* take no context.                                                        *)
(***************************************************************************)
StatementRuns(r) == r \notin cancelled /\ UNCHANGED faults

StatementFails(r) ==
  \/ r \in cancelled /\ UNCHANGED faults
  \/ r \notin cancelled /\ Fault

\* TimeoutHandler gave up on the request, or its client did.
HangUp(r) ==
  /\ r \in MayHangUp \ cancelled
  /\ InFlight(r)
  /\ cancelled' = cancelled \cup {r}
  /\ UNCHANGED <<storeVars, pc, heldVars, got, committed>>

(***************************************************************************)
(* Two things the server leaves to its clients and to luck.  Nothing makes *)
(* the requests for one link take turns: with Overlap = FALSE the clients  *)
(* do.  (GET /api/files shows the slug of an upload whose rename is still  *)
(* to come, so a replace or a delete can meet that too.)  And nothing      *)
(* bounds the time a storage call takes: with Stalls = FALSE no row lapses *)
(* between the stamp of a new one and its rename, nor the old row of a     *)
(* replace between that stamp and the UPDATE.  A body may be on its way    *)
(* for as long as it likes, past the end of the row a replace saw.         *)
(***************************************************************************)
TakesTurn(s, others) ==
  Overlap \/ \A q \in others : InFlight(q) => target[q] # s

\* The row this replace saw was still alive when it stamped its own.
StampedInTime(q) == mine[q].at < Expiry(seen[q])

KeepsPace ==
  Stalls \/
    /\ \A q \in Senders :
         pc[q] \in {"inserting", "updating", "promoting"} => Expiry(mine[q]) > now + 1
    /\ \A q \in Replaces :
         pc[q] = "updating" /\ StampedInTime(q) => Expiry(seen[q]) > now + 1

-----------------------------------------------------------------------------
(* Phase 1 of upload and replace: the body goes to a scratch file.         *)

Accepted(ttl) == MinTTL <= ttl /\ ttl <= MaxTTL

\* Parse the headers and create the scratch file, or refuse the request: a
\* TTL out of range, an empty or unreadable body, a file that cannot be made.
OpenPartial(r) ==
  \/ \E e \in SentExts, t \in AskedTTLs :
       /\ Accepted(t)
       /\ CreateFile(PartialName(r), r)
       /\ mine' = [mine EXCEPT ![r] = [ext |-> e, body |-> r, at |-> now, ttl |-> t]]
       /\ Goto(r, "streaming")
  \/ Goto(r, "failed") /\ UNCHANGED <<files, mine>>

\* Mutant: the row is written while the copy still runs.
EndStreamEarly(r) ==
  /\ pc[r] = "streaming"
  /\ mine' = [mine EXCEPT ![r].at = now]
  /\ Goto(r, IF r \in Uploads THEN "inserting" ELSE "updating")
  /\ UNCHANGED <<rows, files, now, faults, target, seen, tries, shownVars>>

\* The whole body arrived; the row is stamped now, before it is written.
EndStream(r) ==
  /\ pc[r] = "streaming"
  /\ FinishFile(PartialName(r), r)
  /\ mine' = [mine EXCEPT ![r].at = now]
  /\ Goto(r, IF r \in Uploads THEN "inserting" ELSE "updating")
  /\ UNCHANGED <<rows, now, faults, target, seen, tries, shownVars>>

\* The body was empty, too large or cut short, or the disk refused it.
AbortStream(r) ==
  /\ pc[r] = "streaming"
  /\ TryRemove(PartialName(r))
  /\ Goto(r, "failed")
  /\ UNCHANGED <<rows, now, heldVars, shownVars>>

\* Answer with an error after dropping the scratch file.
Discard(r) ==
  /\ pc[r] = "discarding"
  /\ TryRemove(PartialName(r))
  /\ Goto(r, "failed")
  /\ UNCHANGED <<rows, now, heldVars, shownVars>>

-----------------------------------------------------------------------------
(* POST /api/upload.                                                       *)

BeginUpload(r) ==
  /\ r \in Uploads /\ pc[r] = "new"
  /\ OpenPartial(r)
  /\ UNCHANGED <<rows, now, faults, target, seen, tries, shownVars>>

(***************************************************************************)
(* A 48-bit random slug is one no upload has drawn before, or else one     *)
(* whose row is still there: the collision the retry loop is for.  A draw  *)
(* that repeats the slug of a row already deleted is left out.             *)
(***************************************************************************)
Unused(s) == \A q \in Uploads : target[q] # s

\* Mutant: INSERT OR REPLACE.
InsertFreshOverwrites(r) ==
  /\ r \in Uploads /\ pc[r] = "inserting" /\ StatementRuns(r)
  /\ \E s \in Slugs :
       /\ Unused(s) \/ rows[s] # NoRow
       /\ rows' = [rows EXCEPT ![s] = mine[r]]
       /\ target' = [target EXCEPT ![r] = s]
  /\ committed' = committed \cup {r}
  /\ Goto(r, "promoting")
  /\ UNCHANGED <<files, now, seen, mine, tries, cancelled, got>>

InsertFresh(r) ==
  /\ r \in Uploads /\ pc[r] = "inserting" /\ StatementRuns(r)
  /\ \E s \in Slugs :
       /\ Unused(s)
       /\ InsertRow(s, mine[r])
       /\ target' = [target EXCEPT ![r] = s]
  /\ committed' = committed \cup {r}
  /\ Goto(r, "promoting")
  /\ UNCHANGED <<files, now, seen, mine, tries, cancelled, got>>

\* Mutant: one attempt too many.
InsertCollidesAgain(r) ==
  /\ r \in Uploads /\ pc[r] = "inserting" /\ StatementRuns(r)
  /\ \E s \in Slugs : rows[s] # NoRow
  /\ tries' = [tries EXCEPT ![r] = @ + 1]
  /\ Goto(r, IF tries[r] < SlugRetries THEN "inserting" ELSE "discarding")
  /\ UNCHANGED <<rows, files, now, target, seen, mine, shownVars>>

\* Mutant: the last attempt answers without a clean-up.
InsertCollidesKeepsScratch(r) ==
  /\ r \in Uploads /\ pc[r] = "inserting" /\ StatementRuns(r)
  /\ \E s \in Slugs : rows[s] # NoRow
  /\ tries' = [tries EXCEPT ![r] = @ + 1]
  /\ Goto(r, IF tries[r] + 1 < SlugRetries THEN "inserting" ELSE "failed")
  /\ UNCHANGED <<rows, files, now, target, seen, mine, shownVars>>

InsertCollides(r) ==
  /\ r \in Uploads /\ pc[r] = "inserting" /\ StatementRuns(r)
  /\ \E s \in Slugs : rows[s] # NoRow
  /\ tries' = [tries EXCEPT ![r] = @ + 1]
  /\ Goto(r, IF tries[r] + 1 < SlugRetries THEN "inserting" ELSE "discarding")
  /\ UNCHANGED <<rows, files, now, target, seen, mine, shownVars>>

InsertFails(r) ==
  /\ r \in Uploads /\ pc[r] = "inserting" /\ StatementFails(r)
  /\ Goto(r, "discarding")
  /\ UNCHANGED <<rows, files, now, heldVars, shownVars>>

PromoteUpload(r) ==
  /\ r \in Uploads /\ pc[r] = "promoting"
  /\ RenameFile(PartialName(r), DiskName(target[r], mine[r].ext))
  /\ Goto(r, "done")
  /\ UNCHANGED <<rows, now, faults, heldVars, shownVars>>

PromoteUploadFails(r) ==
  /\ r \in Uploads /\ pc[r] = "promoting" /\ Fault
  /\ Goto(r, "rolling")
  /\ UNCHANGED <<rows, files, now, heldVars, shownVars>>

\* Mutant: the row is left to the sweeper.
RollBackLeavesRow(r) ==
  /\ pc[r] = "rolling"
  /\ Goto(r, "discarding")
  /\ UNCHANGED <<storeVars, heldVars, shownVars>>

\* Take the row back; if that fails too the row stays, and is only logged.
RollBack(r) ==
  /\ pc[r] = "rolling"
  /\ \/ StatementRuns(r) /\ DeleteRow(target[r])
     \/ StatementFails(r) /\ UNCHANGED rows
  /\ Goto(r, "discarding")
  /\ UNCHANGED <<files, now, heldVars, shownVars>>

-----------------------------------------------------------------------------
(* The lookup that replace, delete and serve begin with: a row that is     *)
(* missing or lapsed is a 404, an error a 500.                             *)

Lookup(r, s) ==
  /\ StatementRuns(r) /\ IsFound(s)
  /\ target' = [target EXCEPT ![r] = s]
  /\ seen' = [seen EXCEPT ![r] = rows[s]]

LookupMisses(r, s) ==
  /\ StatementRuns(r) /\ ~IsFound(s)
  /\ Goto(r, "missed")
  /\ UNCHANGED <<target, seen>>

LookupFails(r) ==
  /\ StatementFails(r)
  /\ Goto(r, "failed")
  /\ UNCHANGED <<target, seen>>

-----------------------------------------------------------------------------
(* PUT /api/files/{slug}.                                                  *)

BeginReplace(r, s) ==
  /\ r \in Replaces /\ pc[r] = "new" /\ TakesTurn(s, Senders \cup Deletes)
  /\ \/ Lookup(r, s) /\ OpenPartial(r)
     \/ LookupMisses(r, s) /\ UNCHANGED <<files, mine>>
     \/ LookupFails(r) /\ UNCHANGED <<files, mine>>
  /\ UNCHANGED <<rows, now, tries, shownVars>>

UpdateRow(r) ==
  /\ r \in Replaces /\ pc[r] = "updating" /\ StatementRuns(r)
  /\ ReplaceRow(target[r], mine[r])
  /\ committed' = committed \cup {r}
  /\ Goto(r, "promoting")
  /\ UNCHANGED <<files, now, heldVars, cancelled, got>>

\* Mutant: an UPDATE that finds no row, or fails, is tried again.
UpdateMissesRetries(r) ==
  /\ r \in Replaces /\ pc[r] = "updating"
  /\ \/ StatementRuns(r) /\ rows[target[r]] = NoRow
     \/ StatementFails(r)
  /\ UNCHANGED <<rows, files, now, pc, heldVars, shownVars>>

UpdateMisses(r) ==
  /\ r \in Replaces /\ pc[r] = "updating"
  /\ \/ StatementRuns(r) /\ rows[target[r]] = NoRow
     \/ StatementFails(r)
  /\ Goto(r, "discarding")
  /\ UNCHANGED <<rows, files, now, heldVars, shownVars>>

\* Mutant: the old name is removed even when it is the new one.
PromoteReplaceCleans(r) ==
  /\ r \in Replaces /\ pc[r] = "promoting"
  /\ RenameFile(PartialName(r), DiskName(target[r], mine[r].ext))
  /\ Goto(r, "cleaning")
  /\ UNCHANGED <<rows, now, faults, heldVars, shownVars>>

\* The old extension is the one the lookup saw, not the one UPDATE replaced.
PromoteReplace(r) ==
  /\ r \in Replaces /\ pc[r] = "promoting"
  /\ RenameFile(PartialName(r), DiskName(target[r], mine[r].ext))
  /\ Goto(r, IF mine[r].ext # seen[r].ext THEN "cleaning" ELSE "done")
  /\ UNCHANGED <<rows, now, faults, heldVars, shownVars>>

\* No roll-back here: the row stays updated and the scratch file stays too.
PromoteReplaceFails(r) ==
  /\ r \in Replaces /\ pc[r] = "promoting" /\ Fault
  /\ Goto(r, "failed")
  /\ UNCHANGED <<rows, files, now, heldVars, shownVars>>

CleanOldName(r) ==
  /\ pc[r] = "cleaning"
  /\ TryRemove(DiskName(target[r], seen[r].ext))
  /\ Goto(r, "done")
  /\ UNCHANGED <<rows, now, heldVars, shownVars>>

-----------------------------------------------------------------------------
(* DELETE /api/files/{slug}.                                               *)

BeginDelete(r, s) ==
  /\ r \in Deletes /\ pc[r] = "new" /\ TakesTurn(s, Senders)
  /\ \/ Lookup(r, s) /\ Goto(r, "deleting")
     \/ LookupMisses(r, s)
     \/ LookupFails(r)
  /\ UNCHANGED <<rows, files, now, mine, tries, shownVars>>

\* A row that is already gone is no error: the file is removed all the same.
DeleteLink(r) ==
  /\ pc[r] = "deleting"
  /\ \/ StatementRuns(r) /\ DeleteRow(target[r]) /\ Goto(r, "unlinking")
     \/ StatementFails(r) /\ UNCHANGED rows /\ Goto(r, "failed")
  /\ UNCHANGED <<files, now, heldVars, shownVars>>

Unlink(r) ==
  /\ pc[r] = "unlinking"
  /\ TryRemove(DiskName(target[r], seen[r].ext))
  /\ Goto(r, "done")
  /\ UNCHANGED <<rows, now, heldVars, shownVars>>

-----------------------------------------------------------------------------
(* GET /s/{slug}.                                                          *)

BeginServe(r, s) ==
  /\ r \in Gets /\ pc[r] = "new"
  /\ \/ Lookup(r, s) /\ Goto(r, "opening")
     \/ LookupMisses(r, s)
     \/ LookupFails(r)
  /\ UNCHANGED <<rows, files, now, mine, tries, cancelled, got, committed>>

(***************************************************************************)
(* An open file keeps its bytes whatever happens to its name, and no code  *)
(* writes to a file that has a slug name, so what is opened is what is     *)
(* sent.  A missing file is a 404 too.                                     *)
(***************************************************************************)
OpenFile(r) ==
  /\ pc[r] = "opening"
  /\ LET name == DiskName(target[r], seen[r].ext) IN
       \/ /\ files[name] # NoFile
          /\ got' = [got EXCEPT ![r] = files[name]]
          /\ Goto(r, "done")
          /\ UNCHANGED faults
       \/ /\ files[name] = NoFile
          /\ Goto(r, "missed")
          /\ UNCHANGED <<got, faults>>
       \/ /\ Fault
          /\ Goto(r, "failed")
          /\ UNCHANGED got
  /\ UNCHANGED <<rows, files, now, heldVars, cancelled, committed>>

-----------------------------------------------------------------------------
\* A request arrives, at a slug its client knows or guesses.
Arrive(r) ==
  \/ BeginUpload(r)
  \/ \E s \in Slugs : BeginReplace(r, s) \/ BeginDelete(r, s) \/ BeginServe(r, s)

\* The handler of a request that has arrived does its next storage call.
Advance(r) ==
  \/ EndStream(r) \/ AbortStream(r) \/ Discard(r)
  \/ InsertFresh(r) \/ InsertCollides(r) \/ InsertFails(r)
  \/ PromoteUpload(r) \/ PromoteUploadFails(r) \/ RollBack(r)
  \/ UpdateRow(r) \/ UpdateMisses(r)
  \/ PromoteReplace(r) \/ PromoteReplaceFails(r) \/ CleanOldName(r)
  \/ DeleteLink(r) \/ Unlink(r)
  \/ OpenFile(r)
=============================================================================
