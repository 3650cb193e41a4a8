----------------------------- MODULE TurnProofs -----------------------------
(***************************************************************************)
(* Clients that take turns for a link: theorems about KShared on top of    *)
(* the invariants of KSharedProofs and the sweeper's schedule.             *)
(***************************************************************************)
EXTENDS RepairProofs, LinkProofs

-----------------------------------------------------------------------------
(* Who removes a file and who removes a row.                               *)

\* The file under a slug's name is removed by a replace that moved away from
\* its extension, a delete, the sweeper, or a pass of a boot.
LEMMA SlugFileRemoved ==
  ASSUME Control, [Next]_vars, NEW s \in Slugs, NEW e \in Exts,
         files'[DiskName(s, e)] = NoFile, files[DiskName(s, e)] # NoFile
  PROVE  \/ \E q \in Replaces : CleanOldName(q) /\ target[q] = s /\ seen[q].ext = e
         \/ \E d \in Deletes : Unlink(d) /\ target[d] = s /\ seen[d].ext = e
         \/ SweepFile /\ sweeping.slug = s /\ sweeping.row.ext = e
         \/ phase = "files" /\ DiskName(s, e) \in OrphanFiles
         \/ phase = "reaping" /\ phase' = "reaping" /\ e = PartialExt
<1> USE DEF heldVars, shownVars, storeVars, bootVars
<1> DEFINE n == DiskName(s, e)
<1>1. /\ files \in [Names -> File \cup {NoFile}] /\ StepsOfKind /\ n \in Names
      /\ \A r \in Senders : PartialName(r) # n
      /\ IsPartial(n) => e = PartialExt
  BY KindsAreDisjoint DEF Control, TypeOK, StoreTypeOK, Names, SlugNames, DiskName, PartialName,
     IsPartial
<1>d. /\ files'[n] = NoFile /\ files[n] # NoFile
      /\ \A x, y : n = DiskName(x, y) => x = s /\ y = e
  BY DEF DiskName
<1> HIDE DEF n
\* Writing to scratch files, and dropping them, is no such step.
<1>2. ASSUME \/ files' = files
             \/ \E r \in Senders : \E f : files' = [files EXCEPT ![PartialName(r)] = f]
      PROVE  FALSE
  BY <1>1, <1>d, <1>2
<1>3. ASSUME NEW m, files' = files \/ files' = [files EXCEPT ![m] = NoFile] PROVE m = n
  BY <1>1, <1>d, <1>3
<1>4. ASSUME NEW r \in Requests, Accept(r) PROVE FALSE
  <2>1. \/ files' = files
        \/ r \in Senders /\ \E f : files' = [files EXCEPT ![PartialName(r)] = f]
    BY <1>4 DEF Accept, Arrive, BeginUpload, BeginReplace, BeginDelete, BeginServe, OpenPartial,
       CreateFile, Senders
  <2> QED BY <1>2, <2>1
<1>5. ASSUME NEW r \in Requests, Handle(r)
      PROVE  \/ r \in Replaces /\ CleanOldName(r) /\ target[r] = s /\ seen[r].ext = e
             \/ r \in Deletes /\ Unlink(r) /\ target[r] = s /\ seen[r].ext = e
  <2>1. CASE PromoteUpload(r) \/ PromoteReplace(r)
    <3>1. /\ r \in Senders /\ files[PartialName(r)] # NoFile
          /\ files' = [files EXCEPT ![DiskName(target[r], mine[r].ext)] = files[PartialName(r)],
                                    ![PartialName(r)] = NoFile]
      BY <2>1 DEF PromoteUpload, PromoteReplace, RenameFile, Senders
    <3> QED BY <1>1, <1>d, <3>1
  <2>2. CASE EndStream(r) \/ AbortStream(r) \/ Discard(r)
    <3>1. r \in Senders
      BY <1>1, <2>2 DEF EndStream, AbortStream, Discard, StepsOfKind, DeleteSteps, GetSteps,
         Requests, Senders
    <3> QED BY <1>2, <2>2, <3>1 DEF EndStream, AbortStream, Discard, FinishFile, TryRemove, RemoveFile
  <2>3. CASE CleanOldName(r)
    <3>1. r \in Replaces
      BY <1>1, <2>3 DEF CleanOldName, StepsOfKind, UploadSteps, DeleteSteps, GetSteps,
         Requests, Senders
    <3>2. n = DiskName(target[r], seen[r].ext)
      BY <1>3, <2>3 DEF CleanOldName, TryRemove, RemoveFile
    <3> QED BY <1>d, <2>3, <3>1, <3>2
  <2>4. CASE Unlink(r)
    <3>1. r \in Deletes
      BY <1>1, <2>4 DEF Unlink, StepsOfKind, UploadSteps, ReplaceSteps, GetSteps, Requests, Senders
    <3>2. n = DiskName(target[r], seen[r].ext)
      BY <1>3, <2>4 DEF Unlink, TryRemove, RemoveFile
    <3> QED BY <1>d, <2>4, <3>1, <3>2
  <2>5. CASE files' = files
    BY <1>2, <2>5
  <2> QED
    BY <1>5, <2>1, <2>2, <2>3, <2>4, <2>5 DEF Handle, Advance, InsertFresh, InsertCollides,
       InsertFails, PromoteUploadFails, RollBack, UpdateRow, UpdateMisses, PromoteReplaceFails,
       DeleteLink, OpenFile
<1>6. CASE RunSweeper
  <2>1. SweepFile
    BY <1>2, <1>6 DEF RunSweeper, Sweep, BeginSweep, SkipSweep, SweepRow, SkipRow, StopSweeper
  <2>2. n = DiskName(sweeping.slug, sweeping.row.ext)
    BY <1>3, <2>1 DEF SweepFile, TryRemove, RemoveFile
  <2> QED BY <1>d, <2>1, <2>2
<1>7. CASE Boot \/ Listen
  <2>1. ReapPartial \/ ReapOrphan
    BY <1>2, <1>7 DEF Boot, Listen, Start, Repair, EndReap, EndReconcileFiles, DropDangling, EndPass
  <2>2. CASE ReapPartial
    <3>1. n \in StalePartials
      BY <1>3, <2>2 DEF ReapPartial, RemoveFile
    <3> QED BY <1>1, <2>2, <3>1 DEF ReapPartial, StalePartials
  <2>3. CASE ReapOrphan
    <3>1. n \in OrphanFiles
      BY <1>3, <2>3 DEF ReapOrphan, RemoveFile
    <3> QED BY <2>3, <3>1 DEF ReapOrphan, n
  <2> QED BY <2>1, <2>2, <2>3
<1>8. ~(Clock \/ Terminate \/ Drained \/ Exit \/ Crash \/ UNCHANGED vars)
  BY <1>2 DEF Clock, Tick, Terminate, Drained, Exit, Crash, ProcessEnds, vars
<1>9. ASSUME NEW r \in Requests, LoseClient(r) PROVE FALSE
  BY <1>2, <1>9 DEF LoseClient, HangUp
<1> QED BY <1>4, <1>5, <1>6, <1>7, <1>8, <1>9 DEF Next, Idle

\* The row of a slug is removed by a roll-back, a delete, the sweeper or the
\* last pass of a boot.
LEMMA RowRemoved ==
  ASSUME Control, [Next]_vars, NEW s \in Slugs, rows'[s] = NoRow, rows[s] # NoRow
  PROVE  \/ \E u \in Uploads : pc[u] = "rolling" /\ target[u] = s
         \/ \E d \in Deletes : DeleteLink(d) /\ pc'[d] = "unlinking" /\ target[d] = s
         \/ SweepRow /\ sweeping' \in queue /\ sweeping'.slug = s
         \/ phase = "rows" /\ s \in DanglingRows
<1> USE DEF heldVars, shownVars, storeVars, bootVars
<1>1. rows \in [Slugs -> Row \cup {NoRow}] /\ StepsOfKind /\ pc \in [Requests -> Steps]
  BY DEF Control, TypeOK, StoreTypeOK, HandlersTypeOK
<1>2. ASSUME NEW r \in Requests, Accept(r) \/ LoseClient(r) PROVE FALSE
  BY <1>2 DEF Accept, Arrive, BeginUpload, BeginReplace, BeginDelete, BeginServe, LoseClient, HangUp
<1>3. ASSUME NEW r \in Requests, Handle(r)
      PROVE  \/ r \in Uploads /\ pc[r] = "rolling" /\ target[r] = s
             \/ r \in Deletes /\ DeleteLink(r) /\ pc'[r] = "unlinking" /\ target[r] = s
  <2>1. RollBack(r) \/ DeleteLink(r)
    <3>1. ASSUME InsertFresh(r) PROVE FALSE
      BY <1>1, <3>1 DEF InsertFresh, InsertRow
    <3>2. ASSUME UpdateRow(r) PROVE FALSE
      <4>1. r \in Replaces /\ pc[r] = "updating" /\ rows' = [rows EXCEPT ![target[r]] = mine[r]]
        BY <3>2 DEF UpdateRow, ReplaceRow
      <4>2. mine[r] # NoRow
        BY <4>1, SentinelsAreApart DEF Control, SendersHold, Senders
      <4> QED BY <1>1, <4>1, <4>2
    <3> QED
      BY <1>3, <3>1, <3>2 DEF Handle, Advance, EndStream, AbortStream, Discard, InsertCollides,
         InsertFails, PromoteUpload, PromoteUploadFails, UpdateMisses, PromoteReplace,
         PromoteReplaceFails, CleanOldName, Unlink, OpenFile
  <2>2. CASE RollBack(r)
    <3>1. r \in Uploads
      BY <1>1, <2>2 DEF RollBack, StepsOfKind, ReplaceSteps, DeleteSteps, GetSteps, Requests, Senders
    <3> QED BY <1>1, <2>2, <3>1 DEF RollBack, DeleteRow
  <2>3. CASE DeleteLink(r)
    <3>1. r \in Deletes
      BY <1>1, <2>3 DEF DeleteLink, StepsOfKind, UploadSteps, ReplaceSteps, GetSteps, Requests, Senders
    <3> QED BY <1>1, <2>3, <3>1 DEF DeleteLink, DeleteRow, Goto
  <2> QED BY <2>1, <2>2, <2>3
<1>4. CASE RunSweeper
  <2>1. SweepRow
    BY <1>4 DEF RunSweeper, Sweep, BeginSweep, SkipSweep, SkipRow, SweepFile, StopSweeper
  <2>2. PICK i \in queue : DeleteRow(i.slug) /\ sweeping' = i
    BY <2>1 DEF SweepRow
  <2>3. i.slug = s
    BY <1>1, <2>2 DEF DeleteRow
  <2> QED BY <2>1, <2>2, <2>3
<1>5. CASE Boot \/ Listen
  BY <1>1, <1>5 DEF Boot, Listen, Start, Repair, ReapPartial, EndReap, ReapOrphan,
     EndReconcileFiles, DropDangling, DeleteRow, EndPass
<1>6. ~(Clock \/ Terminate \/ Drained \/ Exit \/ Crash \/ UNCHANGED vars)
  BY DEF Clock, Tick, Terminate, Drained, Exit, Crash, ProcessEnds, vars
<1> QED BY <1>2, <1>3, <1>4, <1>5, <1>6 DEF Next, Idle

\* A slug that has had its owner and has no row never gets one again.
LEMMA GoneStays ==
  ASSUME Control, [Next]_vars, NEW s \in Slugs, Owned(s), rows[s] = NoRow
  PROVE  rows'[s] = NoRow
<1> SUFFICES ASSUME rows'[s] # NoRow PROVE FALSE
    OBVIOUS
<1>1. PICK q \in Senders : InsertFresh(q) \/ UpdateRow(q)
  BY RowOrigin
<1>2. rows \in [Slugs -> Row \cup {NoRow}]
  BY DEF Control, TypeOK, StoreTypeOK
<1>3. ~InsertFresh(q)
  BY <1>2 DEF InsertFresh, InsertRow, Unused, Owned
<1>4. ~UpdateRow(q)
  BY <1>2 DEF UpdateRow, ReplaceRow
<1> QED BY <1>1, <1>3, <1>4

-----------------------------------------------------------------------------
(* Turns is an invariant.                                                  *)

\* Whoever took a row leaves the slug without one.
LEMMA RemovingStep == Control /\ Ownership /\ Removing /\ [Next]_vars => Removing'
<1> SUFFICES ASSUME Control, Ownership, Removing, [Next]_vars PROVE Removing'
    OBVIOUS
<1>1. ASSUME NEW d \in Deletes, pc'[d] = "unlinking" PROVE rows'[target'[d]] = NoRow
  <2>1. /\ d \in Requests /\ d \notin Senders /\ d \notin Gets
        /\ pc \in [Requests -> Steps] /\ rows \in [Slugs -> Row \cup {NoRow}]
    BY KindsAreDisjoint DEF Requests, Control, TypeOK, StoreTypeOK, HandlersTypeOK
  <2>2. InFlight(d) => target[d] \in Slugs /\ target[d] # NoSlug
    BY HandlerLimits DEF Control, TargetsSet
  <2>3. CASE Accept(d)
    BY <1>1, <2>1, <2>3 DEF Accept, Arrive, BeginUpload, BeginReplace, BeginDelete, BeginServe,
       LookupMisses, LookupFails, Goto, Senders
  <2>4. CASE Handle(d)
    <3>1. DeleteLink(d) /\ InFlight(d)
      BY <1>1, <2>1, <2>4, HandleFrame DEF Handle, Advance, EndStream, AbortStream, Discard,
         InsertFresh, InsertCollides, InsertFails, PromoteUpload, PromoteUploadFails, RollBack,
         UpdateRow, UpdateMisses, PromoteReplace, PromoteReplaceFails, CleanOldName, Unlink,
         OpenFile, Goto
    <3> QED BY <1>1, <2>1, <2>2, <3>1 DEF DeleteLink, DeleteRow, Goto, heldVars
  <2>5. CASE Rests(d)
    <3>1. pc[d] = "unlinking" /\ target'[d] = target[d]
      BY <1>1, <2>5 DEF Rests
    <3>2. rows[target[d]] = NoRow /\ InFlight(d)
      BY <3>1 DEF Removing, InFlight, Working
    <3>3. Owned(target[d])
      BY <2>1, <2>2, <3>2 DEF Ownership, TargetsOwned
    <3> QED BY <2>2, <3>1, <3>2, <3>3, GoneStays
  <2> QED BY <2>1, <2>3, <2>4, <2>5, RequestAdvances
<1>2. ASSUME sweep' = "file" PROVE rows'[sweeping'.slug] = NoRow
  <2>1. CASE RunSweeper
    <3>1. SweepRow
      BY <1>2, <2>1 DEF RunSweeper, Sweep, BeginSweep, SkipSweep, SkipRow, SweepFile, StopSweeper,
         NextRow, AwaitTick
    <3> QED BY <3>1 DEF SweepRow, DeleteRow, Entry, Control, TypeOK, StoreTypeOK, SweeperTypeOK
  <2>2. CASE ~RunSweeper
    <3>1. sweep = "file" /\ sweeping' = sweeping
      BY <1>2, <2>2, SweeperRests
    <3>2. rows[sweeping.slug] = NoRow /\ sweeping.slug \in Slugs /\ Owned(sweeping.slug)
      BY <3>1 DEF Removing, Control, SweepingHeld, Entry, Ownership, SweepsLapsed, LapsedEntry
    <3> QED BY <3>1, <3>2, GoneStays
  <2> QED BY <2>1, <2>2
<1> QED BY <1>1, <1>2 DEF Removing

\* A request comes into flight when it is let in, and learns its slug then or
\* with its INSERT.
LEMMA WriterAdvances ==
  ASSUME Control, [Next]_vars, NEW r \in Requests, InFlight(r)'
  PROVE  Accept(r) \/ InsertFresh(r) \/ (InFlight(r) /\ target'[r] = target[r])
<1>1. CASE Handle(r)
  <2>1. InFlight(r)
    BY <1>1, HandleFrame
  <2>2. target' = target \/ InsertFresh(r)
    BY <1>1 DEF Handle, Advance, EndStream, AbortStream, Discard, InsertCollides, InsertFails,
       PromoteUpload, PromoteUploadFails, RollBack, UpdateRow, UpdateMisses, PromoteReplace,
       PromoteReplaceFails, CleanOldName, DeleteLink, Unlink, OpenFile, heldVars
  <2> QED BY <2>1, <2>2
<1>2. CASE Rests(r)
  BY <1>2 DEF Rests, InFlight, Working
<1> QED BY <1>1, <1>2, RequestAdvances

\* A request that is let in has no slug yet, or one that no other writer of
\* its kind of turn has.
LEMMA AcceptTakesTurn ==
  ASSUME Control, ~Overlap, NEW r \in Senders \cup Deletes, Accept(r), InFlight(r)',
         NEW q \in Senders \cup Deletes, q # r, r \in Deletes => q \in Senders, InFlight(q)
  PROVE  target'[r] = NoSlug \/ target'[r] # target[q]
<1>1. /\ r \in Requests /\ r \notin Gets /\ target \in [Requests -> Slugs \cup {NoSlug}]
      /\ pc \in [Requests -> Steps]
  BY KindsAreDisjoint DEF Requests, Senders, Control, TypeOK, HandlersTypeOK
<1>2. CASE BeginUpload(r)
  BY <1>1, <1>2 DEF BeginUpload, Control, TargetsSet
<1>3. ASSUME NEW s \in Slugs, BeginReplace(r, s) PROVE target'[r] = NoSlug \/ target'[r] # target[q]
  <2>1. CASE Lookup(r, s)
    BY <1>1, <1>3, <2>1 DEF BeginReplace, TakesTurn, Lookup
  <2>2. CASE ~Lookup(r, s)
    BY <1>1, <1>3, <2>2 DEF BeginReplace, LookupMisses, LookupFails, Control, TargetsSet
  <2> QED BY <2>1, <2>2
<1>4. ASSUME NEW s \in Slugs, BeginDelete(r, s) PROVE target'[r] = NoSlug \/ target'[r] # target[q]
  <2>1. CASE Lookup(r, s)
    BY <1>1, <1>4, <2>1, KindsAreDisjoint DEF BeginDelete, TakesTurn, Lookup
  <2>2. CASE ~Lookup(r, s)
    BY <1>1, <1>4, <2>2 DEF BeginDelete, LookupMisses, LookupFails, Control, TargetsSet
  <2> QED BY <2>1, <2>2
<1> QED BY <1>1, <1>2, <1>3, <1>4 DEF Accept, Arrive, BeginServe

LEMMA OneWriterStep ==
  ASSUME Control, Ownership, ~Overlap, OneWriter, [Next]_vars
  PROVE  OneWriter'
<1> SUFFICES ASSUME NEW p \in Senders, NEW q \in Senders \cup Deletes, p # q, InFlight(p)',
                    InFlight(q)', target'[p] # NoSlug, target'[p] = target'[q]
             PROVE  FALSE
    BY DEF OneWriter, InFlight
<1>1. /\ p \in Requests /\ q \in Requests /\ pc \in [Requests -> Steps]
      /\ target \in [Requests -> Slugs \cup {NoSlug}]
  BY DEF Requests, Control, TypeOK, HandlersTypeOK
<1>2. ASSUME NEW r \in Requests, NEW x \in Requests, x # r, Accept(r) \/ Handle(r), InFlight(x)'
      PROVE  target'[x] = target[x] /\ InFlight(x)
  BY <1>2, OthersRest DEF Rests, InFlight
<1>3. CASE Accept(p)
  BY <1>1, <1>2, <1>3, AcceptTakesTurn, KindsAreDisjoint
<1>4. CASE Accept(q)
  BY <1>1, <1>2, <1>4, AcceptTakesTurn
<1>5. ASSUME NEW r \in {p, q}, NEW x \in {p, q}, x # r, InsertFresh(r) PROVE FALSE
  <2>1. PICK s \in Slugs : Unused(s) /\ target' = [target EXCEPT ![r] = s]
    BY <1>5 DEF InsertFresh
  <2>2. target[x] = s /\ s # NoSlug
    BY <1>1, <1>5, <2>1, HandlerLimits
  <2> QED BY <1>1, <2>1, <2>2 DEF Ownership, TargetsOwned, Owned, Unused
<1>6. CASE /\ InFlight(p) /\ target'[p] = target[p]
           /\ InFlight(q) /\ target'[q] = target[q]
  BY <1>6 DEF OneWriter
<1> QED BY <1>1, <1>3, <1>4, <1>5, <1>6, WriterAdvances

\* While a writer is on a slug, only its own UPDATE brings another row there.
LEMMA RowOfWriter ==
  ASSUME Control, Ownership, ~Overlap, OneWriter, [Next]_vars,
         NEW q \in Senders \cup Deletes, InFlight(q), target[q] \in Slugs,
         rows'[target[q]] \notin {rows[target[q]], NoRow}
  PROVE  q \in Replaces /\ UpdateRow(q) /\ rows'[target[q]] = mine[q]
<1>1. /\ rows \in [Slugs -> Row \cup {NoRow}] /\ q \in Requests /\ target[q] # NoSlug
  BY HandlerLimits DEF Requests, Control, TypeOK, StoreTypeOK
<1>2. PICK x \in Senders : (InsertFresh(x) \/ UpdateRow(x)) /\ rows'[target[q]] = mine[x]
  BY RowOrigin
<1>3. ~InsertFresh(x)
  <2> SUFFICES ASSUME NEW s \in Slugs, Unused(s), InsertRow(s, mine[x]) PROVE FALSE
      BY DEF InsertFresh
  <2>1. target[q] = s
    BY <1>1 DEF InsertRow
  <2> QED BY <1>1, <2>1 DEF Ownership, TargetsOwned, Owned, Unused
<1>4. UpdateRow(x)
  BY <1>2, <1>3
<1>5. x \in Replaces /\ pc[x] = "updating" /\ rows' = [rows EXCEPT ![target[x]] = mine[x]]
  BY <1>4 DEF UpdateRow, ReplaceRow
<1>6. target[x] = target[q] /\ InFlight(x)
  BY <1>1, <1>5 DEF InFlight, Working
<1>7. x = q
  BY <1>1, <1>6 DEF OneWriter
<1> QED BY <1>2, <1>4, <1>5, <1>7

LEMMA RowsAsHeldStep ==
  ASSUME Control, Ownership, ~Overlap, OneWriter, RowsAsHeld, [Next]_vars
  PROVE  RowsAsHeld'
<1> USE DEF Goto, heldVars
<1>t. /\ pc \in [Requests -> Steps] /\ rows \in [Slugs -> Row \cup {NoRow}]
      /\ target \in [Requests -> Slugs \cup {NoSlug}]
      /\ seen \in [Requests -> Row \cup {NoRow}]
      /\ mine \in [Senders -> Row \cup {NoRow}]
  BY DEF Control, TypeOK, StoreTypeOK, HandlersTypeOK
<1>1. ASSUME NEW q \in Senders, pc'[q] \in {"promoting", "cleaning"}
      PROVE  /\ rows'[target'[q]] \in {mine'[q], NoRow}
             /\ q \in Replaces /\ pc'[q] = "cleaning" => mine'[q].ext # seen'[q].ext
  <2>1. q \in Requests /\ q \notin Deletes \cup Gets
    BY KindsAreDisjoint DEF Requests, Senders
  <2>2. ~Accept(q)
    BY <1>t, <1>1, <2>1 DEF Accept, Arrive, BeginUpload, BeginReplace, BeginDelete, BeginServe,
       OpenPartial, LookupMisses, LookupFails
  <2>3. CASE InsertFresh(q)
    <3>1. PICK s \in Slugs : /\ rows' = [rows EXCEPT ![s] = mine[q]]
                             /\ target' = [target EXCEPT ![q] = s]
      BY <2>3 DEF InsertFresh, InsertRow
    <3>2. rows'[s] = mine[q] /\ target'[q] = s
      BY <1>t, <2>1, <3>1
    <3>3. mine' = mine /\ q \notin Replaces
      BY <2>3, KindsAreDisjoint DEF InsertFresh
    <3> QED BY <3>2, <3>3
  <2>4. CASE UpdateRow(q)
    <3>1. target[q] \in Slugs
      BY <2>4 DEF UpdateRow, Control, TargetsSet, InFlight, Working
    <3>2. pc'[q] = "promoting"
      BY <1>t, <2>1, <2>4 DEF UpdateRow
    <3> QED BY <1>t, <2>4, <3>1, <3>2 DEF UpdateRow, ReplaceRow
  <2>5. CASE Handle(q) /\ ~InsertFresh(q) /\ ~UpdateRow(q)
    <3>1. PromoteReplace(q)
      BY <1>t, <1>1, <2>1, <2>5 DEF Handle, Advance, EndStream, AbortStream, Discard,
         InsertCollides, InsertFails, PromoteUpload, PromoteUploadFails, RollBack,
         UpdateMisses, PromoteReplace, PromoteReplaceFails, CleanOldName, DeleteLink, Unlink, OpenFile
    <3>2. pc[q] = "promoting" /\ rows[target[q]] \in {mine[q], NoRow}
      BY <3>1 DEF PromoteReplace, RowsAsHeld
    <3> QED BY <1>t, <1>1, <2>1, <3>1, <3>2 DEF PromoteReplace
  <2>6. CASE Rests(q) /\ ~InsertFresh(q) /\ ~UpdateRow(q)
    <3>1. /\ pc[q] = pc'[q] /\ target'[q] = target[q] /\ mine'[q] = mine[q] /\ seen'[q] = seen[q]
          /\ InFlight(q)
      BY <1>1, <2>6 DEF Rests, InFlight, Working
    <3>2. rows[target[q]] \in {mine[q], NoRow}
      BY <1>1, <3>1 DEF RowsAsHeld
    <3>3. target[q] \in Slugs
      BY <1>1, <3>1 DEF Control, TargetsSet, StepsOfKind, UploadSteps, Senders
    <3>4. rows'[target[q]] \in {rows[target[q]], NoRow}
      BY <2>6, <3>1, <3>3, RowOfWriter
    <3> QED BY <1>1, <3>1, <3>2, <3>4 DEF RowsAsHeld
  <2> QED BY <2>1, <2>2, <2>3, <2>4, <2>5, <2>6, RequestAdvances
<1>2. ASSUME NEW q \in Replaces \cup Deletes, pc'[q] \in {"streaming", "updating", "deleting"}
      PROVE  rows'[target'[q]] \in {seen'[q], NoRow}
  <2>1. q \in Requests /\ q \notin Uploads \cup Gets
    BY KindsAreDisjoint DEF Requests, Senders
  <2>2. CASE Accept(q)
    <3>1. PICK s \in Slugs : BeginReplace(q, s) \/ BeginDelete(q, s)
      BY <2>1, <2>2 DEF Accept, Arrive, BeginUpload, BeginServe
    <3>2. Lookup(q, s) /\ rows' = rows
      BY <1>t, <1>2, <2>1, <3>1 DEF BeginReplace, BeginDelete, LookupMisses, LookupFails
    <3> QED BY <1>t, <2>1, <3>2 DEF Lookup
  <2>3. CASE Handle(q)
    <3>1. EndStream(q)
      BY <1>t, <1>2, <2>1, <2>3 DEF Handle, Advance, EndStream, AbortStream, Discard, InsertFresh,
         InsertCollides, InsertFails, PromoteUpload, PromoteUploadFails, RollBack, UpdateRow,
         UpdateMisses, PromoteReplace, PromoteReplaceFails, CleanOldName, DeleteLink, Unlink, OpenFile
    <3> QED BY <3>1 DEF EndStream, RowsAsHeld
  <2>4. CASE Rests(q)
    <3>1. pc[q] = pc'[q] /\ target'[q] = target[q] /\ seen'[q] = seen[q] /\ InFlight(q)
      BY <1>2, <2>4 DEF Rests, InFlight, Working
    <3>2. rows[target[q]] \in {seen[q], NoRow}
      BY <1>2, <3>1 DEF RowsAsHeld
    <3>3. target[q] \in Slugs
      BY <3>1 DEF Control, TargetsSet
    <3>4. ~UpdateRow(q)
      BY <1>t, <1>2, <2>1, <3>1 DEF UpdateRow
    <3>5. rows'[target[q]] \in {rows[target[q]], NoRow}
      BY <3>1, <3>3, <3>4, RowOfWriter DEF Senders
    <3> QED BY <3>1, <3>2, <3>5
  <2> QED BY <2>1, <2>2, <2>3, <2>4, RequestAdvances
<1> QED BY <1>1, <1>2 DEF RowsAsHeld, Senders

\* The rename of a sender puts its own bytes behind the row it wrote.
LEMMA PromoteDescribes ==
  ASSUME IInv, ~Overlap, RowsAsHeld, [Next]_vars,
         NEW q \in Senders, PromoteUpload(q) \/ PromoteReplace(q), rows[target[q]] # NoRow
  PROVE  /\ target[q] \in Slugs /\ rows'[target[q]] = mine[q]
         /\ LET f == files'[DiskName(target[q], mine[q].ext)] IN
              f # NoFile /\ f.body = mine[q].body
<1>1. /\ pc[q] = "promoting" /\ files[PartialName(q)] # NoFile /\ rows' = rows
      /\ files' = [files EXCEPT ![DiskName(target[q], mine[q].ext)] = files[PartialName(q)],
                                ![PartialName(q)] = NoFile]
  BY DEF PromoteUpload, PromoteReplace, RenameFile
<1>2. target[q] \in Slugs /\ mine[q] \in Row /\ mine[q] # NoRow
  BY <1>1, SentinelsAreApart DEF IInv, Control, TargetsSet, SendersHold, InFlight, Working, Senders
<1>3. mine[q].body = q /\ files[PartialName(q)].body = q
  BY <1>1, <1>2 DEF IInv, Ownership, BodiesOwn, Durability, ScratchOwn
<1>4. rows'[target[q]] = mine[q]
  BY <1>1 DEF RowsAsHeld
<1>5. mine[q].ext \in Exts
  BY <1>2, RowFields
<1>6. /\ DiskName(target[q], mine[q].ext) \in Names
      /\ DiskName(target[q], mine[q].ext) # PartialName(q)
      /\ files \in [Names -> File \cup {NoFile}]
  BY <1>2, <1>5, KindsAreDisjoint
  DEF IInv, Control, TypeOK, StoreTypeOK, DiskName, PartialName, Names, SlugNames
<1> QED BY <1>1, <1>2, <1>3, <1>4, <1>6

\* Nobody who may remove a file removes the one that the row of its slug names.
LEMMA NamedFileStays ==
  ASSUME Control, Removing, RowsAsHeld, ~Overlap, [Next]_vars,
         NEW s \in Slugs, rows[s] # NoRow, files[DiskName(s, rows[s].ext)] # NoFile,
         ~(phase' = "reaping" /\ rows[s].ext = PartialExt)
  PROVE  files'[DiskName(s, rows[s].ext)] # NoFile
<1> SUFFICES ASSUME files'[DiskName(s, rows[s].ext)] = NoFile PROVE FALSE
    OBVIOUS
<1>1. rows[s].ext \in Exts
  BY RowFields DEF Control, TypeOK, StoreTypeOK
<1>2. ASSUME NEW q \in Replaces, CleanOldName(q), target[q] = s, seen[q].ext = rows[s].ext PROVE FALSE
  <2>1. pc[q] = "cleaning" /\ q \in Senders
    BY <1>2 DEF CleanOldName, Senders
  <2>2. rows[s] = mine[q] /\ mine[q].ext # seen[q].ext
    BY <1>2, <2>1 DEF RowsAsHeld
  <2> QED BY <1>2, <2>2
<1>3. ASSUME NEW d \in Deletes, Unlink(d), target[d] = s PROVE FALSE
  BY <1>3 DEF Unlink, Removing
<1>4. ASSUME SweepFile, sweeping.slug = s PROVE FALSE
  BY <1>4 DEF SweepFile, Removing
<1>5. DiskName(s, rows[s].ext) \notin OrphanFiles
  BY DEF OrphanFiles, KnownNames
<1> QED BY <1>1, <1>2, <1>3, <1>4, <1>5, SlugFileRemoved

LEMMA RowsDescribeStep ==
  ASSUME IInv, ~Overlap, Turns, [Next]_vars
  PROVE  RowsDescribe'
<1> USE DEF Goto, heldVars
<1>0. Control /\ Ownership /\ Removing /\ RowsAsHeld /\ OneWriter /\ RowsDescribe
  BY DEF IInv, Turns
<1>t. /\ pc \in [Requests -> Steps] /\ rows \in [Slugs -> Row \cup {NoRow}]
      /\ target \in [Requests -> Slugs \cup {NoSlug}] /\ mine \in [Senders -> Row \cup {NoRow}]
  BY <1>0 DEF Control, TypeOK, StoreTypeOK, HandlersTypeOK
<1> SUFFICES ASSUME faults' = 0, NEW s \in Slugs, rows'[s] # NoRow, ~HalfDone(s)',
                    ~(NotServing' /\ rows'[s].ext = PartialExt)
             PROVE  LET f == files'[DiskName(s, rows'[s].ext)] IN
                      f # NoFile /\ (rows'[s].ext # PartialExt => f.body = rows'[s].body)
    BY DEF RowsDescribe, DiskName
<1>f. faults = 0 /\ ~Fault
  BY <1>0, CountersGrow DEF Fault
\* Whoever wrote the row has its rename to come.
<1>1. rows'[s] = rows[s]
  <2> SUFFICES ASSUME rows'[s] # rows[s] PROVE FALSE
      OBVIOUS
  <2>1. PICK q \in Senders : InsertFresh(q) \/ UpdateRow(q)
    BY <1>0, RowOrigin
  <2>2. pc'[q] = "promoting" /\ q \in Requests
    BY <1>t, <2>1 DEF InsertFresh, UpdateRow, Requests
  <2>3. CASE InsertFresh(q)
    <3>1. PICK x \in Slugs : rows' = [rows EXCEPT ![x] = mine[q]] /\ target' = [target EXCEPT ![q] = x]
      BY <2>3 DEF InsertFresh, InsertRow
    <3>2. target'[q] = s
      BY <1>t, <2>2, <3>1
    <3> QED BY <2>2, <3>2 DEF HalfDone
  <2>4. CASE UpdateRow(q)
    <3>1. rows' = [rows EXCEPT ![target[q]] = mine[q]] /\ target' = target
      BY <2>4 DEF UpdateRow, ReplaceRow
    <3>2. target'[q] = s
      BY <1>t, <3>1
    <3> QED BY <2>2, <3>2 DEF HalfDone
  <2> QED BY <2>1, <2>3, <2>4
<1>2. CASE HalfDone(s)
  <2>1. PICK q \in Senders \cup Deletes : target[q] = s /\ pc[q] \in {"promoting", "lost"}
    BY <1>2 DEF HalfDone
  <2>2. q \in Requests /\ q \notin Gets
    BY <2>1, KindsAreDisjoint DEF Requests
  <2>3. ~Rests(q)
    BY <2>1 DEF HalfDone, Rests
  <2>4. Handle(q)
    BY <1>0, <2>1, <2>2, <2>3, RequestAdvances DEF Accept, Arrive, BeginUpload, BeginReplace,
       BeginDelete, BeginServe
  <2>5. pc[q] = "promoting" /\ q \in Senders
    BY <1>0, <2>1, <2>2, <2>4, HandleFrame DEF InFlight, Working, Control, StepsOfKind, DeleteSteps
  <2>6. PromoteUpload(q) \/ PromoteReplace(q)
    BY <1>f, <2>4, <2>5 DEF Handle, Advance, EndStream, AbortStream, Discard, InsertFresh,
       InsertCollides, InsertFails, PromoteUploadFails, RollBack, UpdateRow, UpdateMisses,
       PromoteReplaceFails, CleanOldName, DeleteLink, Unlink, OpenFile
  <2> QED BY <1>0, <1>1, <2>1, <2>5, <2>6, PromoteDescribes
<1>3. CASE ~HalfDone(s) /\ NotServing /\ rows[s].ext = PartialExt
  <2>1. phase # phase'
    BY <1>1, <1>3 DEF NotServing
  <2>2. ~NotServing'
    BY <1>1, <1>3
  <2>3. \A r \in Requests : ~InFlight(r)
    BY <1>0, <1>3 DEF Control, QuietOutside, NotServing
  <2>4. \A r \in Requests : ~Accept(r) /\ ~Handle(r) /\ ~LoseClient(r)
    BY <1>0, <2>1, <2>3, HandleFrame DEF Accept, LoseClient, HangUp, bootVars
  <2>5. Listen
    <3>1. ~Clock /\ ~RunSweeper /\ ~Idle /\ ~UNCHANGED vars
      BY <2>1 DEF Clock, RunSweeper, Idle, bootVars, vars
    <3>2. ~Terminate /\ ~Drained /\ ~Exit /\ ~Crash
      BY <1>3, <2>2 DEF NotServing, Terminate, Drained, Exit, Crash, ProcessEnds
    <3>3. ~Boot
      BY <2>2 DEF NotServing, Boot, Start, Repair, ReapPartial, EndReap, ReapOrphan,
         EndReconcileFiles, DropDangling, EndPass, bootVars
    <3> QED BY <2>4, <3>1, <3>2, <3>3 DEF Next
  <2>6. DanglingRows = {} /\ files' = files
    BY <1>f, <2>5 DEF Listen, EndPass
  <2> QED BY <1>1, <1>3, <2>6 DEF DanglingRows
<1>4. CASE ~HalfDone(s) /\ ~(NotServing /\ rows[s].ext = PartialExt)
  <2> DEFINE n == DiskName(s, rows[s].ext)
  <2>1. files[n] # NoFile /\ (rows[s].ext # PartialExt => files[n].body = rows[s].body)
    BY <1>0, <1>1, <1>4, <1>f DEF RowsDescribe
  <2>2. files'[n] # NoFile
    BY <1>0, <1>1, <2>1, NamedFileStays DEF NotServing
  <2>3. files'[n] = files[n]
    <3> SUFFICES ASSUME files'[n] # files[n] PROVE FALSE
        OBVIOUS
    <3>1. rows[s].ext \in Exts
      BY <1>t, <1>1, RowFields
    <3>2. PICK r \in Senders : pc[r] = "promoting" /\ target[r] = s
      BY <1>0, <2>2, <3>1, SlugFileOrigin
    <3> QED BY <1>4, <3>2 DEF HalfDone
  <2> QED BY <1>1, <2>1, <2>3
<1> QED BY <1>2, <1>3, <1>4

LEMMA InitTurns == Init => Turns
<1> SUFFICES ASSUME Init PROVE Turns
    OBVIOUS
<1> USE DEF Init, StoreInit, HandlersInit, SweeperInit, Requests, Senders
<1>1. Removing /\ OneWriter /\ RowsAsHeld
  BY DEF Removing, OneWriter, RowsAsHeld, InFlight, Working
<1>2. RowsDescribe
  BY DEF RowsDescribe
<1> QED BY <1>1, <1>2 DEF Turns

LEMMA TurnsStep == IInv /\ Turns /\ [Next]_vars => Turns'
<1> SUFFICES ASSUME IInv, Turns, [Next]_vars PROVE Turns'
    OBVIOUS
<1>1. Control /\ Ownership /\ Removing
  BY DEF IInv, Turns
<1>2. Removing'
  BY <1>1, RemovingStep
<1>3. ASSUME ~Overlap PROVE OneWriter' /\ RowsAsHeld' /\ RowsDescribe'
  BY <1>1, <1>3, OneWriterStep, RowsAsHeldStep, RowsDescribeStep DEF Turns
<1> QED BY <1>2, <1>3 DEF Turns

\* A slug whose row was taken has none while its file is removed; and if the
\* writers of a link take turns, every row has its file, and it holds the very
\* bytes the row describes, but for a sender that is between the two.
THEOREM TurnsHold == Spec => [](IInv /\ Turns)
<1>1. Init => IInv /\ Turns
  BY InitControl, InitOwnership, InitDurability, InitUndone, InitTurns DEF IInv
<1>2. IInv /\ Turns /\ [Next]_vars => (IInv /\ Turns)'
  BY InvStep, TurnsStep
<1> QED BY <1>1, <1>2, PTL DEF Spec

\* While storage calls succeed and the writers of a link take turns, its row
\* names the file with the very bytes it describes as soon as nobody is
\* writing: for any number of replaces, deletes, sweeps, crashes and boots.
THEOREM RowsDescribeFiles ==
  ASSUME ~Overlap
  PROVE  Spec => []RowDescribesFile
<1>1. IInv /\ Turns => RowDescribesFile
  <2> SUFFICES ASSUME Turns, faults = 0, NEW s \in Slugs, rows[s] # NoRow, ~Unsettled(s),
                      rows[s].ext # PartialExt
               PROVE  LET f == files[DiskName(s, rows[s].ext)] IN
                        f # NoFile /\ f.body = rows[s].body
      BY DEF RowDescribesFile
  <2>1. ~HalfDone(s)
    BY DEF HalfDone, Unsettled, InFlight, Working
  <2> QED BY <2>1 DEF Turns, RowsDescribe
<1> QED BY <1>1, TurnsHold, PTL

=============================================================================
