----------------------------- MODULE StopProofs -----------------------------
(***************************************************************************)
(* What a drained shutdown leaves behind: theorems about KShared on top of *)
(* all the invariants before it.                                           *)
(***************************************************************************)
EXTENDS TurnProofs

-----------------------------------------------------------------------------
(* Steps of the process.                                                   *)

\* What fails, dies or hangs up is never forgotten.
LEMMA UndisturbedBefore ==
  ASSUME Control, [Next]_vars, Undisturbed'
  PROVE  Undisturbed /\ ~Fault /\ ~Crash
<1>1. faults = 0 /\ cancelled = {} /\ ~Fault
  BY CountersGrow DEF Undisturbed, Fault
<1>2. crashes \in Nat
  BY LifeLimits DEF Control, TypeOK
<1>3. ~Crash
  BY <1>2 DEF Crash, Undisturbed
<1>4. crashes' = crashes
  <2> USE DEF lifeVars
  <2>1. ASSUME NEW r \in Requests, Accept(r) \/ Handle(r) \/ LoseClient(r) PROVE crashes' = crashes
    BY <2>1 DEF Accept, Handle, LoseClient
  <2>2. CASE Clock \/ Boot \/ Listen \/ RunSweeper \/ Terminate \/ Drained \/ Exit \/ UNCHANGED vars
    BY <2>2 DEF Clock, Boot, Listen, EndPass, RunSweeper, Terminate, Drained, Exit, vars
  <2> QED BY <1>3, <2>1, <2>2 DEF Next, Idle
<1> QED BY <1>1, <1>3, <1>4 DEF Undisturbed

\* A process goes down by an exit or a kill.
LEMMA DownByExit ==
  ASSUME [Next]_vars, phase # "down", phase' = "down"
  PROVE  Exit \/ Crash
<1> USE DEF bootVars
<1>1. ASSUME NEW r \in Requests PROVE ~Accept(r) /\ ~Handle(r) /\ ~LoseClient(r)
  BY DEF Accept, Handle, LoseClient
<1>2. ~(Clock \/ Boot \/ Listen \/ RunSweeper \/ Terminate \/ Drained \/ UNCHANGED vars)
  BY DEF Clock, Boot, Start, Repair, ReapPartial, EndReap, ReapOrphan, EndReconcileFiles,
     DropDangling, Listen, EndPass, RunSweeper, Terminate, Drained, vars
<1> QED BY <1>1, <1>2 DEF Next, Idle

\* Once the listener has drained, nothing is let in any more.
LEMMA DrainingStep == Control /\ Draining /\ [Next]_vars => Draining'
<1> SUFFICES ASSUME Control, Draining, [Next]_vars, phase' = "stopping",
                    NEW r \in Requests, InFlight(r)'
             PROVE  r \in cancelled'
    BY DEF Draining, InFlight
<1>1. cancelled \subseteq cancelled'
  BY CountersGrow
<1>2. CASE phase = "stopping"
  <2>1. ~Accept(r)
    BY <1>2 DEF Accept
  <2>2. InFlight(r)
    BY <2>1, WriterAdvances DEF InsertFresh, InFlight, Working
  <2> QED BY <1>1, <1>2, <2>2 DEF Draining
<1>3. CASE phase # "stopping"
  <2> USE DEF bootVars
  <2>1. ASSUME NEW x \in Requests PROVE ~Accept(x) /\ ~Handle(x) /\ ~LoseClient(x)
    BY <1>3 DEF Accept, Handle, LoseClient
  <2>2. ~(Clock \/ Boot \/ Listen \/ RunSweeper \/ Terminate \/ Exit \/ Crash \/ UNCHANGED vars)
    BY <1>3 DEF Clock, Boot, Start, Repair, ReapPartial, EndReap, ReapOrphan, EndReconcileFiles,
       DropDangling, Listen, EndPass, RunSweeper, Terminate, Exit, Crash, ProcessEnds, vars
  <2>3. Drained
    BY <2>1, <2>2 DEF Next, Idle
  <2> QED BY <2>3 DEF Drained, requestVars, shownVars, InFlight
<1> QED BY <1>2, <1>3

\* What a committed replace held when it stamped its row does not change.
LEMMA OutlivedStays ==
  ASSUME Control, Ownership, [Next]_vars, NEW s \in Slugs, Outlived(s)
  PROVE  Outlived(s)'
<1> USE DEF Goto, heldVars
<1>1. PICK q \in Replaces \cap committed : target[q] = s /\ ~StampedInTime(q)
  BY DEF Outlived
<1>2. /\ q \in Requests /\ q \in Senders /\ q \notin Uploads \cup Deletes \cup Gets
      /\ pc[q] \notin {"new", "streaming", "inserting", "updating"}
  BY <1>1, KindsAreDisjoint DEF Requests, Senders, Ownership, WrittenIsFinal, Written
<1>3. q \in committed'
  BY <1>1, ForwardStep DEF Forward
<1>4. ~Accept(q)
  BY <1>2 DEF Accept, Arrive, BeginUpload, BeginReplace, BeginDelete, BeginServe
<1>5. target'[q] = target[q] /\ mine'[q] = mine[q] /\ seen'[q] = seen[q]
  <2>1. CASE Handle(q)
    BY <1>2, <2>1 DEF Handle, Advance, EndStream, AbortStream, Discard, InsertFresh,
       InsertCollides, InsertFails, PromoteUpload, PromoteUploadFails, RollBack, UpdateRow,
       UpdateMisses, PromoteReplace, PromoteReplaceFails, CleanOldName, DeleteLink, Unlink, OpenFile
  <2>2. CASE Rests(q)
    BY <1>2, <2>2 DEF Rests
  <2> QED BY <1>2, <1>4, <2>1, <2>2, RequestAdvances
<1>6. ~StampedInTime(q)'
  BY <1>1, <1>5 DEF StampedInTime
<1> QED BY <1>1, <1>3, <1>5, <1>6 DEF Outlived

-----------------------------------------------------------------------------
(* The parts of Accounts.                                                  *)

\* An exit after a drained shutdown interrupts no request.
LEMMA NoneLostStep ==
  ASSUME Control, Draining, NoneLost, Undisturbed', [Next]_vars
  PROVE  NoneLost'
<1> USE DEF Goto
<1> SUFFICES ASSUME NEW r \in Requests, pc'[r] = "lost" PROVE FALSE
    BY DEF NoneLost
<1>1. pc \in [Requests -> Steps] /\ pc[r] # "lost"
  BY DEF Control, TypeOK, HandlersTypeOK, NoneLost
<1>2. ~Accept(r)
  BY <1>1 DEF Accept, Arrive, BeginUpload, BeginReplace, BeginDelete, BeginServe, OpenPartial,
     LookupMisses, LookupFails
<1>3. ~Handle(r)
  BY <1>1 DEF Handle, Advance, EndStream, AbortStream, Discard, InsertFresh,
     InsertCollides, InsertFails, PromoteUpload, PromoteUploadFails, RollBack, UpdateRow,
     UpdateMisses, PromoteReplace, PromoteReplaceFails, CleanOldName, DeleteLink, Unlink, OpenFile
<1>4. InFlight(r) /\ phase' = "down"
  BY <1>1, <1>2, <1>3, RequestAdvances DEF Rests
<1>5. phase # "down"
  BY <1>4 DEF Control, QuietOutside
<1>6. Exit
  BY <1>4, <1>5, DownByExit, UndisturbedBefore
<1>7. r \in cancelled
  BY <1>4, <1>6 DEF Exit, Draining
<1> QED BY <1>7, UndisturbedBefore DEF Undisturbed

\* A scratch file is written by its own request, while it streams.
LEMMA ScratchOrigin ==
  ASSUME Control, [Next]_vars, NEW q \in Senders,
         files'[PartialName(q)] # NoFile, files'[PartialName(q)] # files[PartialName(q)]
  PROVE  pc'[q] \in {"streaming", "inserting", "updating"}
<1> USE DEF Goto, heldVars, shownVars, storeVars, bootVars
<1> DEFINE n == PartialName(q)
<1>1. /\ files \in [Names -> File \cup {NoFile}] /\ StepsOfKind /\ n \in Names
      /\ pc \in [Requests -> Steps] /\ q \in Requests
      /\ \A r \in Senders : n = PartialName(r) => r = q
      /\ \A s \in Slugs : \A e : n # DiskName(s, e)
  BY KindsAreDisjoint DEF Control, TypeOK, StoreTypeOK, HandlersTypeOK, Names, PartialNames,
     DiskName, PartialName, Requests
<1>d. files'[n] # NoFile /\ files'[n] # files[n]
  OBVIOUS
<1> HIDE DEF n
<1>2. ASSUME \/ files' = files
             \/ \E m : files' = [files EXCEPT ![m] = NoFile]
      PROVE  FALSE
  BY <1>1, <1>d, <1>2
<1>3. ASSUME NEW r \in Requests, Accept(r) PROVE pc'[q] = "streaming"
  <2>1. \/ files' = files
        \/ /\ r \in Senders /\ \E f : files' = [files EXCEPT ![PartialName(r)] = f]
           /\ pc' = [pc EXCEPT ![r] = "streaming"]
    BY <1>3 DEF Accept, Arrive, BeginUpload, BeginReplace, BeginDelete, BeginServe, OpenPartial,
       CreateFile, Senders
  <2> QED BY <1>1, <1>2, <1>d, <2>1
<1>4. ASSUME NEW r \in Requests, Handle(r) PROVE pc'[q] \in {"inserting", "updating"}
  <2>1. CASE PromoteUpload(r) \/ PromoteReplace(r)
    <3>1. /\ r \in Senders /\ target[r] \in Slugs
          /\ files' = [files EXCEPT ![DiskName(target[r], mine[r].ext)] = files[PartialName(r)],
                                    ![PartialName(r)] = NoFile]
      BY <2>1 DEF PromoteUpload, PromoteReplace, RenameFile, Senders, Control, TargetsSet,
         InFlight, Working
    <3> QED BY <1>1, <1>d, <3>1
  <2>2. CASE EndStream(r)
    <3>1. r \in Senders
      BY <1>1, <2>2 DEF EndStream, StepsOfKind, DeleteSteps, GetSteps, Requests, Senders
    <3>2. PartialName(r) = n
      BY <1>1, <1>d, <2>2 DEF EndStream, FinishFile
    <3> QED BY <1>1, <2>2, <3>1, <3>2 DEF EndStream
  <2>3. CASE ~(PromoteUpload(r) \/ PromoteReplace(r) \/ EndStream(r))
    <3>1. files' = files \/ \E m : files' = [files EXCEPT ![m] = NoFile]
      BY <1>4, <2>3 DEF Handle, Advance, AbortStream, Discard, InsertFresh, InsertCollides,
         InsertFails, PromoteUploadFails, RollBack, UpdateRow, UpdateMisses, PromoteReplaceFails,
         CleanOldName, DeleteLink, Unlink, OpenFile, TryRemove, RemoveFile
    <3> QED BY <1>2, <3>1
  <2> QED BY <2>1, <2>2, <2>3
<1>5. ~(RunSweeper \/ Boot \/ Listen)
  <2>1. ASSUME RunSweeper \/ Boot \/ Listen
        PROVE  files' = files \/ \E m : files' = [files EXCEPT ![m] = NoFile]
    BY <2>1 DEF RunSweeper, Sweep, BeginSweep, SkipSweep, SweepRow, SkipRow, SweepFile,
       StopSweeper, TryRemove, RemoveFile, Boot, Listen, Start, Repair, ReapPartial, EndReap,
       ReapOrphan, EndReconcileFiles, DropDangling, EndPass
  <2> QED BY <1>2, <2>1
<1>6. ~(Clock \/ Terminate \/ Drained \/ Exit \/ Crash \/ UNCHANGED vars)
  BY <1>2 DEF Clock, Tick, Terminate, Drained, Exit, Crash, ProcessEnds, vars
<1>7. ASSUME NEW r \in Requests, LoseClient(r) PROVE FALSE
  BY <1>2, <1>7 DEF LoseClient, HangUp
<1> QED BY <1>3, <1>4, <1>5, <1>6, <1>7 DEF Next, Idle

\* Every way out of a handler but a failed call renames or drops the scratch file.
LEMMA ScratchHeldStep ==
  ASSUME Control, ScratchHeld, [Next]_vars
  PROVE  ScratchHeld'
<1> USE DEF Goto
<1> DEFINE Holding == {"streaming", "inserting", "updating", "promoting", "discarding", "lost"}
<1> SUFFICES ASSUME faults' = 0, NEW q \in Senders, files'[PartialName(q)] # NoFile
             PROVE  pc'[q] \in Holding
    BY DEF ScratchHeld, PartialName
<1>0. faults = 0 /\ ~Fault
  BY CountersGrow DEF Fault
<1>1. /\ files \in [Names -> File \cup {NoFile}] /\ PartialName(q) \in Names
      /\ pc \in [Requests -> Steps] /\ q \in Requests /\ ~Fault
  BY <1>0
  DEF Control, TypeOK, StoreTypeOK, HandlersTypeOK, Names, PartialNames, PartialName, Requests
<1>2. CASE files'[PartialName(q)] # files[PartialName(q)]
  BY <1>2, ScratchOrigin
<1>3. CASE files'[PartialName(q)] = files[PartialName(q)]
  <2>1. pc[q] \in Holding
    BY <1>0, <1>3 DEF ScratchHeld
  <2>2. ~Accept(q)
    BY <2>1 DEF Accept, Arrive, BeginUpload, BeginReplace, BeginDelete, BeginServe
  <2>3. CASE Rests(q)
    BY <1>1, <2>1, <2>3 DEF Rests
  <2>4. CASE Handle(q)
    <3>1. ~AbortStream(q) /\ ~Discard(q)
      BY <1>1 DEF AbortStream, Discard, TryRemove, RemoveFile
    <3>2. ~PromoteUpload(q) /\ ~PromoteReplace(q)
      BY <1>1 DEF PromoteUpload, PromoteReplace, RenameFile
    <3> QED
      BY <1>1, <2>1, <2>4, <3>1, <3>2 DEF Handle, Advance, EndStream, InsertFresh, InsertCollides,
         InsertFails, PromoteUploadFails, RollBack, UpdateRow, UpdateMisses, PromoteReplaceFails,
         CleanOldName, DeleteLink, Unlink, OpenFile
  <2> QED BY <1>1, <2>2, <2>3, <2>4, RequestAdvances
<1> QED BY <1>2, <1>3

\* Nothing takes a row before the rename of its file: clients wait for their
\* turn, and the sweeper's snapshot holds only rows that have lapsed.
LEMMA RowsAwaitFileStep ==
  ASSUME IInv, Turns, Schedule, RowsAwaitFile, SnapshotTrue, Undisturbed', [Next]_vars
  PROVE  RowsAwaitFile'
<1> USE DEF Goto, heldVars
<1> SUFFICES ASSUME NEW q \in Senders, pc'[q] = "promoting", ~(Outlived(target[q])'),
                    rows'[target'[q]] # mine'[q]
             PROVE  FALSE
    BY DEF RowsAwaitFile, Outlived, StampedInTime
<1>0. /\ Control /\ Ownership /\ Undone
      /\ Undisturbed /\ Removing /\ OneWriter /\ RowsAsHeld /\ Paced
  BY UndisturbedBefore DEF IInv, Turns, Undisturbed, Schedule
<1>t. /\ pc \in [Requests -> Steps] /\ rows \in [Slugs -> Row \cup {NoRow}]
      /\ target \in [Requests -> Slugs \cup {NoSlug}] /\ mine \in [Senders -> Row \cup {NoRow}]
      /\ now \in Nat
      /\ q \in Requests /\ q \notin Deletes \cup Gets
  BY <1>0, LimitsAreNumbers, KindsAreDisjoint
  DEF Control, TypeOK, StoreTypeOK, HandlersTypeOK, Requests, Senders
<1>1. rows'[target'[q]] = NoRow
  <2>1. RowsAsHeld'
    BY <1>0, RowsAsHeldStep DEF Undisturbed
  <2> QED BY <2>1 DEF RowsAsHeld
<1>2. ~Accept(q)
  BY <1>t DEF Accept, Arrive, BeginUpload, BeginReplace, BeginDelete, BeginServe,
     OpenPartial, LookupMisses, LookupFails
<1>3. ~InsertFresh(q)
  <2> SUFFICES ASSUME InsertFresh(q) PROVE FALSE
      OBVIOUS
  <2>1. PICK s \in Slugs : /\ rows' = [rows EXCEPT ![s] = mine[q]]
                           /\ target' = [target EXCEPT ![q] = s]
    BY DEF InsertFresh, InsertRow
  <2>2. rows'[target'[q]] = mine[q] /\ mine' = mine
    BY <1>t, <2>1 DEF InsertFresh
  <2> QED BY <2>2
<1>4. ~UpdateRow(q)
  <2> SUFFICES ASSUME UpdateRow(q) PROVE FALSE
      OBVIOUS
  <2>1. target[q] \in Slugs
    BY <1>0 DEF UpdateRow, Control, TargetsSet, InFlight, Working
  <2> QED BY <1>t, <2>1 DEF UpdateRow, ReplaceRow
<1>5. ~Handle(q)
  BY <1>t, <1>3, <1>4 DEF Handle, Advance, EndStream, AbortStream, Discard,
     InsertCollides, InsertFails, PromoteUpload, PromoteUploadFails, RollBack,
     UpdateMisses, PromoteReplace, PromoteReplaceFails, CleanOldName, DeleteLink, Unlink, OpenFile
<1>6. pc[q] = "promoting" /\ target'[q] = target[q] /\ mine'[q] = mine[q]
  BY <1>0, <1>t, <1>2, <1>5, RequestAdvances DEF Rests
<1>7. InFlight(q) /\ target[q] \in Slugs /\ target[q] # NoSlug
  BY <1>0, <1>6, HandlerLimits DEF InFlight, Working, Control, TargetsSet, Senders
<1>o. ~Outlived(target[q])
  <2>1. ~(Outlived(target[q])') /\ target'[q] \in Slugs
    BY <1>6, <1>7
  <2> QED BY <1>0, <1>6, <1>7, <2>1, OutlivedStays
<1>8. rows[target[q]] = mine[q] /\ mine[q] \in Row /\ mine[q] # NoRow
  BY <1>0, <1>6, <1>o, SentinelsAreApart DEF RowsAwaitFile, Control, SendersHold
<1>9. ASSUME NEW u \in Uploads, pc[u] = "rolling" PROVE FALSE
  BY <1>0, <1>9 DEF Undone, Undisturbed
<1>10. ASSUME NEW d \in Deletes, DeleteLink(d), target[d] = target[q] PROVE FALSE
  BY <1>0, <1>7, <1>t, <1>10 DEF OneWriter, DeleteLink, InFlight, Working
<1>11. ASSUME NEW i \in queue, i.slug = target[q] PROVE FALSE
  <2>1. i.row = mine[q]
    BY <1>8, <1>11, <1>o DEF SnapshotTrue
  <2>2. Expiry(mine[q]) <= now
    BY <1>0, <2>1 DEF Ownership, SweepsLapsed, LapsedEntry, Lapsed
  <2>3. Expiry(mine[q]) > now
    BY <1>0, <1>6 DEF Paced, Undisturbed
  <2>4. Expiry(mine[q]) \in Nat
    BY <1>8, RowFields DEF Expiry
  <2> QED BY <1>t, <2>2, <2>3, <2>4
<1>12. phase # "rows"
  BY <1>0, <1>7 DEF Control, QuietOutside, Requests, Senders
<1> QED BY <1>0, <1>1, <1>6, <1>7, <1>8, <1>9, <1>10, <1>11, <1>12, RowRemoved

\* A replace of a lapsed row, under the sweeper's eyes, has outlived it; and a
\* slug gets no other row once its own is gone.
LEMMA SnapshotTrueStep ==
  ASSUME IInv, Turns, Schedule, SnapshotTrue, Undisturbed', [Next]_vars
  PROVE  SnapshotTrue'
<1> SUFFICES ASSUME NEW i \in queue', ~Outlived(i.slug)' PROVE rows'[i.slug] \in {i.row, NoRow}
    BY DEF SnapshotTrue
<1>0. /\ Control /\ Ownership /\ Undisturbed /\ RowsAsHeld /\ Paced
  BY UndisturbedBefore DEF IInv, Turns, Undisturbed, Schedule
<1>t. /\ queue \subseteq Entry /\ rows \in [Slugs -> Row \cup {NoRow}] /\ now \in Nat
  BY <1>0, LimitsAreNumbers DEF Control, TypeOK, StoreTypeOK, SweeperTypeOK
<1>1. CASE i \in queue
  <2> SUFFICES ASSUME rows'[i.slug] # i.row, rows'[i.slug] # NoRow PROVE FALSE
      OBVIOUS
  <2>0. i.slug \in Slugs /\ i.row \in Row /\ LapsedEntry(i)
    BY <1>0, <1>1, <1>t DEF Entry, Ownership, SweepsLapsed
  <2>1. /\ i.slug \in Slugs /\ i.row \in Row /\ LapsedEntry(i)
        /\ rows[i.slug] \in {i.row, NoRow}
    BY <1>0, <1>1, <2>0, OutlivedStays DEF SnapshotTrue
  <2>2. rows[i.slug] = i.row
    BY <1>0, <2>1, GoneStays DEF LapsedEntry
  <2>3. PICK q \in Senders : InsertFresh(q) \/ UpdateRow(q)
    BY <1>0, <2>1, <2>2, RowOrigin
  <2>4. CASE InsertFresh(q)
    <3>1. PICK s \in Slugs : rows[s] = NoRow /\ rows' = [rows EXCEPT ![s] = mine[q]]
      BY <2>4 DEF InsertFresh, InsertRow
    <3>2. s = i.slug
      BY <1>t, <2>1, <2>2, <3>1
    <3> QED BY <2>1, <2>2, <3>1, <3>2, SentinelsAreApart
  <2>5. CASE UpdateRow(q)
    <3>1. /\ q \in Replaces /\ pc[q] = "updating" /\ rows[target[q]] # NoRow
          /\ rows' = [rows EXCEPT ![target[q]] = mine[q]]
      BY <2>5 DEF UpdateRow, ReplaceRow
    <3>2. target[q] = i.slug
      BY <1>t, <2>1, <2>2, <3>1
    <3>3. seen[q] = i.row
      BY <1>0, <2>2, <3>1, <3>2 DEF RowsAsHeld
    <3>4. Expiry(i.row) <= now /\ Expiry(i.row) \in Nat
      BY <2>1, RowFields DEF LapsedEntry, Lapsed, Expiry
    <3>5. ~StampedInTime(q)
      BY <1>0, <1>t, <3>1, <3>3, <3>4 DEF Paced, Undisturbed
    <3>6. q \in committed' /\ UNCHANGED <<target, seen, mine>>
      BY <2>5 DEF UpdateRow, heldVars
    <3>7. target'[q] = i.slug /\ ~StampedInTime(q)'
      BY <3>2, <3>5, <3>6 DEF StampedInTime
    <3> QED BY <3>1, <3>6, <3>7 DEF Outlived
  <2> QED BY <2>3, <2>4, <2>5
<1>2. CASE i \notin queue
  <2>1. RunSweeper
    BY <1>0, <1>2, SweeperRests
  <2>2. BeginSweep
    BY <1>2, <2>1 DEF RunSweeper, Sweep, SkipSweep, SweepRow, SkipRow, SweepFile, StopSweeper,
       NextRow, AwaitTick
  <2>3. i \in ListExpired /\ rows' = rows
    BY <2>2 DEF BeginSweep, storeVars
  <2> QED BY <2>3 DEF ListExpired
<1> QED BY <1>1, <1>2

\* Whoever is on the way to remove a file gets there, or removes it.
LEMMA RemovalStays ==
  ASSUME Control, Undisturbed', NoneLost', [Next]_vars, NEW s \in Slugs, NEW e \in Exts,
         Removal(s, e), files'[DiskName(s, e)] # NoFile
  PROVE  Removal(s, e)'
<1> USE DEF Goto, heldVars
<1>t. /\ pc \in [Requests -> Steps] /\ files \in [Names -> File \cup {NoFile}]
      /\ DiskName(s, e) \in Names
      /\ ~Fault /\ ~Crash
  BY UndisturbedBefore
  DEF Control, TypeOK, StoreTypeOK, HandlersTypeOK, DiskName, Names, SlugNames
<1>1. files' # [files EXCEPT ![DiskName(s, e)] = NoFile]
  BY <1>t
<1>2. ASSUME NEW q \in Replaces, target[q] = s, seen[q].ext = e,
             pc[q] \in {"promoting", "cleaning"}, mine[q].ext # e
      PROVE  Removal(s, e)'
  <2>1. q \in Requests /\ q \in Senders /\ q \notin Uploads
    BY KindsAreDisjoint DEF Requests, Senders
  <2>2. ~Accept(q)
    BY <1>2 DEF Accept, Arrive, BeginUpload, BeginReplace, BeginDelete, BeginServe
  <2>3. Handle(q) => PromoteReplace(q)
    <3>1. ~CleanOldName(q)
      BY <1>1, <1>2, <1>t DEF CleanOldName, TryRemove, RemoveFile
    <3> QED BY <1>2, <1>t, <2>1, <3>1 DEF Handle, Advance, EndStream, AbortStream, Discard,
         InsertFresh, InsertCollides, InsertFails, PromoteUpload, PromoteUploadFails, RollBack,
         UpdateRow, UpdateMisses, PromoteReplaceFails, DeleteLink, Unlink, OpenFile
  <2>4. /\ pc'[q] \in {"promoting", "cleaning"}
        /\ target'[q] = target[q] /\ seen'[q] = seen[q] /\ mine'[q] = mine[q]
    <3>1. CASE PromoteReplace(q)
      BY <1>2, <1>t, <2>1, <3>1 DEF PromoteReplace
    <3>2. CASE Rests(q)
      BY <1>2, <2>1, <3>2 DEF Rests, NoneLost
    <3> QED BY <2>1, <2>2, <2>3, <3>1, <3>2, RequestAdvances
  <2> QED BY <1>2, <2>4 DEF Removal
<1>3. ASSUME NEW d \in Deletes, target[d] = s, seen[d].ext = e, pc[d] = "unlinking"
      PROVE  Removal(s, e)'
  <2>1. d \in Requests
    BY DEF Requests
  <2>2. ~Accept(d)
    BY <1>3 DEF Accept, Arrive, BeginUpload, BeginReplace, BeginDelete, BeginServe
  <2>3. ~Handle(d)
    <3>1. ~Unlink(d)
      BY <1>1, <1>3, <1>t DEF Unlink, TryRemove, RemoveFile
    <3> QED BY <1>3, <3>1 DEF Handle, Advance, EndStream, AbortStream, Discard,
         InsertFresh, InsertCollides, InsertFails, PromoteUpload, PromoteUploadFails, RollBack,
         UpdateRow, UpdateMisses, PromoteReplace, PromoteReplaceFails, CleanOldName, DeleteLink,
         OpenFile
  <2>4. pc'[d] = "unlinking" /\ target'[d] = target[d] /\ seen'[d] = seen[d]
    BY <1>3, <2>1, <2>2, <2>3, RequestAdvances DEF Rests, NoneLost
  <2> QED BY <1>3, <2>4 DEF Removal
<1>4. ASSUME sweep = "file", sweeping.slug = s, sweeping.row.ext = e
      PROVE  Removal(s, e)'
  <2>1. ~RunSweeper
    <3>1. ~SweepFile
      BY <1>1, <1>4, <1>t DEF SweepFile, TryRemove, RemoveFile
    <3> QED BY <1>4, <3>1 DEF RunSweeper, Sweep, BeginSweep, SkipSweep, SweepRow, SkipRow, StopSweeper
  <2>2. ~Exit
    BY <1>4 DEF Exit
  <2>3. sweep' = sweep /\ sweeping' = sweeping
    BY <1>4, <1>t, <2>1, <2>2, SweeperRests
  <2> QED BY <1>4, <2>3 DEF Removal
<1> QED BY <1>2, <1>3, <1>4 DEF Removal

\* A file that loses its row, by a delete, an UPDATE or the sweeper, is about
\* to be removed by whoever took it.
LEMMA FilesAccountedStep ==
  ASSUME IInv, Turns, RowsAwaitFile, SnapshotTrue, FilesAccounted, NoneLost',
         Undisturbed', [Next]_vars
  PROVE  FilesAccounted'
<1> USE DEF Goto, heldVars
<1> SUFFICES ASSUME NEW s \in Slugs, NEW e \in Exts \ {PartialExt},
                    files'[DiskName(s, e)] # NoFile, ~Outlived(s)'
             PROVE  (rows'[s] # NoRow /\ rows'[s].ext = e) \/ Removal(s, e)'
    BY DEF FilesAccounted, DiskName
<1>0. Control /\ Ownership /\ Undone /\ Undisturbed /\ RowsAsHeld
  BY UndisturbedBefore DEF IInv, Turns, Undisturbed
<1>o. ~Outlived(s)
  BY <1>0, OutlivedStays
<1>t. /\ pc \in [Requests -> Steps] /\ rows \in [Slugs -> Row \cup {NoRow}]
      /\ mine \in [Senders -> Row \cup {NoRow}]
  BY <1>0 DEF Control, TypeOK, StoreTypeOK, HandlersTypeOK
<1>1. CASE files'[DiskName(s, e)] # files[DiskName(s, e)]
  <2>1. PICK r \in Senders : /\ pc[r] = "promoting" /\ target[r] = s /\ mine[r].ext = e
                             /\ PromoteUpload(r) \/ PromoteReplace(r)
    BY <1>0, <1>1, SlugFileOrigin
  <2>2. rows[s] = mine[r] /\ mine[r] # NoRow /\ rows' = rows
    BY <1>0, <1>o, <2>1, SentinelsAreApart
    DEF RowsAwaitFile, Control, SendersHold, PromoteUpload, PromoteReplace
  <2> QED BY <2>1, <2>2
<1>2. CASE files'[DiskName(s, e)] = files[DiskName(s, e)] /\ Removal(s, e)
  BY <1>0, <1>2, RemovalStays
<1>3. CASE files[DiskName(s, e)] # NoFile /\ rows[s] # NoRow /\ rows[s].ext = e
  <2>1. CASE rows'[s] = rows[s]
    BY <1>3, <2>1
  <2>2. CASE rows'[s] = NoRow
    <3>1. ASSUME NEW u \in Uploads, pc[u] = "rolling" PROVE FALSE
      BY <1>0, <3>1 DEF Undone, Undisturbed
    <3>2. ASSUME NEW d \in Deletes, DeleteLink(d), pc'[d] = "unlinking", target[d] = s
          PROVE  Removal(s, e)'
      <4>1. seen[d] = rows[s]
        BY <1>0, <1>3, <3>2 DEF DeleteLink, RowsAsHeld
      <4> QED BY <1>3, <3>2, <4>1 DEF DeleteLink, Removal
    <3>3. ASSUME SweepRow, sweeping' \in queue, sweeping'.slug = s PROVE Removal(s, e)'
      <4>1. sweeping'.row = rows[s]
        BY <1>3, <1>o, <3>3 DEF SnapshotTrue
      <4> QED BY <1>3, <3>3, <4>1 DEF SweepRow, Removal
    <3>4. s \notin DanglingRows
      BY <1>3 DEF DanglingRows
    <3> QED BY <1>0, <1>3, <2>2, <3>1, <3>2, <3>3, <3>4, RowRemoved
  <2>3. CASE rows'[s] # rows[s] /\ rows'[s] # NoRow
    <3>1. PICK q \in Senders : InsertFresh(q) \/ UpdateRow(q)
      BY <1>0, <2>3, RowOrigin
    <3>2. ~InsertFresh(q)
      BY <1>3, <1>t, <2>3 DEF InsertFresh, InsertRow
    <3>3. /\ q \in Replaces /\ q \in Requests /\ pc[q] = "updating"
          /\ rows' = [rows EXCEPT ![target[q]] = mine[q]]
          /\ pc' = [pc EXCEPT ![q] = "promoting"] /\ UNCHANGED <<target, seen, mine>>
      BY <3>1, <3>2 DEF UpdateRow, ReplaceRow, Requests
    <3>4. target[q] = s /\ rows'[s] = mine[q] /\ pc'[q] = "promoting"
      BY <1>t, <2>3, <3>3
    <3>5. seen[q] = rows[s]
      BY <1>0, <1>3, <3>3, <3>4 DEF RowsAsHeld
    <3>6. CASE mine[q].ext = e
      BY <2>3, <3>4, <3>6
    <3>7. CASE mine[q].ext # e
      BY <1>3, <3>3, <3>4, <3>5, <3>7 DEF Removal
    <3> QED BY <3>6, <3>7
  <2> QED BY <2>1, <2>2, <2>3
<1> QED BY <1>1, <1>2, <1>3, <1>o DEF FilesAccounted

-----------------------------------------------------------------------------
(* Accounts is an invariant.                                               *)

LEMMA InitAccounts == Init => Accounts
<1> SUFFICES ASSUME Init PROVE Accounts
    OBVIOUS
<1> USE DEF Init, StoreInit, HandlersInit, SweeperInit, BootInit
<1>1. Draining /\ NoneLost
  BY DEF Draining, NoneLost
<1>2. ScratchHeld
  <2>1. \A q \in Senders : PartialName(q) \in Names
    BY DEF PartialName, Names, PartialNames
  <2> QED BY <2>1 DEF ScratchHeld
<1>3. RowsAwaitFile /\ SnapshotTrue
  BY DEF RowsAwaitFile, SnapshotTrue, Requests
<1>4. FilesAccounted
  <2>1. \A s \in Slugs, e \in Exts : DiskName(s, e) \in Names
    BY DEF DiskName, Names, SlugNames
  <2> QED BY <2>1 DEF FilesAccounted
<1> QED BY <1>1, <1>2, <1>3, <1>4 DEF Accounts

LEMMA AccountsStep == IInv /\ Turns /\ Schedule /\ Accounts /\ [Next]_vars => Accounts'
<1> SUFFICES ASSUME IInv, Turns, Schedule, Accounts, [Next]_vars PROVE Accounts'
    OBVIOUS
<1>1. Control /\ Draining
  BY DEF IInv, Accounts
<1>2. Draining'
  BY <1>1, DrainingStep
<1>3. ScratchHeld'
  BY <1>1, ScratchHeldStep DEF Accounts
<1>4. ASSUME Undisturbed'
      PROVE  (NoneLost /\ RowsAwaitFile /\ SnapshotTrue /\ FilesAccounted)'
  <2>1. NoneLost /\ RowsAwaitFile /\ SnapshotTrue /\ FilesAccounted
    BY <1>1, <1>4, UndisturbedBefore DEF Accounts
  <2>2. NoneLost'
    BY <1>1, <1>4, <2>1, NoneLostStep
  <2>3. RowsAwaitFile' /\ SnapshotTrue'
    BY <1>4, <2>1, RowsAwaitFileStep, SnapshotTrueStep
  <2>4. FilesAccounted'
    BY <1>4, <2>1, <2>2, FilesAccountedStep
  <2> QED BY <2>2, <2>3, <2>4
<1> QED BY <1>2, <1>3, <1>4 DEF Accounts

\* Scratch files have their sender in flight, or lost with its process, as
\* long as no call has failed.  If besides clients take turns, no call is slow,
\* and none died or hung up, a file under a slug has its row, or the request or
\* sweep that is about to remove it, and the sweeper's snapshot is true, unless
\* a replace of the slug outlived the row it saw.  Once the listener has
\* drained, only hung-up requests run.
THEOREM AccountsHold == Spec => [](IInv /\ Turns /\ Schedule /\ Accounts)
<1>1. Init => IInv /\ Turns /\ Schedule /\ Accounts
  BY InitControl, InitOwnership, InitDurability, InitUndone, InitTurns, InitSchedule,
     InitAccounts DEF IInv
<1>2. IInv /\ Turns /\ Schedule /\ Accounts /\ [Next]_vars
        => (IInv /\ Turns /\ Schedule /\ Accounts)'
  <2> SUFFICES ASSUME IInv, Turns, Schedule, Accounts, [Next]_vars
               PROVE  (IInv /\ Turns /\ Schedule /\ Accounts)'
      OBVIOUS
  <2>1. Control
    BY DEF IInv
  <2> QED BY <2>1, InvStep, TurnsStep, ScheduleStep, AccountsStep
<1> QED BY <1>1, <1>2, PTL DEF Spec

\* A request that has been answered has left no scratch file, for any number of
\* requests, slugs and attempts, unless a storage call failed.
THEOREM AnswersLeaveNoScratch == Spec => []AnsweredLeavesNoScratch
<1>1. Accounts => AnsweredLeavesNoScratch
  BY DEF Accounts, ScratchHeld, AnsweredLeavesNoScratch, Answered
<1> QED BY <1>1, AccountsHold, PTL

\* A shutdown that drained, with no kill, no failed call and no client lost
\* before it, leaves every row with its file and no scratch file; and under a
\* slug whose rows no replace outlived, no file without its row.  For any number
\* of requests, slugs and stops, if the writers of a link take turns and no
\* storage call is slow; a body may take as long as it likes.
THEOREM StopsAreClean == Spec => CleanStop
<1>1. IInv /\ Turns /\ Accounts /\ [Next]_vars
        => [(/\ ~Overlap /\ ~Stalls
             /\ phase = "stopping" /\ phase' = "down"
             /\ crashes' = 0 /\ faults = 0 /\ cancelled = {})
              => /\ \A s \in Slugs : RowHasFile(s)' /\ (~Outlived(s) => FilesHaveRow(s)')
                 /\ \A r \in Senders : files'[PartialName(r)] = NoFile]_vars
  <2> SUFFICES ASSUME IInv, Turns, Accounts, [Next]_vars, ~Overlap, ~Stalls,
                      phase = "stopping", phase' = "down",
                      crashes' = 0, faults = 0, cancelled = {}
               PROVE  /\ \A s \in Slugs : RowHasFile(s)' /\ (~Outlived(s) => FilesHaveRow(s)')
                      /\ \A r \in Senders : files'[PartialName(r)] = NoFile
      OBVIOUS
  <2>1. Exit
    <3>1. crashes \in Nat
      BY LifeLimits DEF IInv, Control, TypeOK
    <3>2. ~Crash
      BY <3>1 DEF Crash
    <3> QED BY <3>2, DownByExit
  <2>2. sweep = "off" /\ UNCHANGED <<rows, files, crashes>>
    BY <2>1 DEF Exit, ProcessEnds, lifeVars, storeVars
  <2>3. NoneLost /\ ScratchHeld /\ FilesAccounted /\ RowsDescribe
    BY <2>2 DEF Undisturbed, Accounts, Turns
  <2>4. \A r \in Requests : ~InFlight(r) /\ pc[r] # "lost"
    BY <2>3 DEF Accounts, Draining, NoneLost
  <2>5. \A r \in Senders \cup Deletes : r \in Requests
    BY DEF Requests
  <2>6. ASSUME NEW s \in Slugs PROVE RowHasFile(s)'
    <3>1. ~HalfDone(s) /\ ~NotServing
      BY <2>4, <2>5 DEF HalfDone, NotServing, InFlight, Working
    <3> QED BY <2>2, <2>3, <3>1 DEF RowsDescribe, RowHasFile, DiskName
  <2>7. ASSUME NEW s \in Slugs, ~Outlived(s) PROVE FilesHaveRow(s)'
    <3>1. ASSUME NEW e \in Exts PROVE ~Removal(s, e)
      BY <2>2, <2>4, <2>5 DEF Removal, InFlight, Working, Senders
    <3> QED BY <2>2, <2>3, <2>7, <3>1 DEF FilesAccounted, FilesHaveRow, DiskName
  <2>8. \A r \in Senders : files'[PartialName(r)] = NoFile
    BY <2>2, <2>3, <2>4, <2>5 DEF ScratchHeld, InFlight, Working, PartialName
  <2> QED BY <2>6, <2>7, <2>8
<1> QED BY <1>1, AccountsHold, PTL DEF Spec, CleanStop

=============================================================================
