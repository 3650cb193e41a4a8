----------------------------- MODULE LinkProofs -----------------------------
(***************************************************************************)
(* What readers get, and the promise of LinkRegistry: theorems about       *)
(* KShared on top of the invariants of KSharedProofs.                      *)
(***************************************************************************)
EXTENDS KSharedProofs

-----------------------------------------------------------------------------
(* Serving is an invariant.                                                *)

\* A file comes under a slug's name by the rename of a request that is
\* promoting: it is that request's scratch file.
LEMMA SlugFileOrigin ==
  ASSUME Control, [Next]_vars, NEW s \in Slugs, NEW e \in Exts,
         files'[DiskName(s, e)] # NoFile, files'[DiskName(s, e)] # files[DiskName(s, e)]
  PROVE  \E r \in Senders :
           /\ pc[r] = "promoting" /\ target[r] = s /\ mine[r].ext = e
           /\ PromoteUpload(r) \/ PromoteReplace(r)
           /\ files[PartialName(r)] # NoFile
           /\ files'[DiskName(s, e)] = files[PartialName(r)]
<1> USE DEF heldVars, shownVars, storeVars, bootVars
<1> DEFINE n == DiskName(s, e)
<1>1. /\ files \in [Names -> File \cup {NoFile}] /\ StepsOfKind /\ n \in Names
      /\ \A r \in Senders : PartialName(r) # n
  BY KindsAreDisjoint DEF Control, TypeOK, StoreTypeOK, Names, SlugNames, DiskName, PartialName
<1>d. /\ files'[n] # NoFile /\ files'[n] # files[n]
      /\ \A x, y : n = DiskName(x, y) => x = s /\ y = e
  BY DEF DiskName
<1> HIDE DEF n
\* Removing files, or writing to scratch files, is no such step.
<1>2. ASSUME \/ files' = files
             \/ \E m : files' = [files EXCEPT ![m] = NoFile]
             \/ \E r \in Senders : \E f : files' = [files EXCEPT ![PartialName(r)] = f]
      PROVE  FALSE
  BY <1>1, <1>d, <1>2
<1>3. ASSUME NEW r \in Requests, Accept(r) PROVE FALSE
  <2>1. \/ files' = files
        \/ r \in Senders /\ \E f : files' = [files EXCEPT ![PartialName(r)] = f]
    BY <1>3 DEF Accept, Arrive, BeginUpload, BeginReplace, BeginDelete, BeginServe, OpenPartial,
       CreateFile, Senders
  <2> QED BY <1>2, <2>1
<1>4. ASSUME NEW r \in Requests, Handle(r)
      PROVE  /\ PromoteUpload(r) \/ PromoteReplace(r)
             /\ r \in Senders /\ pc[r] = "promoting"
             /\ n = DiskName(target[r], mine[r].ext)
             /\ files[PartialName(r)] # NoFile /\ files'[n] = files[PartialName(r)]
  <2>1. CASE PromoteUpload(r) \/ PromoteReplace(r)
    <3>1. /\ r \in Senders /\ pc[r] = "promoting"
          /\ files[PartialName(r)] # NoFile
          /\ files' = [files EXCEPT ![DiskName(target[r], mine[r].ext)] = files[PartialName(r)],
                                    ![PartialName(r)] = NoFile]
      BY <2>1 DEF PromoteUpload, PromoteReplace, RenameFile, Senders
    <3> QED BY <1>1, <1>d, <2>1, <3>1
  <2>2. CASE EndStream(r)
    <3>1. r \in Senders
      BY <1>1, <2>2 DEF EndStream, StepsOfKind, DeleteSteps, GetSteps, Requests, Senders
    <3> QED BY <1>2, <2>2, <3>1 DEF EndStream, FinishFile
  <2>3. CASE ~(PromoteUpload(r) \/ PromoteReplace(r) \/ EndStream(r))
    <3>1. files' = files \/ \E m : files' = [files EXCEPT ![m] = NoFile]
      BY <1>4, <2>3 DEF Handle, Advance, AbortStream, Discard, InsertFresh, InsertCollides,
         InsertFails, PromoteUploadFails, RollBack, UpdateRow, UpdateMisses, PromoteReplaceFails,
         CleanOldName, DeleteLink, Unlink, OpenFile, TryRemove, RemoveFile
    <3> QED BY <1>2, <3>1
  <2> QED BY <2>1, <2>2, <2>3
<1>5. ~(RunSweeper \/ Boot \/ Listen)
  <2>1. ASSUME RunSweeper \/ Boot \/ Listen
        PROVE  files' = files \/ \E m : files' = [files EXCEPT ![m] = NoFile]
    BY <2>1 DEF RunSweeper, Sweep, BeginSweep, SkipSweep, SweepRow, SkipRow, SweepFile,
       StopSweeper, TryRemove, RemoveFile, Boot, Listen, Start, Repair, ReapPartial, EndReap,
       ReapOrphan, EndReconcileFiles, DropDangling, EndPass
  <2> QED BY <1>2, <2>1
<1>6. ~(Clock \/ Terminate \/ Drained \/ Exit \/ Crash \/ UNCHANGED vars)
  BY <1>2 DEF Clock, Tick, Terminate, Drained, Exit, Crash, ProcessEnds, vars
<1>7. ASSUME NEW r \in Requests, LoseClient(r) PROVE FALSE
  BY <1>2, <1>7 DEF LoseClient, HangUp
<1>8. PICK r \in Requests : Handle(r)
  BY <1>3, <1>5, <1>6, <1>7 DEF Next, Idle
<1>9. /\ r \in Senders /\ pc[r] = "promoting" /\ n = DiskName(target[r], mine[r].ext)
      /\ PromoteUpload(r) \/ PromoteReplace(r)
      /\ files[PartialName(r)] # NoFile /\ files'[n] = files[PartialName(r)]
  BY <1>4, <1>8
<1>10. target[r] = s /\ mine[r].ext = e
  BY <1>d, <1>9
<1> QED BY <1>9, <1>10 DEF n

\* What has been committed stays so, for the same slug and with the same row.
LEMMA WrittenStays ==
  ASSUME Control, Ownership, Forward, NEW b \in Senders, Written(b)
  PROVE  /\ Written(b)' /\ mine'[b] = mine[b]
         /\ target[b] \in Slugs => target'[b] = target[b]
<1>1. pc[b] \notin {"new", "streaming"}
  BY DEF Ownership, WrittenIsFinal
<1>2. b \in Requests
  BY DEF Requests
<1> QED BY <1>1, <1>2, HandlerLimits DEF Forward, Written

\* A replace reaches its rename by its UPDATE.
LEMMA ReplaceAdvances ==
  ASSUME Control, [Next]_vars, NEW q \in Replaces
  PROVE  pc'[q] = "promoting" => pc[q] = "promoting" \/ UpdateRow(q)
<1> USE DEF Goto, heldVars, shownVars, storeVars, requestVars
<1>1. pc \in [Requests -> Steps] /\ StepsOfKind /\ q \in Requests /\ q \notin Uploads
  BY KindsAreDisjoint DEF Control, TypeOK, HandlersTypeOK, Requests, Senders
<1>2. ASSUME NEW r \in Requests, r # q, Accept(r) \/ Handle(r) PROVE pc'[q] = pc[q]
  <2>1. \E p : pc' = [pc EXCEPT ![r] = p]
    BY <1>2 DEF Accept, Arrive, BeginUpload, BeginReplace, BeginDelete, BeginServe, OpenPartial,
       LookupMisses, LookupFails, Handle, Advance, EndStream, AbortStream, Discard, InsertFresh,
       InsertCollides, InsertFails, PromoteUpload, PromoteUploadFails, RollBack, UpdateRow,
       UpdateMisses, PromoteReplace, PromoteReplaceFails, CleanOldName, DeleteLink, Unlink, OpenFile
  <2> QED BY <1>1, <1>2, <2>1
<1>3. ASSUME Accept(q) PROVE pc'[q] # "promoting"
  <2>1. \E p \in {"streaming", "failed", "missed", "deleting", "opening"} : pc' = [pc EXCEPT ![q] = p]
    BY <1>3 DEF Accept, Arrive, BeginUpload, BeginReplace, BeginDelete, BeginServe, OpenPartial,
       LookupMisses, LookupFails
  <2> QED BY <1>1, <2>1
<1>4. ASSUME Handle(q), ~UpdateRow(q) PROVE pc'[q] # "promoting"
  BY <1>1, <1>4 DEF Handle, Advance, EndStream, AbortStream, Discard, InsertFresh, InsertCollides,
     InsertFails, PromoteUpload, PromoteUploadFails, RollBack, UpdateMisses, PromoteReplace,
     PromoteReplaceFails, CleanOldName, DeleteLink, Unlink, OpenFile
<1>5. CASE Clock \/ Boot \/ Listen \/ RunSweeper \/ Terminate \/ Drained \/ UNCHANGED vars
  BY <1>5 DEF Clock, Boot, Listen, RunSweeper, Terminate, Drained, vars
<1>6. CASE Exit \/ Crash
  BY <1>1, <1>6 DEF Exit, Crash, ProcessEnds
<1>7. ASSUME NEW r \in Requests, LoseClient(r) PROVE pc' = pc
  BY <1>7 DEF LoseClient, HangUp
<1> QED BY <1>2, <1>3, <1>4, <1>5, <1>6, <1>7 DEF Next, Idle

\* Only its own lookup and its own open change what a GET holds.
LEMMA GetAdvances ==
  ASSUME Control, [Next]_vars, NEW g \in Gets
  PROVE  \/ OpenFile(g)
         \/ \E s \in Slugs : BeginServe(g, s)
         \/ /\ got'[g] = got[g] /\ seen'[g] = seen[g] /\ target'[g] = target[g]
            /\ pc'[g] = pc[g] \/ (pc[g] = "opening" /\ pc'[g] = "lost")
<1> USE DEF Goto, heldVars, shownVars, storeVars, requestVars
<1> DEFINE Same == got'[g] = got[g] /\ seen'[g] = seen[g] /\ target'[g] = target[g]
<1>1. /\ pc \in [Requests -> Steps] /\ target \in [Requests -> Slugs \cup {NoSlug}]
      /\ seen \in [Requests -> Row \cup {NoRow}] /\ got \in [Gets -> File \cup {NoFile}]
      /\ g \in Requests /\ g \notin Senders /\ g \notin Deletes
      /\ pc[g] \in GetSteps
  BY KindsAreDisjoint DEF Control, TypeOK, HandlersTypeOK, StepsOfKind, Requests
<1>2. ASSUME NEW r \in Requests, r # g, Accept(r) \/ Handle(r) PROVE Same /\ pc'[g] = pc[g]
  <2>1. \E p : pc' = [pc EXCEPT ![r] = p]
    BY <1>2 DEF Accept, Arrive, BeginUpload, BeginReplace, BeginDelete, BeginServe, OpenPartial,
       LookupMisses, LookupFails, Handle, Advance, EndStream, AbortStream, Discard, InsertFresh,
       InsertCollides, InsertFails, PromoteUpload, PromoteUploadFails, RollBack, UpdateRow,
       UpdateMisses, PromoteReplace, PromoteReplaceFails, CleanOldName, DeleteLink, Unlink, OpenFile
  <2>2. target' = target \/ \E x : target' = [target EXCEPT ![r] = x]
    BY <1>2 DEF Accept, Arrive, BeginUpload, BeginReplace, BeginDelete, BeginServe,
       Lookup, LookupMisses, LookupFails, Handle, Advance, EndStream, AbortStream, Discard, InsertFresh,
       InsertCollides, InsertFails, PromoteUpload, PromoteUploadFails, RollBack, UpdateRow,
       UpdateMisses, PromoteReplace, PromoteReplaceFails, CleanOldName, DeleteLink, Unlink, OpenFile
  <2>3. seen' = seen \/ \E x : seen' = [seen EXCEPT ![r] = x]
    BY <1>2 DEF Accept, Arrive, BeginUpload, BeginReplace, BeginDelete, BeginServe,
       Lookup, LookupMisses, LookupFails, Handle, Advance, EndStream, AbortStream, Discard, InsertFresh,
       InsertCollides, InsertFails, PromoteUpload, PromoteUploadFails, RollBack, UpdateRow,
       UpdateMisses, PromoteReplace, PromoteReplaceFails, CleanOldName, DeleteLink, Unlink, OpenFile
  <2>4. got' = got \/ \E x : got' = [got EXCEPT ![r] = x]
    BY <1>2 DEF Accept, Arrive, BeginUpload, BeginReplace, BeginDelete, BeginServe,
       Handle, Advance, EndStream, AbortStream, Discard, InsertFresh,
       InsertCollides, InsertFails, PromoteUpload, PromoteUploadFails, RollBack, UpdateRow,
       UpdateMisses, PromoteReplace, PromoteReplaceFails, CleanOldName, DeleteLink, Unlink, OpenFile
  <2> QED BY <1>1, <1>2, <2>1, <2>2, <2>3, <2>4
<1>3. ASSUME Accept(g) PROVE \E s \in Slugs : BeginServe(g, s)
  BY <1>1, <1>3 DEF Accept, Arrive, BeginUpload, BeginReplace, BeginDelete, Senders
<1>4. ASSUME Handle(g) PROVE OpenFile(g)
  BY <1>1, <1>4 DEF GetSteps, Handle, Advance, EndStream, AbortStream, Discard, InsertFresh,
     InsertCollides, InsertFails, PromoteUpload, PromoteUploadFails, RollBack, UpdateRow,
     UpdateMisses, PromoteReplace, PromoteReplaceFails, CleanOldName, DeleteLink, Unlink
<1>5. CASE Clock \/ Boot \/ Listen \/ RunSweeper \/ Terminate \/ Drained \/ UNCHANGED vars
  BY <1>5 DEF Clock, Boot, Listen, RunSweeper, Terminate, Drained, vars
<1>6. CASE Exit \/ Crash
  <2>1. UNCHANGED <<target, seen, got>>
    BY <1>6 DEF Exit, Crash, ProcessEnds
  <2>2. pc'[g] = IF InFlight(g) THEN "lost" ELSE pc[g]
    BY <1>1, <1>6 DEF Exit, Crash, ProcessEnds
  <2>3. InFlight(g) => pc[g] = "opening"
    BY <1>1 DEF GetSteps, InFlight, Working
  <2> QED BY <2>1, <2>2, <2>3
<1>7. ASSUME NEW r \in Requests, LoseClient(r) PROVE Same /\ pc'[g] = pc[g]
  BY <1>7 DEF LoseClient, HangUp
<1> QED BY <1>2, <1>3, <1>4, <1>5, <1>6, <1>7 DEF Next, Idle

LEMMA InitServing == Init => Serving
<1> SUFFICES ASSUME Init PROVE Serving
    OBVIOUS
<1>1. /\ \A n \in Names : files[n] = NoFile
      /\ \A r \in Requests : pc[r] = "new" /\ seen[r] = NoRow
      /\ \A g \in Gets : got[g] = NoFile
  BY DEF Init, StoreInit, HandlersInit
<1>2. \A s \in Slugs, e \in Exts : DiskName(s, e) \in Names
  BY DEF DiskName, Names, SlugNames
<1> QED
  BY <1>1, <1>2 DEF Serving, PromotersWritten, SlugFilesOwn, SeenOwn, GotOwn, Requests, Senders

LEMMA PromotersWrittenStep ==
  ASSUME Control, Ownership, Forward, PromotersWritten, [Next]_vars
  PROVE  PromotersWritten'
<1> SUFFICES ASSUME NEW q \in Replaces, pc'[q] = "promoting" PROVE Written(q)'
    BY DEF PromotersWritten
<1>1. CASE UpdateRow(q)
  BY <1>1 DEF UpdateRow, Written
<1>2. CASE pc[q] = "promoting"
  BY <1>2 DEF PromotersWritten, Written, Forward
<1> QED BY <1>1, <1>2, ReplaceAdvances

\* The scratch file that is renamed is whole and its request's own, and its
\* row has been committed for the slug that gives it the name.
LEMMA SlugFilesOwnStep ==
  ASSUME Control, Ownership, ScratchOwn, Forward, Serving, [Next]_vars
  PROVE  SlugFilesOwn'
<1> SUFFICES ASSUME NEW s \in Slugs, NEW e \in Exts, files'[DiskName(s, e)] # NoFile
             PROVE  LET f == files'[DiskName(s, e)] IN
                      /\ f.whole /\ f.body \in committed' /\ target'[f.body] = s
                      /\ mine'[f.body].ext = e
    BY DEF SlugFilesOwn, DiskName, Written
<1> DEFINE f == files'[DiskName(s, e)]
<1>1. \E b \in Senders : /\ f.whole /\ f.body = b /\ Written(b) /\ target[b] = s
                         /\ mine[b].ext = e
  <2>1. CASE f = files[DiskName(s, e)]
    <3>1. f \in File
      BY <2>1 DEF Control, TypeOK, StoreTypeOK, DiskName, Names, SlugNames
    <3>2. f.body \in Senders
      BY <3>1 DEF File
    <3> QED BY <2>1, <3>2 DEF Serving, SlugFilesOwn
  <2>2. CASE f # files[DiskName(s, e)]
    <3>1. PICK r \in Senders : /\ pc[r] = "promoting" /\ target[r] = s /\ mine[r].ext = e
                               /\ files[PartialName(r)] # NoFile /\ f = files[PartialName(r)]
      BY <2>2, SlugFileOrigin
    <3>2. f.body = r /\ f.whole
      BY <3>1 DEF ScratchOwn
    <3>3. Written(r)
      BY <3>1, HandlerLimits DEF Serving, PromotersWritten, Ownership, WrittenIsFinal, Senders
    <3> QED BY <3>1, <3>2, <3>3
  <2> QED BY <2>1, <2>2
<1>2. PICK b \in Senders : /\ f.whole /\ f.body = b /\ Written(b) /\ target[b] = s
                           /\ mine[b].ext = e
  BY <1>1
<1>3. b \in committed' /\ target'[b] = s /\ mine'[b] = mine[b]
  BY <1>2, WrittenStays DEF Written
<1> QED BY <1>2, <1>3

\* The row a lookup returns is the one that is in the table for the slug.
LEMMA SeenOwnStep ==
  ASSUME Control, Ownership, Forward, Serving, [Next]_vars
  PROVE  SeenOwn'
<1> SUFFICES ASSUME NEW g \in Gets, seen'[g] # NoRow
             PROVE  /\ target'[g] \in Slugs /\ seen'[g].body \in committed'
                    /\ target'[seen'[g].body] = target'[g]
    BY DEF SeenOwn, Written
<1>1. /\ target \in [Requests -> Slugs \cup {NoSlug}] /\ g \in Requests
      /\ seen \in [Requests -> Row \cup {NoRow}] /\ rows \in [Slugs -> Row \cup {NoRow}]
  BY DEF Control, TypeOK, StoreTypeOK, HandlersTypeOK, Requests
<1>2. \E b \in Senders : seen'[g].body = b /\ Written(b) /\ target[b] = target'[g]
                         /\ target[b] \in Slugs
  <2>1. CASE seen'[g] = seen[g] /\ target'[g] = target[g]
    <3>1. seen[g].body \in Senders
      BY <1>1, <2>1, RowFields
    <3>2. /\ Written(seen[g].body) /\ target[seen[g].body] = target[g]
          /\ target[g] \in Slugs
      BY <2>1 DEF Serving, SeenOwn
    <3> QED BY <2>1, <3>1, <3>2
  <2>2. ASSUME NEW s \in Slugs, Lookup(g, s)
        PROVE  \E b \in Senders : seen'[g].body = b /\ Written(b) /\ target[b] = target'[g]
                                  /\ target[b] \in Slugs
    <3>1. seen'[g] = rows[s] /\ target'[g] = s /\ rows[s] # NoRow
      BY <1>1, <2>2 DEF Lookup, IsFound
    <3>2. rows[s].body \in Senders
      BY <1>1, <3>1, RowFields
    <3>3. Written(rows[s].body) /\ target[rows[s].body] = s
      BY <3>1 DEF Ownership, RowsOfSenders
    <3> QED BY <3>1, <3>2, <3>3
  <2>3. ASSUME NEW s \in Slugs, BeginServe(g, s), ~Lookup(g, s)
        PROVE  seen'[g] = seen[g] /\ target'[g] = target[g]
    BY <2>3 DEF BeginServe, LookupMisses, LookupFails
  <2>4. ASSUME OpenFile(g) PROVE seen'[g] = seen[g] /\ target'[g] = target[g]
    BY <2>4 DEF OpenFile, heldVars
  <2> QED BY <2>1, <2>2, <2>3, <2>4, GetAdvances
<1> QED BY <1>2, WrittenStays DEF Written

\* What a GET opens is what its slug's name holds at that instant.
LEMMA GotOwnStep ==
  ASSUME Control, Ownership, Forward, Serving, SeenOwn', [Next]_vars
  PROVE  GotOwn'
<1> SUFFICES ASSUME NEW g \in Gets
             PROVE  /\ got'[g] # NoFile <=> pc'[g] = "done"
                    /\ got'[g] # NoFile =>
                         /\ got'[g].whole /\ got'[g].body \in committed'
                         /\ target'[got'[g].body] = target'[g] /\ seen'[g] # NoRow
    BY DEF GotOwn, Written
<1>1. /\ pc \in [Requests -> Steps] /\ g \in Requests
      /\ got \in [Gets -> File \cup {NoFile}] /\ got'[g] \in File \cup {NoFile}
      /\ files \in [Names -> File \cup {NoFile}]
      /\ got[g] # NoFile <=> pc[g] = "done"
  <2>1. Control'
    BY ControlStep
  <2> QED BY <2>1 DEF Control, TypeOK, StoreTypeOK, HandlersTypeOK, Requests, Serving, GotOwn
\* It suffices to know what was committed before the step.
<1>2. ASSUME NEW b \in Senders, got'[g].body = b, Written(b), target[b] = target[g],
             target[g] \in Slugs, target'[g] = target[g]
      PROVE  got'[g].body \in committed' /\ target'[got'[g].body] = target'[g]
  BY <1>2, WrittenStays DEF Written
<1>3. CASE OpenFile(g)
  <2>1. /\ pc[g] = "opening" /\ got[g] = NoFile /\ UNCHANGED <<target, seen>>
        /\ target[g] \in Slugs /\ seen[g] \in Row
    BY <1>1, <1>3 DEF OpenFile, heldVars, Control, TargetsSet, InFlight, Working
  <2> DEFINE f == files[DiskName(target[g], seen[g].ext)]
  <2>2. CASE got' = got /\ pc'[g] \in {"missed", "failed"}
    BY <1>1, <2>1, <2>2
  <2>3. CASE f # NoFile /\ got' = [got EXCEPT ![g] = f] /\ pc' = [pc EXCEPT ![g] = "done"]
    <3>1. got'[g] = f /\ pc'[g] = "done" /\ seen[g].ext \in Exts
      BY <1>1, <2>1, <2>3, RowFields
    <3>2. f.whole /\ Written(f.body) /\ target[f.body] = target[g]
      BY <2>1, <2>3, <3>1 DEF Serving, SlugFilesOwn
    <3>3. f.body \in Senders
      BY <1>1, <2>3, <3>1 DEF File
    <3> QED BY <1>2, <2>1, <2>3, <3>1, <3>2, <3>3, SentinelsAreApart
  <2> QED BY <1>1, <1>3, <2>2, <2>3 DEF OpenFile, Goto
<1>4. ASSUME NEW s \in Slugs, BeginServe(g, s) PROVE got' = got /\ got[g] = NoFile /\ pc'[g] # "done"
  <2>1. got' = got /\ pc[g] = "new"
    BY <1>4 DEF BeginServe
  <2> QED BY <1>1, <1>4, <2>1 DEF BeginServe, LookupMisses, LookupFails, Goto
<1>5. CASE /\ got'[g] = got[g] /\ seen'[g] = seen[g] /\ target'[g] = target[g]
           /\ pc'[g] = pc[g] \/ (pc[g] = "opening" /\ pc'[g] = "lost")
  <2>1. CASE got[g] = NoFile
    BY <1>1, <1>5, <2>1
  <2>2. CASE got[g] # NoFile
    <3>1. /\ got[g].whole /\ Written(got[g].body) /\ target[got[g].body] = target[g]
          /\ seen[g] # NoRow /\ target[g] \in Slugs
      BY <2>2 DEF Serving, GotOwn, SeenOwn
    <3>2. got[g].body \in Senders
      BY <1>1, <2>2 DEF File
    <3> QED BY <1>1, <1>2, <1>5, <3>1, <3>2
  <2> QED BY <2>1, <2>2
<1> QED BY <1>3, <1>4, <1>5, GetAdvances

LEMMA ServingStep == IInv /\ Serving /\ [Next]_vars => Serving'
<1> SUFFICES ASSUME IInv, Serving, [Next]_vars PROVE Serving'
    OBVIOUS
<1>1. Control /\ Ownership /\ ScratchOwn /\ PromotersWritten
  BY DEF IInv, Durability, Serving
<1>2. Forward
  BY <1>1, ForwardStep
<1>3. SeenOwn'
  BY <1>1, <1>2, SeenOwnStep
<1> QED
  BY <1>1, <1>2, <1>3, PromotersWrittenStep, SlugFilesOwnStep, GotOwnStep DEF Serving

\* Whatever name of a slug is looked at, in any state: it holds nothing, or the
\* whole body of a sender whose row was committed for that slug.
THEOREM ServingHolds == Spec => [](IInv /\ Serving)
<1>1. Init => IInv /\ Serving
  BY InitControl, InitOwnership, InitDurability, InitUndone, InitServing DEF IInv
<1>2. IInv /\ Serving /\ [Next]_vars => (IInv /\ Serving)'
  BY InvStep, ServingStep
<1> QED BY <1>1, <1>2, PTL DEF Spec

\* What a GET sends is a whole body that was sent to its slug, and the one its
\* uploader sent if no replace was let through to the slug: for any number of
\* replaces, deletes, crashes and restarts between its lookup and its open.
THEOREM ReadsAreFaithful == Spec => []ServedFaithful
<1>1. IInv /\ Serving => ServedFaithful
  <2> SUFFICES ASSUME IInv, Serving, NEW g \in Gets, pc[g] = "done"
               PROVE  /\ got[g].whole /\ target[got[g].body] = target[g]
                      /\ (\A q \in Replaces : target[q] # target[g]) => got[g].body = seen[g].body
      BY DEF ServedFaithful
  <2>1. /\ got[g].whole /\ target[got[g].body] = target[g]
        /\ target[seen[g].body] = target[g]
        /\ target[g] \in Slugs /\ got[g] # NoFile /\ seen[g] # NoRow
    BY DEF Serving, GotOwn, SeenOwn
  <2>2. got[g].body \in Senders /\ seen[g].body \in Senders
    BY <2>1, RowFields DEF IInv, Control, TypeOK, HandlersTypeOK, File, Requests
  <2>3. ASSUME \A q \in Replaces : target[q] # target[g] PROVE got[g].body = seen[g].body
    <3>1. got[g].body \in Uploads /\ seen[g].body \in Uploads
      BY <2>1, <2>2, <2>3 DEF Senders
    <3> QED BY <2>1, <3>1, HandlerLimits DEF IInv, Ownership, OneOwner
  <2> QED BY <2>1, <2>3
<1> QED BY <1>1, ServingHolds, PTL

-----------------------------------------------------------------------------
(* KShared implements LinkRegistry.                                        *)

\* An INSERT, an UPDATE and the open of a GET are what clients can tell apart;
\* of all other steps they see at most that one row is gone.
LEMMA NextKinds ==
  ASSUME Control, [Next]_vars
  PROVE  \/ \E r \in Senders : InsertFresh(r) \/ UpdateRow(r)
         \/ \E g \in Gets : OpenFile(g)
         \/ /\ UNCHANGED <<committed, got>>
            /\ rows' = rows \/ \E x : rows' = [rows EXCEPT ![x] = NoRow]
<1> USE DEF heldVars, shownVars, storeVars, requestVars
<1> DEFINE Other == /\ UNCHANGED <<committed, got>>
                    /\ rows' = rows \/ \E x : rows' = [rows EXCEPT ![x] = NoRow]
<1>1. ASSUME NEW r \in Requests, Accept(r) PROVE Other
  BY <1>1 DEF Accept, Arrive, BeginUpload, BeginReplace, BeginDelete, BeginServe
<1>2. ASSUME NEW r \in Requests, Handle(r), ~InsertFresh(r), ~UpdateRow(r), ~OpenFile(r) PROVE Other
  BY <1>2 DEF Handle, Advance, EndStream, AbortStream, Discard, InsertCollides,
     InsertFails, PromoteUpload, PromoteUploadFails, RollBack, UpdateMisses, PromoteReplace,
     PromoteReplaceFails, CleanOldName, DeleteLink, Unlink, DeleteRow
<1>3. ASSUME NEW r \in Requests, InsertFresh(r) \/ UpdateRow(r) PROVE r \in Senders
  BY <1>3 DEF InsertFresh, UpdateRow, Senders
<1>4. ASSUME NEW r \in Requests, OpenFile(r) PROVE r \in Gets
  BY <1>4 DEF OpenFile, Control, StepsOfKind, UploadSteps, ReplaceSteps, DeleteSteps, Requests, Senders
<1>5. CASE RunSweeper
  <2>1. UNCHANGED <<committed, got>>
    BY <1>5 DEF RunSweeper
  <2>2. rows' = rows \/ \E x : rows' = [rows EXCEPT ![x] = NoRow]
    BY <1>5 DEF RunSweeper, Sweep, BeginSweep, SkipSweep, SweepRow, SkipRow, SweepFile, StopSweeper,
       DeleteRow
  <2> QED BY <2>1, <2>2
<1>6. CASE Boot \/ Listen
  <2>1. UNCHANGED <<committed, got>>
    BY <1>6 DEF Boot, Listen
  <2>2. rows' = rows \/ \E x : rows' = [rows EXCEPT ![x] = NoRow]
    BY <1>6 DEF Boot, Listen, Start, Repair, ReapPartial, EndReap, ReapOrphan, EndReconcileFiles,
       DropDangling, EndPass, DeleteRow
  <2> QED BY <2>1, <2>2
<1>7. CASE Clock \/ Terminate \/ Drained \/ Exit \/ Crash \/ UNCHANGED vars
  BY <1>7 DEF Clock, Tick, Terminate, Drained, Exit, Crash, ProcessEnds, vars
<1>8. ASSUME NEW r \in Requests, LoseClient(r) PROVE Other
  BY <1>8 DEF LoseClient, HangUp
<1> QED BY <1>1, <1>2, <1>3, <1>4, <1>5, <1>6, <1>7, <1>8 DEF Next, Idle

\* A committed sender's slug, and that of a GET that is done, are settled.
LEMMA TargetsSettled ==
  ASSUME Control, Ownership, Serving, Forward, [Next]_vars
  PROVE  /\ \A b \in committed : target'[b] = target[b]
         /\ \A g \in Gets : got[g] # NoFile => target'[g] = target[g]
<1>1. /\ target \in [Requests -> Slugs \cup {NoSlug}] /\ committed \subseteq Senders
      /\ committed \subseteq Requests
  BY DEF Control, TypeOK, HandlersTypeOK, Requests
<1>2. ASSUME NEW b \in committed PROVE target'[b] = target[b]
  <2>1. pc[b] \notin {"new", "streaming", "inserting", "updating"}
    BY <1>1 DEF Ownership, WrittenIsFinal, Written
  <2>2. CASE Tame
    BY <2>2 DEF Tame
  <2>3. ASSUME NEW r \in Requests, Builds(r) PROVE target'[b] = target[b]
    <3>1. b # r \/ target' = target
      BY <2>1, <2>3 DEF Builds, Accept, Arrive, BeginUpload, BeginReplace, BeginDelete, BeginServe,
         EndStream, InsertFresh, UpdateRow, heldVars
    <3>2. target' = target \/ \E x : target' = [target EXCEPT ![r] = x]
      BY <2>3 DEF Builds, Accept, Arrive, BeginUpload, BeginReplace, BeginDelete, BeginServe,
         Lookup, LookupMisses, LookupFails, EndStream, InsertFresh, UpdateRow, heldVars
    <3> QED BY <1>1, <3>1, <3>2
  <2> QED BY <2>2, <2>3, TameHandlers, TameOthers DEF Builds
<1>3. ASSUME NEW g \in Gets, got[g] # NoFile PROVE target'[g] = target[g]
  BY <1>3, HandlerLimits DEF Serving, GotOwn, SeenOwn, Forward, Requests
<1> QED BY <1>2, <1>3

\* With the same commits a slug has shown the same bodies.
LEMMA ShownSame ==
  ASSUME UNCHANGED committed, \A b \in committed : target'[b] = target[b]
  PROVE  LinksPast' = LinksPast /\ \A s \in Slugs : Shown(s)' = Shown(s)
<1>1. \A s \in Slugs : Shown(s)' = Shown(s)
  BY DEF Shown
<1> QED BY <1>1 DEF LinksPast

LEMMA AnswersSame ==
  ASSUME UNCHANGED got, \A g \in Gets : got[g] # NoFile => target'[g] = target[g]
  PROVE  Answers' = Answers
BY DEF Answers

LEMMA RegistryInit == Init => Registry!Init
<1> SUFFICES ASSUME Init PROVE Registry!Init
    OBVIOUS
<1>1. /\ \A s \in Slugs : rows[s] = NoRow /\ Shown(s) = {}
      /\ \A g \in Gets : got[g] = NoFile
  BY DEF Init, StoreInit, HandlersInit, Shown
<1>2. LinksNow = [s \in Slugs |-> NoSlug] /\ LinksPast = [s \in Slugs |-> {}]
  BY <1>1 DEF LinksNow, LinksPast
<1>3. Answers = [g \in Gets |-> NoFile]
  BY <1>1 DEF Answers
<1> QED BY <1>2, <1>3 DEF Registry!Init

\* An INSERT publishes a slug nobody has drawn, so one that has shown nothing.
LEMMA InsertPublishes ==
  ASSUME IInv, Serving, Forward, [Next]_vars, NEW r \in Senders, InsertFresh(r)
  PROVE  \E s \in Slugs : Registry!Publish(s, r)
<1>1. PICK s \in Slugs : /\ Unused(s) /\ rows[s] = NoRow
                         /\ rows' = [rows EXCEPT ![s] = mine[r]]
                         /\ target' = [target EXCEPT ![r] = s]
  BY DEF InsertFresh, InsertRow
<1>2. /\ rows \in [Slugs -> Row \cup {NoRow}] /\ target \in [Requests -> Slugs \cup {NoSlug}]
      /\ committed \subseteq Senders /\ Senders \subseteq Requests /\ s # NoSlug
      /\ committed' = committed \cup {r} /\ UNCHANGED got
      /\ pc[r] = "inserting" /\ mine[r] \in Row
  BY HandlerLimits DEF IInv, Control, TypeOK, StoreTypeOK, HandlersTypeOK, SendersHold, InsertFresh,
     Requests
<1>3. r \notin committed
  BY <1>2 DEF IInv, Ownership, WrittenIsFinal, Written
<1>4. mine[r] # NoRow /\ mine[r].body = r
  BY <1>2, SentinelsAreApart DEF IInv, Ownership, BodiesOwn
<1>5. Shown(s) = {}
  <2> SUFFICES ASSUME NEW b \in committed, target[b] = s PROVE FALSE
      BY DEF Shown
  <2>1. Owned(s)
    BY <1>2 DEF IInv, Ownership, TargetsOwned
  <2> QED BY <1>1, <2>1 DEF Owned, Unused
<1>6. \A x \in Slugs : Shown(x)' = IF x = s THEN {r} ELSE Shown(x)
  <2>1. \A b \in committed' : target'[b] = IF b = r THEN s ELSE target[b]
    BY <1>1, <1>2
  <2> QED BY <1>2, <1>3, <1>5, <2>1 DEF Shown
<1>7. LinksPast' = [LinksPast EXCEPT ![s] = @ \cup {r}]
  BY <1>5, <1>6 DEF LinksPast
<1>8. LinksNow' = [LinksNow EXCEPT ![s] = r]
  <2>1. \A x \in Slugs : rows'[x] = IF x = s THEN mine[r] ELSE rows[x]
    BY <1>1, <1>2
  <2>2. \A x \in Slugs :
          (IF rows'[x] # NoRow THEN rows'[x].body ELSE IF Shown(x)' = {} THEN NoSlug ELSE NoRow)
            = IF x = s THEN r
              ELSE IF rows[x] # NoRow THEN rows[x].body ELSE IF Shown(x) = {} THEN NoSlug ELSE NoRow
    BY <1>4, <1>6, <2>1
  <2> QED BY <2>2 DEF LinksNow
<1>9. Answers' = Answers
  BY <1>2, TargetsSettled, AnswersSame DEF IInv
<1>10. LinksNow[s] = NoSlug
  BY <1>1, <1>5 DEF LinksNow
<1>11. \A x \in Slugs : r \notin LinksPast[x]
  BY <1>3 DEF LinksPast, Shown
<1> QED
  BY <1>7, <1>8, <1>9, <1>10, <1>11 DEF Registry!Publish, Registry!Show, Registry!Fresh

\* An UPDATE swaps the body of a link that has a row for one never shown.
LEMMA UpdateSwaps ==
  ASSUME IInv, Serving, Forward, [Next]_vars, NEW r \in Senders, UpdateRow(r)
  PROVE  \E s \in Slugs : Registry!Swap(s, r)
<1> DEFINE s == target[r]
<1>1. /\ rows \in [Slugs -> Row \cup {NoRow}] /\ committed \subseteq Senders
      /\ s \in Slugs /\ rows[s] # NoRow /\ rows[s] \in Row
      /\ rows' = [rows EXCEPT ![s] = mine[r]]
      /\ committed' = committed \cup {r} /\ UNCHANGED <<target, got>>
      /\ pc[r] = "updating" /\ mine[r] \in Row
  BY DEF UpdateRow, ReplaceRow, heldVars, IInv, Control, TypeOK, StoreTypeOK, HandlersTypeOK,
     SendersHold, TargetsSet, InFlight, Working
<1>2. r \notin committed
  BY <1>1 DEF IInv, Ownership, WrittenIsFinal, Written
<1>3. mine[r] # NoRow /\ mine[r].body = r
  BY <1>1, SentinelsAreApart DEF IInv, Ownership, BodiesOwn
<1>4. \A x \in Slugs : Shown(x)' = IF x = s THEN Shown(x) \cup {r} ELSE Shown(x)
  BY <1>1 DEF Shown
<1>5. LinksPast' = [LinksPast EXCEPT ![s] = @ \cup {r}]
  BY <1>4 DEF LinksPast
<1>6. LinksNow' = [LinksNow EXCEPT ![s] = r]
  <2>1. \A x \in Slugs : rows'[x] = IF x = s THEN mine[r] ELSE rows[x]
    BY <1>1
  <2>2. \A x \in Slugs :
          (IF rows'[x] # NoRow THEN rows'[x].body ELSE IF Shown(x)' = {} THEN NoSlug ELSE NoRow)
            = IF x = s THEN r
              ELSE IF rows[x] # NoRow THEN rows[x].body ELSE IF Shown(x) = {} THEN NoSlug ELSE NoRow
    BY <1>3, <1>4, <2>1
  <2> QED BY <2>2 DEF LinksNow
<1>7. Answers' = Answers
  BY <1>1, TargetsSettled, AnswersSame DEF IInv
<1>8. LinksNow[s] \in Senders
  BY <1>1, RowFields DEF LinksNow
<1>9. \A x \in Slugs : r \notin LinksPast[x]
  BY <1>2 DEF LinksPast, Shown
<1> QED
  BY <1>1, <1>5, <1>6, <1>7, <1>8, <1>9 DEF Registry!Swap, Registry!Show, Registry!Fresh

\* A row that goes retires its link: the link has shown the row's body.
LEMMA RemovalRetires ==
  ASSUME IInv, Serving, Forward, [Next]_vars, UNCHANGED <<committed, got>>,
         rows' = rows \/ \E x : rows' = [rows EXCEPT ![x] = NoRow]
  PROVE  \/ \E s \in Slugs : Registry!Retire(s)
         \/ UNCHANGED <<LinksNow, LinksPast, Answers>>
<1>1. rows \in [Slugs -> Row \cup {NoRow}]
  BY DEF IInv, Control, TypeOK, StoreTypeOK
<1>2. /\ UNCHANGED <<LinksPast, Answers>>
      /\ \A s \in Slugs : Shown(s)' = Shown(s)
  BY TargetsSettled, ShownSame, AnswersSame DEF IInv
<1>3. CASE rows' = rows
  BY <1>2, <1>3 DEF LinksNow
<1>4. ASSUME NEW s, rows' = [rows EXCEPT ![s] = NoRow], rows' # rows
      PROVE  s \in Slugs /\ Registry!Retire(s)
  <2>1. s \in Slugs /\ rows[s] # NoRow /\ rows[s] \in Row
    BY <1>1, <1>4
  <2>2. rows[s].body \in Senders
    BY <2>1, RowFields
  <2>3. Shown(s) # {}
    BY <2>1, <2>2 DEF IInv, Ownership, RowsOfSenders, Written, Shown
  <2>4. LinksNow[s] \in Senders
    BY <2>1, <2>2 DEF LinksNow
  <2>5. LinksNow' = [LinksNow EXCEPT ![s] = NoRow]
    <3>1. \A x \in Slugs : rows'[x] = IF x = s THEN NoRow ELSE rows[x]
      BY <1>1, <1>4
    <3>2. \A x \in Slugs :
            (IF rows'[x] # NoRow THEN rows'[x].body ELSE IF Shown(x)' = {} THEN NoSlug ELSE NoRow)
              = IF x = s THEN NoRow
                ELSE IF rows[x] # NoRow THEN rows[x].body
                ELSE IF Shown(x) = {} THEN NoSlug ELSE NoRow
      BY <1>2, <2>3, <3>1
    <3> QED BY <3>2 DEF LinksNow
  <2> QED BY <1>2, <2>1, <2>4, <2>5 DEF Registry!Retire
<1> QED BY <1>3, <1>4

\* A GET that opens a file reads a body its link has shown.
LEMMA OpenReads ==
  ASSUME IInv, Serving, Forward, [Next]_vars, NEW g \in Gets, OpenFile(g)
  PROVE  \/ \E s \in Slugs, b \in Senders : Registry!Read(g, s, b)
         \/ UNCHANGED <<LinksNow, LinksPast, Answers>>
<1>1. /\ UNCHANGED <<rows, target, seen, committed>>
      /\ got \in [Gets -> File \cup {NoFile}] /\ files \in [Names -> File \cup {NoFile}]
      /\ target[g] \in Slugs /\ seen[g] \in Row /\ got[g] = NoFile /\ pc[g] = "opening"
  BY DEF OpenFile, heldVars, IInv, Control, TypeOK, StoreTypeOK, HandlersTypeOK, TargetsSet,
     InFlight, Working, Requests, Serving, GotOwn
<1>2. UNCHANGED <<LinksNow, LinksPast>>
  BY <1>1 DEF LinksNow, LinksPast, Shown
<1> DEFINE f == files[DiskName(target[g], seen[g].ext)]
<1>3. CASE UNCHANGED got
  BY <1>1, <1>2, <1>3 DEF Answers
<1>4. CASE f # NoFile /\ got' = [got EXCEPT ![g] = f]
  <2>1. seen[g].ext \in Exts
    BY <1>1, RowFields
  <2>2. f.whole /\ Written(f.body) /\ target[f.body] = target[g]
    BY <1>1, <1>4, <2>1 DEF Serving, SlugFilesOwn
  <2>3. f.body \in Senders
    BY <1>1, <1>4, <2>1 DEF File, DiskName, Names, SlugNames
  <2>4. Answers[g] = NoFile /\ f.body \in LinksPast[target[g]]
    BY <1>1, <2>2 DEF Answers, LinksPast, Shown, Written
  <2>5. Answers' = [Answers EXCEPT ![g] = <<target[g], f.body>>]
    <3>1. \A h \in Gets : got'[h] = IF h = g THEN f ELSE got[h]
      BY <1>1, <1>4
    <3>2. \A h \in Gets :
            (IF got'[h] = NoFile THEN NoFile ELSE <<target'[h], got'[h].body>>)
              = IF h = g THEN <<target[g], f.body>>
                ELSE IF got[h] = NoFile THEN NoFile ELSE <<target[h], got[h].body>>
      BY <1>1, <1>4, <3>1
    <3> QED BY <3>2 DEF Answers
  <2> QED BY <1>1, <1>2, <2>3, <2>4, <2>5 DEF Registry!Read
<1> QED BY <1>3, <1>4 DEF OpenFile

LEMMA RegistryStep ==
  IInv /\ Serving /\ [Next]_vars => [Registry!Next]_<<LinksNow, LinksPast, Answers>>
<1> SUFFICES ASSUME IInv, Serving, [Next]_vars
             PROVE  [Registry!Next]_<<LinksNow, LinksPast, Answers>>
    OBVIOUS
<1>1. Control
  BY DEF IInv
<1>2. Forward
  BY <1>1, ForwardStep
<1>3. ASSUME NEW r \in Senders, InsertFresh(r) \/ UpdateRow(r) PROVE Registry!Next
  BY <1>2, <1>3, InsertPublishes, UpdateSwaps DEF Registry!Next
<1>4. ASSUME NEW g \in Gets, OpenFile(g)
      PROVE  Registry!Next \/ UNCHANGED <<LinksNow, LinksPast, Answers>>
  BY <1>2, <1>4, OpenReads DEF Registry!Next
<1>5. ASSUME UNCHANGED <<committed, got>>,
             rows' = rows \/ \E x : rows' = [rows EXCEPT ![x] = NoRow]
      PROVE  Registry!Next \/ UNCHANGED <<LinksNow, LinksPast, Answers>>
  BY <1>2, <1>5, RemovalRetires DEF Registry!Next
<1> QED BY <1>1, <1>3, <1>4, <1>5, NextKinds

\* The server implements LinkRegistry: a slug is published once and never
\* again after its row is gone, a body is shown by one link and once, and a
\* reader gets a body its own link has shown, whatever fails or crashes.
THEOREM PromiseKept == Spec => KeepsPromise
  BY RegistryInit, RegistryStep, ServingHolds, PTL DEF Spec, KeepsPromise, Registry!Spec
=============================================================================
