--------------------------- MODULE KSharedProofs ---------------------------
(***************************************************************************)
(* Theorems about KShared for every number of requests and slugs, every    *)
(* bound and every lifetime: typing and control, ownership of slugs, the   *)
(* durability of an answered upload and the undoing of a failed one.       *)
(***************************************************************************)
EXTENDS KSharedInv, TLAPS

-----------------------------------------------------------------------------
(* Layer 1: Control.                                                       *)

LEMMA InitControl == Init => Control
<1> SUFFICES ASSUME Init PROVE Control
    OBVIOUS
<1> USE LimitsAreNumbers, HandlerLimits, LifeLimits, ExtensionsAreKnown
<1> USE DEF Init, StoreInit, HandlersInit, SweeperInit, BootInit
<1>1. StoreTypeOK
  BY DEF StoreTypeOK
<1>2. HandlersTypeOK
  BY DEF HandlersTypeOK, Steps, Working, Answered
<1>3. SweeperTypeOK /\ BootTypeOK
  <2>1. 0 \in 0..MaxNow
    BY SMT
  <2>2. SweeperTypeOK
    BY <2>1 DEF SweeperTypeOK
  <2>3. BootTypeOK
    BY DEF BootTypeOK, Phases
  <2> QED BY <2>2, <2>3
<1>4. crashes \in 0..MaxCrashes /\ stops \in 0..MaxStops
  OBVIOUS
<1>5. StepsOfKind /\ SendersHold /\ TargetsSet /\ QuietOutside /\ SweepingHeld
  BY DEF StepsOfKind, UploadSteps, ReplaceSteps, DeleteSteps, GetSteps, SendersHold, TargetsSet,
         QuietOutside, SweepingHeld, InFlight, Working, Senders, Requests
<1> QED BY <1>1, <1>2, <1>3, <1>4, <1>5 DEF Control, TypeOK

\* A handler's step leaves the sweeper, the boot and the process alone, and
\* is taken only while requests are served.
LEMMA HandleFrame ==
  ASSUME Control, NEW r \in Requests, Handle(r)
  PROVE  /\ InFlight(r)
         /\ SweeperTypeOK' /\ BootTypeOK' /\ QuietOutside' /\ SweepingHeld'
         /\ crashes' \in 0..MaxCrashes /\ stops' \in 0..MaxStops
<1>1. InFlight(r)
  BY DEF Handle, Advance, InFlight, Working, EndStream, AbortStream, Discard, InsertFresh,
         InsertCollides, InsertFails, PromoteUpload, PromoteUploadFails, RollBack, UpdateRow,
         UpdateMisses, PromoteReplace, PromoteReplaceFails, CleanOldName, DeleteLink, Unlink, OpenFile
<1>2. phase \notin {"down", "reaping", "files", "rows"}
  BY <1>1 DEF Control, QuietOutside
<1> QED
  BY <1>1, <1>2 DEF Control, TypeOK, Handle, sweeperVars, bootVars, lifeVars, SweeperTypeOK,
     BootTypeOK, QuietOutside, SweepingHeld

LEMMA HandleControl ==
  ASSUME Control, NEW r \in Requests, Handle(r)
  PROVE Control'
<1> USE LimitsAreNumbers, HandlerLimits, KindsAreDisjoint
<1> USE DEF Control, TypeOK, heldVars, shownVars, Goto, Senders, Requests
<1> DEFINE Local == StepsOfKind /\ SendersHold /\ TargetsSet
<1> USE DEF StepsOfKind, UploadSteps, ReplaceSteps, DeleteSteps, GetSteps, SendersHold, TargetsSet,
            InFlight, Working, PartialName, DiskName
<1>1. CASE EndStream(r)
  <2> DEFINE f == [body |-> r, whole |-> TRUE, mtime |-> now]
  <2>s. r \in Senders /\ PartialName(r) \in Names
    BY <1>1 DEF EndStream, HandlersTypeOK, PartialNames, Names
  <2>e. f \in File
    BY <2>s DEF StoreTypeOK, File
  <2>f. f \in File /\ f # NoFile
    BY <2>e, SentinelsAreApart
  <2>g. files' = [files EXCEPT ![PartialName(r)] = f] /\ UNCHANGED <<rows, now, faults>>
    BY <1>1 DEF EndStream, FinishFile
  <2>h. mine[r] \in Row /\ mine' = [mine EXCEPT ![r].at = now]
    BY <1>1 DEF EndStream
  <2>i. mine'[r] \in Row
    BY <2>s, <2>h, SMTT(30) DEF StoreTypeOK, HandlersTypeOK, Row
  <2>1. StoreTypeOK'
    BY <2>f, <2>g DEF StoreTypeOK
  <2>2. HandlersTypeOK'
    BY <1>1, SMTT(30) DEF EndStream, FinishFile, HandlersTypeOK, Steps, Answered, Row, StoreTypeOK
  <2>3. StepsOfKind' /\ TargetsSet'
    BY <1>1, SMTT(30) DEF EndStream, StoreTypeOK, HandlersTypeOK
  <2>4. SendersHold'
    <3>1. files'[PartialName(r)] = f
      BY <2>s, <2>g DEF StoreTypeOK
    <3>2. \A q \in Senders \ {r} : PartialName(q) # PartialName(r)
      OBVIOUS
    <3>3. \A q \in Senders \ {r} : files'[PartialName(q)] = files[PartialName(q)]
      BY <2>g, <3>2 DEF StoreTypeOK, PartialNames, Names
    <3>4. \A q \in Senders \ {r} : mine'[q] = mine[q] /\ pc'[q] = pc[q]
      BY <1>1, <2>h DEF EndStream, HandlersTypeOK
    <3>5. \A q \in Uploads : pc'[q] \in {"new", "streaming", "inserting"} => tries'[q] < SlugRetries
      BY <1>1, SMTT(30) DEF EndStream, HandlersTypeOK
    <3> QED
      BY <2>f, <2>i, <3>1, <3>3, <3>4, <3>5
  <2> QED BY <2>1, <2>2, <2>3, <2>4, HandleFrame
<1>2. CASE AbortStream(r)
  <2>1. StoreTypeOK'
    BY <1>2, SMTT(30) DEF AbortStream, TryRemove, RemoveFile, Fault, StoreTypeOK
  <2>2. HandlersTypeOK'
    BY <1>2, SMTT(30) DEF AbortStream, TryRemove, RemoveFile, Fault, HandlersTypeOK, Steps, Answered
  <2>3. Local'
    BY <1>2, SMTT(30) DEF AbortStream, TryRemove, RemoveFile, Fault, HandlersTypeOK, StoreTypeOK, PartialNames, SlugNames, Names
  <2> QED BY <2>1, <2>2, <2>3, HandleFrame
<1>3. CASE Discard(r)
  <2>1. StoreTypeOK'
    BY <1>3, SMTT(30) DEF Discard, TryRemove, RemoveFile, Fault, StoreTypeOK
  <2>2. HandlersTypeOK'
    BY <1>3, SMTT(30) DEF Discard, TryRemove, RemoveFile, Fault, HandlersTypeOK, Steps, Answered
  <2>3. Local'
    BY <1>3, SMTT(30) DEF Discard, TryRemove, RemoveFile, Fault, HandlersTypeOK, StoreTypeOK, PartialNames, SlugNames, Names
  <2> QED BY <2>1, <2>2, <2>3, HandleFrame
<1>4. CASE InsertFresh(r)
  <2>1. StoreTypeOK'
    BY <1>4, SMTT(30) DEF InsertFresh, StatementRuns, InsertRow, Unused, StoreTypeOK, HandlersTypeOK
  <2>2. HandlersTypeOK'
    BY <1>4, SMTT(30) DEF InsertFresh, StatementRuns, InsertRow, Unused, HandlersTypeOK, Steps, Answered
  <2>3. Local'
    BY <1>4, SMTT(30) DEF InsertFresh, StatementRuns, InsertRow, Unused, HandlersTypeOK
  <2> QED BY <2>1, <2>2, <2>3, HandleFrame
<1>5. CASE InsertCollides(r)
  <2>1. StoreTypeOK'
    BY <1>5, SMTT(30) DEF InsertCollides, StatementRuns, StoreTypeOK
  <2>2. HandlersTypeOK'
    BY <1>5, SMTT(30) DEF InsertCollides, StatementRuns, HandlersTypeOK, Steps, Answered
  <2>3. Local'
    BY <1>5, SMTT(30) DEF InsertCollides, StatementRuns, HandlersTypeOK
  <2> QED BY <2>1, <2>2, <2>3, HandleFrame
<1>6. CASE InsertFails(r)
  <2>1. StoreTypeOK'
    BY <1>6, SMTT(30) DEF InsertFails, StatementFails, Fault, StoreTypeOK
  <2>2. HandlersTypeOK'
    BY <1>6, SMTT(30) DEF InsertFails, StatementFails, Fault, HandlersTypeOK, Steps, Answered
  <2>3. Local'
    BY <1>6, SMTT(30) DEF InsertFails, StatementFails, Fault, HandlersTypeOK
  <2> QED BY <2>1, <2>2, <2>3, HandleFrame
<1>7. CASE PromoteUpload(r)
  <2>1. StoreTypeOK'
    BY <1>7, SMTT(30) DEF PromoteUpload, RenameFile, StoreTypeOK, PartialNames, Names
  <2>2. HandlersTypeOK'
    BY <1>7, SMTT(30) DEF PromoteUpload, RenameFile, HandlersTypeOK, Steps, Answered
  <2>3. Local'
    BY <1>7, SMTT(30) DEF PromoteUpload, RenameFile, HandlersTypeOK, StoreTypeOK, PartialNames, SlugNames, Names
  <2> QED BY <2>1, <2>2, <2>3, HandleFrame
<1>8. CASE PromoteUploadFails(r)
  <2>1. StoreTypeOK'
    BY <1>8, SMTT(30) DEF PromoteUploadFails, Fault, StoreTypeOK
  <2>2. HandlersTypeOK'
    BY <1>8, SMTT(30) DEF PromoteUploadFails, Fault, HandlersTypeOK, Steps, Answered
  <2>3. Local'
    BY <1>8, SMTT(30) DEF PromoteUploadFails, Fault, HandlersTypeOK
  <2> QED BY <2>1, <2>2, <2>3, HandleFrame
<1>9. CASE RollBack(r)
  <2>1. StoreTypeOK'
    BY <1>9, SMTT(30) DEF RollBack, StatementRuns, StatementFails, DeleteRow, Fault, StoreTypeOK
  <2>2. HandlersTypeOK'
    BY <1>9, SMTT(30) DEF RollBack, StatementRuns, StatementFails, DeleteRow, Fault, HandlersTypeOK, Steps, Answered
  <2>3. Local'
    BY <1>9, SMTT(30) DEF RollBack, StatementRuns, StatementFails, DeleteRow, Fault, HandlersTypeOK
  <2> QED BY <2>1, <2>2, <2>3, HandleFrame
<1>10. CASE UpdateRow(r)
  <2>1. StoreTypeOK'
    BY <1>10, SMTT(30) DEF UpdateRow, StatementRuns, ReplaceRow, StoreTypeOK, HandlersTypeOK
  <2>2. HandlersTypeOK'
    BY <1>10, SMTT(30) DEF UpdateRow, StatementRuns, ReplaceRow, HandlersTypeOK, Steps, Answered
  <2>3. Local'
    BY <1>10, SMTT(30) DEF UpdateRow, StatementRuns, ReplaceRow, HandlersTypeOK
  <2> QED BY <2>1, <2>2, <2>3, HandleFrame
<1>11. CASE UpdateMisses(r)
  <2>1. StoreTypeOK'
    BY <1>11, SMTT(30) DEF UpdateMisses, StatementRuns, StatementFails, Fault, StoreTypeOK
  <2>2. HandlersTypeOK'
    BY <1>11, SMTT(30) DEF UpdateMisses, StatementRuns, StatementFails, Fault, HandlersTypeOK, Steps, Answered
  <2>3. Local'
    BY <1>11, SMTT(30) DEF UpdateMisses, StatementRuns, StatementFails, Fault, HandlersTypeOK
  <2> QED BY <2>1, <2>2, <2>3, HandleFrame
<1>12. CASE PromoteReplace(r)
  <2>1. StoreTypeOK'
    BY <1>12, SMTT(30) DEF PromoteReplace, RenameFile, StoreTypeOK, PartialNames, Names
  <2>2. HandlersTypeOK'
    BY <1>12, SMTT(30) DEF PromoteReplace, RenameFile, HandlersTypeOK, Steps, Answered
  <2>3. Local'
    BY <1>12, SMTT(30) DEF PromoteReplace, RenameFile, HandlersTypeOK, StoreTypeOK, PartialNames, SlugNames, Names
  <2> QED BY <2>1, <2>2, <2>3, HandleFrame
<1>13. CASE PromoteReplaceFails(r)
  <2>1. StoreTypeOK'
    BY <1>13, SMTT(30) DEF PromoteReplaceFails, Fault, StoreTypeOK
  <2>2. HandlersTypeOK'
    BY <1>13, SMTT(30) DEF PromoteReplaceFails, Fault, HandlersTypeOK, Steps, Answered
  <2>3. Local'
    BY <1>13, SMTT(30) DEF PromoteReplaceFails, Fault, HandlersTypeOK
  <2> QED BY <2>1, <2>2, <2>3, HandleFrame
<1>14. CASE CleanOldName(r)
  <2>1. StoreTypeOK'
    BY <1>14, SMTT(30) DEF CleanOldName, TryRemove, RemoveFile, Fault, StoreTypeOK
  <2>2. HandlersTypeOK'
    BY <1>14, SMTT(30) DEF CleanOldName, TryRemove, RemoveFile, Fault, HandlersTypeOK, Steps, Answered
  <2>3. Local'
    BY <1>14, SMTT(30) DEF CleanOldName, TryRemove, RemoveFile, Fault, HandlersTypeOK, StoreTypeOK, PartialNames, SlugNames, Names
  <2> QED BY <2>1, <2>2, <2>3, HandleFrame
<1>15. CASE DeleteLink(r)
  <2>1. StoreTypeOK'
    BY <1>15, SMTT(30) DEF DeleteLink, StatementRuns, StatementFails, DeleteRow, Fault, StoreTypeOK
  <2>2. HandlersTypeOK'
    BY <1>15, SMTT(30) DEF DeleteLink, StatementRuns, StatementFails, DeleteRow, Fault, HandlersTypeOK, Steps, Answered
  <2>3. Local'
    BY <1>15, SMTT(30) DEF DeleteLink, StatementRuns, StatementFails, DeleteRow, Fault, HandlersTypeOK
  <2> QED BY <2>1, <2>2, <2>3, HandleFrame
<1>16. CASE Unlink(r)
  <2>1. StoreTypeOK'
    BY <1>16, SMTT(30) DEF Unlink, TryRemove, RemoveFile, Fault, StoreTypeOK
  <2>2. HandlersTypeOK'
    BY <1>16, SMTT(30) DEF Unlink, TryRemove, RemoveFile, Fault, HandlersTypeOK, Steps, Answered
  <2>3. Local'
    BY <1>16, SMTT(30) DEF Unlink, TryRemove, RemoveFile, Fault, HandlersTypeOK, StoreTypeOK, PartialNames, SlugNames, Names
  <2> QED BY <2>1, <2>2, <2>3, HandleFrame
<1>17. CASE OpenFile(r)
  <2>1. StoreTypeOK'
    BY <1>17, SMTT(30) DEF OpenFile, Fault, StoreTypeOK
  <2>2. HandlersTypeOK'
    BY <1>17, SMTT(30) DEF OpenFile, Fault, HandlersTypeOK, Steps, Answered, StoreTypeOK, Row, SlugNames, Names
  <2>3. Local'
    BY <1>17, SMTT(30) DEF OpenFile, Fault, HandlersTypeOK
  <2> QED BY <2>1, <2>2, <2>3, HandleFrame
<1> QED
  BY <1>1, <1>2, <1>3, <1>4, <1>5, <1>6, <1>7, <1>8, <1>9, <1>10, <1>11, <1>12, <1>13, <1>14, <1>15, <1>16, <1>17 DEF Handle, Advance

LEMMA AcceptControl ==
  ASSUME Control, NEW r \in Requests, Accept(r)
  PROVE Control'
<1> USE LimitsAreNumbers, HandlerLimits, KindsAreDisjoint
<1> USE DEF Control, TypeOK, shownVars, Goto, Senders, Requests
<1> DEFINE Local == StepsOfKind /\ SendersHold /\ TargetsSet
<1> USE DEF StepsOfKind, UploadSteps, ReplaceSteps, DeleteSteps, GetSteps, SendersHold, TargetsSet,
            InFlight, Working, PartialName, DiskName
<1>1. /\ SweeperTypeOK' /\ BootTypeOK' /\ QuietOutside' /\ SweepingHeld'
      /\ crashes' \in 0..MaxCrashes /\ stops' \in 0..MaxStops
  BY DEF Accept, sweeperVars, bootVars, lifeVars, SweeperTypeOK, BootTypeOK, QuietOutside, SweepingHeld
<1>2. ASSUME r \in Senders, OpenPartial(r), UNCHANGED <<rows, now>>,
             faults' \in 0..MaxFaults
      PROVE  /\ StoreTypeOK'
             /\ mine' \in [Senders -> Row \cup {NoRow}]
             /\ \E p \in {"streaming", "failed"} :
                  /\ pc' = [pc EXCEPT ![r] = p]
                  /\ p = "streaming" => mine'[r] \in Row /\ files'[PartialName(r)] # NoFile
             /\ \A q \in Senders \ {r} :
                  mine'[q] = mine[q] /\ files'[PartialName(q)] = files[PartialName(q)]
  <2>1. CASE UNCHANGED <<files, mine>> /\ pc' = [pc EXCEPT ![r] = "failed"]
    BY <1>2, <2>1 DEF StoreTypeOK, HandlersTypeOK
  <2>2. ASSUME NEW e \in SentExts, NEW t \in AskedTTLs,
               CreateFile(PartialName(r), r),
               mine' = [mine EXCEPT ![r] = [ext |-> e, body |-> r, at |-> now, ttl |-> t]],
               pc' = [pc EXCEPT ![r] = "streaming"]
        PROVE  /\ StoreTypeOK'
               /\ mine' \in [Senders -> Row \cup {NoRow}]
               /\ mine'[r] \in Row /\ files'[PartialName(r)] # NoFile
               /\ \A q \in Senders \ {r} :
                    mine'[q] = mine[q] /\ files'[PartialName(q)] = files[PartialName(q)]
    <3> DEFINE row == [ext |-> e, body |-> r, at |-> now, ttl |-> t]
               f == [body |-> r, whole |-> FALSE, mtime |-> now]
    <3>1. row \in Row
      BY <1>2, ExtensionsAreKnown DEF Row, StoreTypeOK
    <3>2. f \in File
      BY <1>2 DEF File, StoreTypeOK
    <3>3. f # NoFile
      BY <3>2, SentinelsAreApart
    <3>4. files' = [files EXCEPT ![PartialName(r)] = f]
      BY <2>2 DEF CreateFile
    <3>5. StoreTypeOK'
      BY <1>2, <3>2, <3>4 DEF StoreTypeOK
    <3>6. \A q \in Senders : PartialName(q) \in Names
      BY DEF Names, PartialNames
    <3>7. files'[PartialName(r)] # NoFile
      BY <1>2, <3>3, <3>4, <3>6 DEF StoreTypeOK
    <3>8. \A q \in Senders \ {r} : files'[PartialName(q)] = files[PartialName(q)]
      BY <1>2, <3>4, <3>6 DEF StoreTypeOK
    <3>9. /\ mine' \in [Senders -> Row \cup {NoRow}] /\ mine'[r] \in Row
          /\ \A q \in Senders \ {r} : mine'[q] = mine[q]
      BY <1>2, <2>2, <3>1 DEF HandlersTypeOK
    <3> QED BY <2>2, <3>5, <3>7, <3>8, <3>9
  <2> QED BY <1>2, <2>1, <2>2 DEF OpenPartial
<1>3. CASE BeginUpload(r)
  <2>1. r \in Uploads /\ pc[r] = "new" /\ OpenPartial(r) /\ UNCHANGED <<rows, now, faults, target, seen, tries, cancelled, got, committed>>
    BY <1>3 DEF BeginUpload
  <2>2. StoreTypeOK'
    BY <1>2, <2>1 DEF StoreTypeOK
  <2>3. HandlersTypeOK'
    BY <1>2, <2>1 DEF StoreTypeOK, HandlersTypeOK, Steps, Answered
  <2>4. Local'
    BY <1>2, <2>1, SMTT(30) DEF StoreTypeOK, HandlersTypeOK
  <2> QED BY <1>1, <2>2, <2>3, <2>4
<1>4. ASSUME NEW s \in Slugs, BeginReplace(r, s)
      PROVE  Control'
  <2>1. /\ r \in Replaces /\ pc[r] = "new"
        /\ UNCHANGED <<rows, now, tries, cancelled, got, committed>>
    BY <1>4 DEF BeginReplace
  <2>2. CASE Lookup(r, s) /\ OpenPartial(r)
    <3>1. /\ target' = [target EXCEPT ![r] = s] /\ seen' = [seen EXCEPT ![r] = rows[s]]
          /\ rows[s] \in Row /\ UNCHANGED faults
      BY <2>2 DEF Lookup, StatementRuns, IsFound, StoreTypeOK
    <3>2. StoreTypeOK'
      BY <1>2, <2>1, <2>2, <3>1 DEF StoreTypeOK
    <3>3. HandlersTypeOK'
      BY <1>2, <2>1, <2>2, <3>1 DEF StoreTypeOK, HandlersTypeOK, Steps, Answered
    <3>4. Local'
      BY <1>2, <2>1, <2>2, <3>1, SMTT(30) DEF StoreTypeOK, HandlersTypeOK
    <3> QED BY <1>1, <3>2, <3>3, <3>4
  <2>3. CASE (LookupMisses(r, s) \/ LookupFails(r)) /\ UNCHANGED <<files, mine>>
    <3>1. /\ \E p \in {"missed", "failed"} : pc' = [pc EXCEPT ![r] = p]
          /\ UNCHANGED <<target, seen>> /\ faults' \in 0..MaxFaults
      BY <2>3 DEF LookupMisses, LookupFails, StatementRuns, StatementFails, Fault, StoreTypeOK
    <3>2. StoreTypeOK'
      BY <2>1, <2>3, <3>1 DEF StoreTypeOK
    <3>3. HandlersTypeOK'
      BY <2>1, <2>3, <3>1 DEF HandlersTypeOK, Steps, Answered
    <3>4. Local'
      BY <2>1, <2>3, <3>1, SMTT(30) DEF HandlersTypeOK
    <3> QED BY <1>1, <3>2, <3>3, <3>4
  <2> QED BY <1>4, <2>2, <2>3 DEF BeginReplace
<1>5. ASSUME NEW s \in Slugs, BeginDelete(r, s) \/ BeginServe(r, s)
      PROVE  Control'
  <2>1. /\ r \in Deletes \cup Gets /\ pc[r] = "new"
        /\ UNCHANGED <<rows, files, now, mine, tries, cancelled, got, committed>>
    BY <1>5 DEF BeginDelete, BeginServe
  <2>2. \/ /\ pc' = [pc EXCEPT ![r] = IF r \in Deletes THEN "deleting" ELSE "opening"]
           /\ Lookup(r, s)
        \/ LookupMisses(r, s) \/ LookupFails(r)
    BY <1>5 DEF BeginDelete, BeginServe
  <2>3. CASE /\ pc' = [pc EXCEPT ![r] = IF r \in Deletes THEN "deleting" ELSE "opening"]
             /\ Lookup(r, s)
    <3>1. /\ target' = [target EXCEPT ![r] = s] /\ seen' = [seen EXCEPT ![r] = rows[s]]
          /\ rows[s] \in Row /\ UNCHANGED faults
      BY <2>3 DEF Lookup, StatementRuns, IsFound, StoreTypeOK
    <3>2. StoreTypeOK' /\ HandlersTypeOK'
      BY <2>1, <2>3, <3>1 DEF StoreTypeOK, HandlersTypeOK, Steps, Answered
    <3>3. Local'
      BY <2>1, <2>3, <3>1, SMTT(30) DEF HandlersTypeOK
    <3> QED BY <1>1, <3>2, <3>3
  <2>4. CASE LookupMisses(r, s) \/ LookupFails(r)
    <3>1. /\ \E p \in {"missed", "failed"} : pc' = [pc EXCEPT ![r] = p]
          /\ UNCHANGED <<target, seen>> /\ faults' \in 0..MaxFaults
      BY <2>4 DEF LookupMisses, LookupFails, StatementRuns, StatementFails, Fault, StoreTypeOK
    <3>2. StoreTypeOK' /\ HandlersTypeOK'
      BY <2>1, <3>1 DEF StoreTypeOK, HandlersTypeOK, Steps, Answered
    <3>3. Local'
      BY <2>1, <3>1, SMTT(30) DEF HandlersTypeOK
    <3> QED BY <1>1, <3>2, <3>3
  <2> QED BY <2>2, <2>3, <2>4
<1> QED BY <1>3, <1>4, <1>5 DEF Accept, Arrive

LEMMA RunSweeperControl == Control /\ RunSweeper => Control'
<1> SUFFICES ASSUME Control, RunSweeper PROVE Control'
    OBVIOUS
<1> USE LimitsAreNumbers
<1> USE DEF Control, TypeOK, StoreTypeOK, storeVars
<1>1. UNCHANGED <<pc, target, seen, mine, tries, cancelled, got, committed,
                  phase, skipped, crashes, stops>>
  BY DEF RunSweeper, requestVars, heldVars, shownVars, bootVars, lifeVars
<1>2. phase \notin {"down", "reaping", "files", "rows"}
  BY DEF RunSweeper
<1>3. HandlersTypeOK' /\ BootTypeOK' /\ QuietOutside'
      /\ StepsOfKind' /\ TargetsSet' /\ crashes' \in 0..MaxCrashes /\ stops' \in 0..MaxStops
  BY <1>1, <1>2 DEF HandlersTypeOK, BootTypeOK, QuietOutside, StepsOfKind, TargetsSet, InFlight
<1>4. ASSUME UNCHANGED files PROVE SendersHold'
  BY <1>1, <1>4 DEF SendersHold
<1>t. now \in 0..MaxNow /\ due \in 0..MaxNow /\ MinTTL \in Nat \ {0} /\ MaxNow \in Nat
  BY DEF SweeperTypeOK
<1>i. \A t \in Nat : InTime(t) \in 0..MaxNow
  BY <1>t DEF InTime
<1>d. ASSUME TakeTick \/ AwaitTick \/ UNCHANGED due PROVE due' \in 0..MaxNow
  <2>1. ASSUME TakeTick PROVE due' \in 0..MaxNow
    <3>1. \A t \in (now + 1)..(now + MinTTL) : InTime(t) \in 0..MaxNow
      BY <1>t, <1>i
    <3> QED BY <1>t, <2>1, <3>1 DEF TakeTick, NextTicks
  <2>2. ASSUME AwaitTick PROVE due' \in 0..MaxNow
    BY <1>t, <1>i, <2>2 DEF AwaitTick
  <2> QED BY <1>d, <1>t, <2>1, <2>2
<1>5. CASE BeginSweep
  <2>1. \A i \in ListExpired : i \in Entry
    BY DEF ListExpired, Entry, StoreTypeOK
  <2>2. SweeperTypeOK' /\ SweepingHeld'
    BY <1>5, <1>d, <2>1 DEF BeginSweep, SweeperTypeOK, SweepingHeld
  <2> QED BY <1>3, <1>4, <1>5, <2>2 DEF BeginSweep
<1>s. CASE SkipSweep
  <2>1. SweeperTypeOK' /\ SweepingHeld'
    BY <1>s, <1>d DEF SkipSweep, AwaitTick, SweeperTypeOK, SweepingHeld
  <2>2. faults' \in 0..MaxFaults
    BY <1>s DEF SkipSweep, Fault
  <2> QED BY <1>3, <1>4, <1>s, <2>1, <2>2 DEF SkipSweep
<1>6. CASE SweepRow
  <2>1. SweeperTypeOK' /\ SweepingHeld'
    BY <1>6, <1>d DEF SweepRow, IsNext, SweeperTypeOK, SweepingHeld
  <2>2. rows' \in [Slugs -> Row \cup {NoRow}]
    BY <1>6 DEF SweepRow, DeleteRow
  <2> QED BY <1>3, <1>4, <1>6, <2>1, <2>2 DEF SweepRow
<1>7. CASE SkipRow
  <2>0. due' \in 0..MaxNow /\ (sweep' = "rows" \/ AwaitTick)
    BY <1>7, <1>d DEF SkipRow, NextRow
  <2>1. SweeperTypeOK' /\ SweepingHeld'
    BY <1>7, <2>0 DEF SkipRow, NextRow, AwaitTick, SweeperTypeOK, SweepingHeld
  <2>2. faults' \in 0..MaxFaults
    BY <1>7 DEF SkipRow, Fault
  <2> QED BY <1>3, <1>4, <1>7, <2>1, <2>2 DEF SkipRow
<1>8. CASE SweepFile
  <2>0. due' \in 0..MaxNow /\ (sweep' = "rows" \/ AwaitTick)
    BY <1>8, <1>d DEF SweepFile, NextRow
  <2>1. SweeperTypeOK' /\ SweepingHeld'
    BY <1>8, <2>0 DEF SweepFile, NextRow, AwaitTick, SweeperTypeOK, SweepingHeld
  <2>2. faults' \in 0..MaxFaults /\ files' \in [Names -> File \cup {NoFile}]
    BY <1>8 DEF SweepFile, TryRemove, RemoveFile, Fault
  <2>3. sweeping.slug \in Slugs
    BY <1>8 DEF SweepFile, SweepingHeld, Entry
  <2>4. \A q \in Senders : files'[PartialName(q)] = files[PartialName(q)]
    BY <1>8, <2>3, KindsAreDisjoint
    DEF SweepFile, TryRemove, RemoveFile, PartialName, DiskName, Names, PartialNames
  <2>5. SendersHold'
    BY <1>1, <2>4 DEF SendersHold
  <2> QED BY <1>3, <1>8, <2>1, <2>2, <2>5 DEF SweepFile
<1>9. CASE StopSweeper
  <2>1. SweeperTypeOK' /\ SweepingHeld'
    BY <1>9 DEF StopSweeper, SweeperTypeOK, SweepingHeld
  <2> QED BY <1>3, <1>4, <1>9, <2>1 DEF StopSweeper
<1> QED BY <1>5, <1>s, <1>6, <1>7, <1>8, <1>9 DEF RunSweeper, Sweep

\* The clock moves, or a client hangs up: only "now" or "cancelled" changes.
LEMMA EnvironmentControl ==
  ASSUME Control, Clock \/ \E r \in Requests : LoseClient(r)
  PROVE  Control'
<1> USE LimitsAreNumbers, HandlerLimits
<1> USE DEF Control, TypeOK
<1>1. /\ UNCHANGED <<rows, files, faults, pc, target, seen, mine, tries, got,
                     committed, sweep, due, queue, sweeping, phase, skipped, crashes, stops>>
      /\ now' \in 0..MaxNow /\ cancelled' \subseteq MayHangUp
  BY DEF Clock, Tick, LoseClient, HangUp, storeVars, requestVars, heldVars, shownVars, sweeperVars,
         bootVars, lifeVars, StoreTypeOK, HandlersTypeOK
<1>2. TypeOK'
  BY <1>1 DEF StoreTypeOK, HandlersTypeOK, SweeperTypeOK, BootTypeOK
<1>3. StepsOfKind' /\ SendersHold' /\ TargetsSet' /\ QuietOutside' /\ SweepingHeld'
  BY <1>1 DEF StepsOfKind, SendersHold, TargetsSet, QuietOutside, SweepingHeld, InFlight
<1> QED BY <1>2, <1>3

\* A boot pass runs while no request is in flight, so what it removes is in
\* nobody's hands.
LEMMA BootControl ==
  ASSUME Control, Boot \/ Listen
  PROVE  Control'
<1> USE LimitsAreNumbers
<1> USE DEF Control, TypeOK, storeVars
<1>1. /\ UNCHANGED <<now, pc, target, seen, mine, tries, cancelled, got, committed,
                     queue, sweeping, crashes, stops>>
      /\ phase \in {"down", "reaping", "files", "rows"}
  BY DEF Boot, Listen, Start, Repair, ReapPartial, EndReap, ReapOrphan, EndReconcileFiles,
         DropDangling, EndPass, requestVars, heldVars, shownVars, sweeperVars, bootVars, lifeVars
<1>2. sweep = "off" /\ \A r \in Requests : ~InFlight(r)
  BY <1>1 DEF QuietOutside
<1>3. /\ sweep' \in {"off", "waiting"}
      /\ phase' \in {"down", "reaping", "files", "rows"} => sweep' = "off"
      /\ phase' \in Phases /\ skipped' \in BOOLEAN /\ due' \in {due, 0}
  BY <1>2 DEF Boot, Listen, Start, Repair, ReapPartial, EndReap, ReapOrphan, EndReconcileFiles,
         DropDangling, EndPass, sweeperVars, bootVars, BootTypeOK, Phases
<1>4. /\ files' \in [Names -> File \cup {NoFile}]
      /\ rows' \in [Slugs -> Row \cup {NoRow}]
      /\ faults' \in 0..MaxFaults
  BY DEF Boot, Listen, Start, Repair, ReapPartial, EndReap, ReapOrphan, EndReconcileFiles,
         DropDangling, EndPass, RemoveFile, DeleteRow, Fault, StoreTypeOK, bootVars
<1>5. TypeOK'
  BY <1>1, <1>3, <1>4 DEF StoreTypeOK, HandlersTypeOK, SweeperTypeOK, BootTypeOK
<1>6. StepsOfKind' /\ SendersHold' /\ TargetsSet'
  BY <1>1, <1>2 DEF StepsOfKind, SendersHold, TargetsSet, InFlight, Working, Senders, Requests
<1>7. QuietOutside' /\ SweepingHeld'
  BY <1>1, <1>2, <1>3 DEF QuietOutside, SweepingHeld, InFlight
<1> QED BY <1>5, <1>6, <1>7

\* The process changes phase, or ends and loses what was in flight.
LEMMA ProcessControl ==
  ASSUME Control, Terminate \/ Drained \/ Exit \/ Crash
  PROVE  Control'
<1> USE LimitsAreNumbers, LifeLimits
<1> USE DEF Control, TypeOK, storeVars, heldVars, shownVars
<1>1. /\ UNCHANGED <<rows, files, now, faults, target, seen, mine, tries, cancelled, got,
                     committed, skipped>>
      /\ crashes' \in 0..MaxCrashes /\ stops' \in 0..MaxStops
  BY DEF Terminate, Drained, Exit, Crash, ProcessEnds, requestVars, lifeVars
<1>2. CASE Terminate \/ Drained
  <2>1. /\ UNCHANGED <<pc, sweep, due, queue, sweeping>>
        /\ phase' \in {"draining", "stopping"}
    BY <1>2 DEF Terminate, Drained, requestVars, sweeperVars
  <2>2. TypeOK'
    BY <1>1, <2>1 DEF StoreTypeOK, HandlersTypeOK, SweeperTypeOK, BootTypeOK, Phases
  <2>3. StepsOfKind' /\ SendersHold' /\ TargetsSet' /\ QuietOutside' /\ SweepingHeld'
    BY <1>1, <2>1 DEF StepsOfKind, SendersHold, TargetsSet, QuietOutside, SweepingHeld, InFlight
  <2> QED BY <2>2, <2>3
<1>3. CASE ProcessEnds
  <2>1. /\ pc' = [r \in Requests |-> IF InFlight(r) THEN "lost" ELSE pc[r]]
        /\ sweep' = "off" /\ due' = 0 /\ queue' = {} /\ sweeping' = NoRow
        /\ phase' = "down"
    BY <1>3 DEF ProcessEnds
  <2>2. TypeOK'
    BY <1>1, <2>1 DEF StoreTypeOK, HandlersTypeOK, SweeperTypeOK, BootTypeOK, Phases, Steps
  <2>3. \A r \in Requests : pc'[r] \in {pc[r], "lost"} /\ pc'[r] \notin Working
    BY <2>1 DEF InFlight, Working
  <2>4. StepsOfKind'
    BY <2>3 DEF StepsOfKind, UploadSteps, ReplaceSteps, DeleteSteps, GetSteps, Senders, Requests
  <2>5. SendersHold' /\ TargetsSet'
    BY <1>1, <2>3 DEF SendersHold, TargetsSet, InFlight, Working, Senders, Requests
  <2>6. QuietOutside' /\ SweepingHeld'
    BY <2>1, <2>3 DEF QuietOutside, SweepingHeld, InFlight
  <2> QED BY <2>2, <2>4, <2>5, <2>6
<1> QED BY <1>2, <1>3 DEF Exit, Crash

\* Nothing the invariants speak of changes in a stuttering step.
LEMMA StutterControl == Control /\ UNCHANGED vars => Control'
  BY DEF Control, TypeOK, StoreTypeOK, HandlersTypeOK, SweeperTypeOK, BootTypeOK, StepsOfKind,
     SendersHold, TargetsSet, QuietOutside, SweepingHeld, InFlight, vars, storeVars, requestVars,
     heldVars, shownVars, sweeperVars, bootVars, lifeVars

LEMMA ControlStep == Control /\ [Next]_vars => Control'
  BY HandleControl, AcceptControl, RunSweeperControl, EnvironmentControl, BootControl,
     ProcessControl, StutterControl DEF Next, Idle

\* Requests keep to the steps of their kind and hold what those steps need,
\* and nothing runs while the process is down or booting.
THEOREM ControlHolds == Spec => []Control
  BY InitControl, ControlStep, PTL DEF Spec

\* Every variable has its type: no step of any handler, pass or crash stores
\* a value of another kind, and no attempt or fault is counted past its limit.
THEOREM TypeCorrect == Spec => []TypeOK
<1>1. Control => TypeOK
  BY DEF Control
<1> QED BY <1>1, ControlHolds, PTL


-----------------------------------------------------------------------------
(* Layer 2: Ownership.                                                     *)

\* What no step undoes: time, a written row, a slug once it is known.
Forward ==
  /\ now' \in Nat /\ now <= now'
  /\ committed \subseteq committed'
  /\ \A r \in Requests : target[r] # NoSlug => target'[r] = target[r]
  /\ \A r \in Senders : pc[r] \notin {"new", "streaming"} => mine'[r] = mine[r]

Unwritten == {"new", "streaming", "inserting", "updating"}

\* A step that builds no row, writes none and names no slug.
Tame ==
  /\ UNCHANGED <<target, mine, committed>>
  /\ now' \in Nat /\ now <= now'
  /\ \A s \in Slugs : rows'[s] \in {rows[s], NoRow}
  /\ \A r \in Senders : pc'[r] \in Unwritten => pc[r] \in Unwritten

\* The sweeper goes through its snapshot, or takes a new one.
SweepMoves ==
  /\ queue' \subseteq queue \cup ListExpired
  /\ sweep' = "file" => sweeping' \in queue \/ (sweep = "file" /\ sweeping' = sweeping)

\* The steps of a request that are not tame.
Builds(r) == Accept(r) \/ EndStream(r) \/ InsertFresh(r) \/ UpdateRow(r)

LEMMA TameHandlers ==
  ASSUME Control, NEW r \in Requests, Handle(r), ~Builds(r)
  PROVE  Tame /\ SweepMoves
<1> USE DEF Goto, heldVars, shownVars, sweeperVars, SweepMoves, Tame, Unwritten
<1>1. /\ UNCHANGED <<sweep, queue, sweeping>>
      /\ now \in Nat
      /\ rows \in [Slugs -> Row \cup {NoRow}] /\ pc \in [Requests -> Steps]
      /\ r \in Senders => pc[r] \in UploadSteps \cup ReplaceSteps
  BY DEF Handle, Control, TypeOK, StoreTypeOK, HandlersTypeOK, StepsOfKind, Senders
<1>2. CASE AbortStream(r) \/ Discard(r)
  BY <1>1, <1>2 DEF AbortStream, Discard, Requests
<1>3. CASE InsertCollides(r) \/ InsertFails(r)
  BY <1>1, <1>3 DEF InsertCollides, InsertFails, Requests
<1>4. CASE PromoteUpload(r) \/ PromoteUploadFails(r)
  BY <1>1, <1>4 DEF PromoteUpload, PromoteUploadFails, Requests
<1>5. CASE RollBack(r)
  BY <1>1, <1>5 DEF RollBack, DeleteRow, Requests
<1>6. CASE UpdateMisses(r) \/ PromoteReplace(r) \/ PromoteReplaceFails(r) \/ CleanOldName(r)
  BY <1>1, <1>6 DEF UpdateMisses, PromoteReplace, PromoteReplaceFails, CleanOldName, Requests
<1>7. CASE DeleteLink(r)
  BY <1>1, <1>7 DEF DeleteLink, DeleteRow, Requests
<1>8. CASE Unlink(r) \/ OpenFile(r)
  BY <1>1, <1>8 DEF Unlink, OpenFile, Requests
<1> QED BY <1>2, <1>3, <1>4, <1>5, <1>6, <1>7, <1>8 DEF Handle, Advance, Builds

LEMMA TameOthers ==
  ASSUME Control, [Next]_vars, \A r \in Requests : ~Accept(r) /\ ~Handle(r)
  PROVE  Tame /\ SweepMoves
<1> USE DEF storeVars, heldVars, shownVars, requestVars, sweeperVars, bootVars, lifeVars,
            SweepMoves, Tame, Unwritten
<1>1. now \in Nat /\ rows \in [Slugs -> Row \cup {NoRow}] /\ SweepingHeld
  BY DEF Control, TypeOK, StoreTypeOK
<1>2. CASE UNCHANGED vars
  BY <1>1, <1>2 DEF vars
<1>3. CASE Clock \/ \E r \in Requests : LoseClient(r)
  BY <1>1, <1>3 DEF Clock, Tick, LoseClient, HangUp
<1>4. CASE Boot \/ Listen
  <2>1. UNCHANGED <<target, mine, committed, now, pc, queue, sweeping>>
    BY <1>4 DEF Boot, Listen, Start, Repair, ReapPartial, EndReap, ReapOrphan, EndReconcileFiles,
       DropDangling, EndPass
  <2>2. sweep' \in {sweep, "waiting"}
    BY <1>4 DEF Boot, Listen
  <2>3. \A s \in Slugs : rows'[s] \in {rows[s], NoRow}
    BY <1>1, <1>4 DEF Boot, Listen, Start, Repair, ReapPartial, EndReap, ReapOrphan,
       EndReconcileFiles, DropDangling, DeleteRow, EndPass
  <2> QED BY <1>1, <2>1, <2>2, <2>3
<1>5. CASE RunSweeper
  <2>1. UNCHANGED <<target, mine, committed, now, pc>>
    BY <1>5 DEF RunSweeper, Sweep, BeginSweep, SkipSweep, SweepRow, SkipRow, SweepFile, StopSweeper
  <2>2. \A s \in Slugs : rows'[s] \in {rows[s], NoRow}
    BY <1>1, <1>5 DEF RunSweeper, Sweep, BeginSweep, SkipSweep, SweepRow, SkipRow, SweepFile,
       StopSweeper, DeleteRow
  <2>3. SweepMoves
    BY <1>5 DEF RunSweeper, Sweep, BeginSweep, SkipSweep, SweepRow, SkipRow, SweepFile, StopSweeper,
       NextRow, IsNext, AwaitTick
  <2> QED BY <1>1, <2>1, <2>2, <2>3
<1>6. CASE Terminate \/ Drained
  BY <1>1, <1>6 DEF Terminate, Drained
<1>7. CASE Exit \/ Crash
  BY <1>1, <1>7 DEF Exit, Crash, ProcessEnds, Requests
<1> QED BY <1>2, <1>3, <1>4, <1>5, <1>6, <1>7 DEF Next, Idle

LEMMA ForwardStep == Control /\ [Next]_vars => Forward
<1> SUFFICES ASSUME Control, [Next]_vars PROVE Forward
    OBVIOUS
<1> USE DEF Forward
<1>1. now \in Nat /\ target \in [Requests -> Slugs \cup {NoSlug}]
      /\ mine \in [Senders -> Row \cup {NoRow}] /\ TargetsSet
  BY DEF Control, TypeOK, StoreTypeOK, HandlersTypeOK
<1>2. CASE Tame
  BY <1>2 DEF Tame
<1>3. ASSUME NEW r \in Requests, Accept(r) PROVE Forward
  <2>1. pc[r] = "new" /\ UNCHANGED <<now, committed>>
    BY <1>3 DEF Accept, Arrive, BeginUpload, BeginReplace, BeginDelete, BeginServe, shownVars
  <2>2. target[r] = NoSlug
    BY <1>1, <2>1 DEF TargetsSet
  <2>3. \A q \in Requests \ {r} : target'[q] = target[q]
    BY <1>1, <1>3 DEF Accept, Arrive, BeginUpload, BeginReplace, BeginDelete, BeginServe, Lookup,
       LookupMisses, LookupFails
  <2>4. \A q \in Senders \ {r} : mine'[q] = mine[q]
    BY <1>1, <1>3 DEF Accept, Arrive, BeginUpload, BeginReplace, BeginDelete, BeginServe, OpenPartial
  <2> QED BY <1>1, <2>1, <2>2, <2>3, <2>4
<1>4. ASSUME NEW r \in Requests, EndStream(r) PROVE Forward
  BY <1>1, <1>4 DEF EndStream, shownVars
<1>5. ASSUME NEW r \in Requests, InsertFresh(r) PROVE Forward
  BY <1>1, <1>5 DEF InsertFresh, TargetsSet
<1>6. ASSUME NEW r \in Requests, UpdateRow(r) PROVE Forward
  BY <1>1, <1>6 DEF UpdateRow, heldVars
<1> QED BY <1>2, <1>3, <1>4, <1>5, <1>6, TameHandlers, TameOthers DEF Builds

LEMMA RowFields ==
  ASSUME NEW row \in Row
  PROVE  /\ row.ext \in Exts /\ row.body \in Senders
         /\ row.at \in Nat /\ row.ttl \in Nat
<1>1. row.ext \in Exts /\ row.body \in Senders /\ row.at \in 0..MaxNow /\ row.ttl \in AskedTTLs
  BY DEF Row
<1>2. row.at \in Nat
  BY <1>1, LimitsAreNumbers
<1>3. row.ttl \in Nat
  BY <1>1, LimitsAreNumbers
<1> QED BY <1>1, <1>2, <1>3

\* Only an INSERT gives an upload its slug, and only to one upload at a time.
LEMMA EntriesKept ==
  ASSUME Control, Ownership, Forward, OneOwner', NEW i \in Entry, LapsedEntry(i)
  PROVE  LapsedEntry(i)'
<1>1. i.slug \in Slugs /\ i.slug # NoSlug /\ i.row \in Row
  BY HandlerLimits DEF Entry
<1>2. Lapsed(i.row)'
  <2>1. i.row.at \in Nat /\ i.row.ttl \in Nat
    BY <1>1, RowFields
  <2>2. now \in Nat /\ now' \in Nat /\ now <= now'
    BY LimitsAreNumbers DEF Forward, Control, TypeOK, StoreTypeOK
  <2> QED BY <2>1, <2>2 DEF LapsedEntry, Lapsed, Expiry
<1>3. PICK u \in Uploads : target[u] = i.slug
  BY DEF LapsedEntry, Owned
<1>4. target'[u] = i.slug
  BY <1>1, <1>3 DEF Forward, Requests, Senders
<1>5. ASSUME Untouched(i.slug)', NEW v \in Uploads, target'[v] = i.slug
      PROVE  i.row = mine'[v]
  <2>1. u = v
    BY <1>1, <1>4, <1>5 DEF OneOwner
  <2>2. Untouched(i.slug)
    BY <1>1, <1>5 DEF Untouched, Forward, Requests, Senders
  <2>3. i.row = mine[u]
    BY <1>3, <2>2 DEF LapsedEntry
  <2>4. mine'[u] = mine[u]
    BY <1>1, <1>3 DEF Forward, Ownership, WrittenIsFinal, Senders
  <2> QED BY <2>1, <2>3, <2>4
<1> QED BY <1>2, <1>4, <1>5 DEF LapsedEntry, Owned

LEMMA SnapshotLapsed ==
  ASSUME Control, Ownership, NEW i \in ListExpired
  PROVE  i \in Entry /\ LapsedEntry(i)
<1>1. PICK s \in Slugs : /\ rows[s] # NoRow /\ Lapsed(rows[s])
                         /\ i = [slug |-> s, row |-> rows[s]]
  BY DEF ListExpired
<1>2. rows[s] \in Row /\ i \in Entry
  BY <1>1 DEF Entry, Control, TypeOK, StoreTypeOK
<1> DEFINE b == rows[s].body
<1>3. b \in Senders /\ target[b] = s /\ mine[b] = rows[s]
  BY <1>1, <1>2 DEF Ownership, RowsOfSenders, Row
<1>4. s # NoSlug
  BY HandlerLimits
<1>5. Owned(s)
  BY <1>3, <1>4 DEF Ownership, TargetsOwned, Requests
<1>6. ASSUME Untouched(s), NEW u \in Uploads, target[u] = s PROVE rows[s] = mine[u]
  <2>1. b \in Uploads
    BY <1>3, <1>6 DEF Untouched, Senders
  <2>2. b = u
    BY <1>3, <1>4, <1>6, <2>1 DEF Ownership, OneOwner
  <2> QED BY <1>3, <2>2
<1> QED BY <1>1, <1>2, <1>5, <1>6 DEF LapsedEntry

LEMMA SweepsLapsedStep ==
  ASSUME Control, Ownership, Forward, OneOwner', SweepMoves
  PROVE  SweepsLapsed'
<1>1. queue \subseteq Entry
  BY DEF Control, TypeOK, SweeperTypeOK
<1>2. \A i \in queue \cup ListExpired : i \in Entry /\ LapsedEntry(i)
  BY <1>1, SnapshotLapsed DEF Ownership, SweepsLapsed
<1>3. \A i \in queue \cup ListExpired : LapsedEntry(i)'
  BY <1>2, EntriesKept
<1>4. ASSUME NEW i, sweep = "file", sweeping = i PROVE LapsedEntry(i)'
  BY <1>4, EntriesKept DEF Ownership, SweepsLapsed, Control, SweepingHeld
<1>5. \A i \in queue' : LapsedEntry(i)'
  BY <1>3 DEF SweepMoves
<1>6. sweep' = "file" => LapsedEntry(sweeping)'
  BY <1>3, <1>4 DEF SweepMoves
<1> QED BY <1>5, <1>6 DEF SweepsLapsed


LEMMA TameOwnership ==
  ASSUME Control, Ownership, Forward, Tame, SweepMoves
  PROVE  Ownership'
<1>1. UNCHANGED <<target, mine, committed>>
  BY DEF Tame
<1>2. OneOwner'
  BY <1>1 DEF Ownership, OneOwner
<1>3. TargetsOwned'
  BY <1>1 DEF Ownership, TargetsOwned, Owned
<1>4. WrittenIsFinal'
  BY <1>1 DEF Ownership, WrittenIsFinal, Written, Tame, Unwritten
<1>5. RowsOfSenders'
  BY <1>1 DEF Ownership, RowsOfSenders, Written, Tame
<1>6. BodiesOwn'
  BY <1>1 DEF Ownership, BodiesOwn, Written
<1> QED BY <1>2, <1>3, <1>4, <1>5, <1>6, SweepsLapsedStep DEF Ownership

\* A request is let in: it learns a slug that has a row, or builds a row.
LEMMA AcceptOwnership ==
  ASSUME Control, Ownership, Forward, NEW r \in Requests, Accept(r)
  PROVE  Ownership'
<1> USE DEF Goto, shownVars
<1>1. /\ pc[r] = "new" /\ pc \in [Requests -> Steps]
      /\ target \in [Requests -> Slugs \cup {NoSlug}]
      /\ mine \in [Senders -> Row \cup {NoRow}]
      /\ target[r] = NoSlug
      /\ UNCHANGED <<rows, committed, sweep, queue, sweeping>>
  BY DEF Accept, Arrive, BeginUpload, BeginReplace, BeginDelete, BeginServe, sweeperVars,
     Control, TypeOK, HandlersTypeOK, TargetsSet
<1>2. \/ target' = target
      \/ /\ r \notin Uploads
         /\ \E s \in Slugs : rows[s] # NoRow /\ target' = [target EXCEPT ![r] = s]
  BY KindsAreDisjoint DEF Accept, Arrive, BeginUpload, BeginReplace, BeginDelete, BeginServe,
     Lookup, LookupMisses, LookupFails, IsFound, Senders
<1>3. \/ mine' = mine
      \/ r \in Senders /\ \E e, t : mine' = [mine EXCEPT ![r] = [ext |-> e, body |-> r, at |-> now, ttl |-> t]]
  BY DEF Accept, Arrive, BeginUpload, BeginReplace, BeginDelete, BeginServe, OpenPartial, Senders
<1>4. \A q \in Requests : q # r => pc'[q] = pc[q]
  BY <1>1 DEF Accept, Arrive, BeginUpload, BeginReplace, BeginDelete, BeginServe,
     OpenPartial, Lookup, LookupMisses, LookupFails
<1>5. r \in Senders => ~Written(r)
  BY <1>1 DEF Ownership, WrittenIsFinal
<1>6. \A u \in Uploads : target'[u] = target[u]
  BY <1>1, <1>2 DEF Requests, Senders
<1>7. OneOwner'
  BY <1>6 DEF Ownership, OneOwner
<1>8. \A s \in Slugs : rows[s] # NoRow => Owned(s)
  <2> SUFFICES ASSUME NEW s \in Slugs, rows[s] # NoRow PROVE Owned(s)
      OBVIOUS
  <2>1. rows[s] \in Row
    BY DEF Control, TypeOK, StoreTypeOK
  <2>2. rows[s].body \in Senders
    BY <2>1, RowFields
  <2>3. target[rows[s].body] = s
    BY DEF Ownership, RowsOfSenders
  <2> QED BY <2>2, <2>3, HandlerLimits DEF Ownership, TargetsOwned, Requests
<1>9. TargetsOwned'
  <2>1. \A s : Owned(s) => Owned(s)'
    BY <1>6 DEF Owned
  <2>2. \A q \in Requests : target'[q] # NoSlug => Owned(target'[q])
    BY <1>1, <1>2, <1>8 DEF Ownership, TargetsOwned
  <2> QED BY <1>6, <2>2 DEF TargetsOwned, Owned
<1>10. WrittenIsFinal'
  BY <1>1, <1>4, <1>5, <1>6 DEF Ownership, WrittenIsFinal, Written, Requests, Senders
<1>11. RowsOfSenders'
  <2> SUFFICES ASSUME NEW s \in Slugs, rows[s] # NoRow
               PROVE  LET b == rows[s].body IN Written(b) /\ target'[b] = s /\ mine'[b] = rows[s]
      BY <1>1 DEF RowsOfSenders, Written
  <2> DEFINE b == rows[s].body
  <2>1. Written(b) /\ target[b] = s /\ mine[b] = rows[s]
    BY DEF Ownership, RowsOfSenders
  <2>2. b \in Senders
    BY RowFields DEF Control, TypeOK, StoreTypeOK
  <2>3. b # r
    BY <1>5, <2>1, <2>2
  <2>4. target'[b] = target[b]
    BY <1>1, <1>2, <2>2, <2>3 DEF Requests
  <2>5. mine'[b] = mine[b]
    BY <1>1, <1>3, <2>2, <2>3
  <2> QED BY <2>1, <2>4, <2>5
<1>12. BodiesOwn'
  <2>1. \A q \in Senders : q # r => mine'[q] = mine[q]
    BY <1>1, <1>3
  <2>2. r \in Senders => mine'[r] = mine[r] \/ mine'[r].body = r
    BY <1>1, <1>3
  <2> QED BY <1>1, <1>5, <2>1, <2>2 DEF Ownership, BodiesOwn, Written
<1>13. SweepMoves
  BY <1>1 DEF SweepMoves
<1> QED BY <1>7, <1>9, <1>10, <1>11, <1>12, <1>13, SweepsLapsedStep DEF Ownership

\* A row is stamped before it is written, so no written row moves.
LEMMA EndStreamOwnership ==
  ASSUME Control, Ownership, Forward, NEW r \in Requests, Handle(r), EndStream(r)
  PROVE  Ownership'
<1>1. /\ r \in Senders /\ pc[r] = "streaming" /\ pc \in [Requests -> Steps]
      /\ mine \in [Senders -> Row \cup {NoRow}] /\ mine[r] \in Row
      /\ mine' = [mine EXCEPT ![r].at = now]
      /\ pc' = [pc EXCEPT ![r] = IF r \in Uploads THEN "inserting" ELSE "updating"]
      /\ UNCHANGED <<rows, target, committed, sweep, queue, sweeping>>
  BY KindsAreDisjoint DEF Handle, EndStream, Goto, shownVars, sweeperVars, Control, TypeOK,
     HandlersTypeOK, StepsOfKind, DeleteSteps, GetSteps, SendersHold, Senders, Requests
<1>2. ~Written(r)
  BY <1>1 DEF Ownership, WrittenIsFinal
<1>3. OneOwner' /\ TargetsOwned'
  BY <1>1 DEF Ownership, OneOwner, TargetsOwned, Owned
<1>4. WrittenIsFinal'
  BY <1>1, <1>2 DEF Ownership, WrittenIsFinal, Written, Requests, Senders
<1>5. RowsOfSenders'
  <2> SUFFICES ASSUME NEW s \in Slugs, rows[s] # NoRow
               PROVE  LET b == rows[s].body IN Written(b) /\ target[b] = s /\ mine'[b] = rows[s]
      BY <1>1 DEF RowsOfSenders, Written
  <2>1. rows[s].body \in Senders
    BY RowFields DEF Control, TypeOK, StoreTypeOK
  <2> QED BY <1>1, <1>2, <2>1 DEF Ownership, RowsOfSenders
<1>6. BodiesOwn'
  <2>1. mine'[r].body = mine[r].body
    BY <1>1 DEF Row
  <2>2. mine[r] # NoRow
    BY <1>1, SentinelsAreApart
  <2>3. \A q \in Senders : q # r => mine'[q] = mine[q]
    BY <1>1
  <2> QED BY <1>1, <1>2, <2>1, <2>2, <2>3 DEF Ownership, BodiesOwn, Written
<1>7. SweepMoves
  BY <1>1 DEF SweepMoves
<1> QED BY <1>3, <1>4, <1>5, <1>6, <1>7, SweepsLapsedStep DEF Ownership

\* The slug an INSERT takes has no owner yet, and no row.
LEMMA InsertOwnership ==
  ASSUME Control, Ownership, Forward, NEW r \in Requests, Handle(r), InsertFresh(r)
  PROVE  Ownership'
<1>1. PICK s \in Slugs : /\ Unused(s) /\ rows[s] = NoRow
                         /\ rows' = [rows EXCEPT ![s] = mine[r]]
                         /\ target' = [target EXCEPT ![r] = s]
  BY DEF InsertFresh, InsertRow
<1>2. /\ r \in Uploads /\ r \in Senders /\ pc[r] = "inserting" /\ target[r] = NoSlug
      /\ pc \in [Requests -> Steps] /\ target \in [Requests -> Slugs \cup {NoSlug}]
      /\ rows \in [Slugs -> Row \cup {NoRow}]
      /\ mine[r] \in Row /\ mine[r] # NoRow
      /\ committed' = committed \cup {r}
      /\ pc' = [pc EXCEPT ![r] = "promoting"]
      /\ UNCHANGED <<mine, sweep, queue, sweeping>>
      /\ s # NoSlug
  BY HandlerLimits, SentinelsAreApart DEF Handle, InsertFresh, Goto, sweeperVars, Control, TypeOK,
     StoreTypeOK, HandlersTypeOK, SendersHold, TargetsSet, Senders
<1>3. OneOwner'
  BY <1>1, <1>2 DEF Ownership, OneOwner, Unused, Requests, Senders
<1>4. TargetsOwned'
  <2>1. \A u \in Uploads : u # r => target'[u] = target[u]
    BY <1>1, <1>2 DEF Requests, Senders
  <2>2. \A q \in Requests : target'[q] = target[q] \/ target'[q] = s
    BY <1>1, <1>2
  <2>3. target'[r] = s
    BY <1>1, <1>2
  <2>4. \A x : x # NoSlug /\ Owned(x) => \E u \in Uploads : target'[u] = x
    BY <1>2, <2>1 DEF Owned
  <2> QED BY <1>2, <2>2, <2>3, <2>4 DEF Ownership, TargetsOwned, Owned
<1>5. WrittenIsFinal'
  BY <1>1, <1>2 DEF Ownership, WrittenIsFinal, Written, Requests, Senders
<1>6. mine[r].body = r
  BY <1>2 DEF Ownership, BodiesOwn
<1>7. RowsOfSenders'
  <2> SUFFICES ASSUME NEW x \in Slugs, rows'[x] # NoRow
               PROVE  LET b == rows'[x].body
                      IN b \in committed' /\ target'[b] = x /\ mine[b] = rows'[x]
      BY <1>2 DEF RowsOfSenders, Written
  <2>1. CASE x = s
    BY <1>1, <1>2, <1>6, <2>1
  <2>2. CASE x # s
    <3>1. rows'[x] = rows[x]
      BY <1>1, <1>2, <2>2
    <3>2. rows[x].body \in Senders
      BY <1>2, <3>1, RowFields
    <3>3. LET b == rows[x].body IN b \in committed /\ target[b] = x /\ mine[b] = rows[x]
      BY <3>1 DEF Ownership, RowsOfSenders, Written
    <3>4. rows[x].body # r
      BY <1>2, <3>3, HandlerLimits
    <3> QED BY <1>1, <1>2, <3>1, <3>2, <3>3, <3>4 DEF Requests
  <2> QED BY <2>1, <2>2
<1>8. BodiesOwn'
  BY <1>2 DEF Ownership, BodiesOwn, Written
<1>9. SweepMoves
  BY <1>2 DEF SweepMoves
<1> QED BY <1>3, <1>4, <1>5, <1>7, <1>8, <1>9, SweepsLapsedStep DEF Ownership

\* An UPDATE puts the replace's own row in the place of another.
LEMMA UpdateOwnership ==
  ASSUME Control, Ownership, Forward, NEW r \in Requests, Handle(r), UpdateRow(r)
  PROVE  Ownership'
<1>1. /\ r \in Replaces /\ r \in Senders /\ pc[r] = "updating" /\ target[r] \in Slugs
      /\ pc \in [Requests -> Steps] /\ rows \in [Slugs -> Row \cup {NoRow}]
      /\ mine[r] \in Row /\ mine[r] # NoRow
      /\ rows' = [rows EXCEPT ![target[r]] = mine[r]]
      /\ committed' = committed \cup {r}
      /\ pc' = [pc EXCEPT ![r] = "promoting"]
      /\ UNCHANGED <<target, mine, sweep, queue, sweeping>>
  BY SentinelsAreApart DEF Handle, UpdateRow, ReplaceRow, Goto, sweeperVars, heldVars, Control,
     TypeOK, StoreTypeOK, HandlersTypeOK, SendersHold, TargetsSet, Senders, InFlight, Working
<1>2. OneOwner' /\ TargetsOwned'
  BY <1>1 DEF Ownership, OneOwner, TargetsOwned, Owned
<1>3. WrittenIsFinal'
  BY <1>1 DEF Ownership, WrittenIsFinal, Written, Requests, Senders
<1>4. mine[r].body = r
  BY <1>1 DEF Ownership, BodiesOwn
<1>5. RowsOfSenders'
  BY <1>1, <1>4 DEF Ownership, RowsOfSenders, Written
<1>6. BodiesOwn'
  BY <1>1 DEF Ownership, BodiesOwn, Written
<1>7. SweepMoves
  BY <1>1 DEF SweepMoves
<1> QED BY <1>2, <1>3, <1>5, <1>6, <1>7, SweepsLapsedStep DEF Ownership

LEMMA InitOwnership == Init => Ownership
<1> SUFFICES ASSUME Init PROVE Ownership
    OBVIOUS
<1> USE DEF Init, StoreInit, HandlersInit, SweeperInit
<1>1. OneOwner /\ TargetsOwned /\ WrittenIsFinal
  BY DEF OneOwner, TargetsOwned, WrittenIsFinal, Written, Senders, Requests
<1>2. RowsOfSenders /\ BodiesOwn /\ SweepsLapsed
  BY DEF RowsOfSenders, BodiesOwn, Written, SweepsLapsed
<1> QED BY <1>1, <1>2 DEF Ownership

LEMMA OwnershipStep == Control /\ Ownership /\ [Next]_vars => Ownership'
<1> SUFFICES ASSUME Control, Ownership, [Next]_vars PROVE Ownership'
    OBVIOUS
<1>1. Forward
  BY ForwardStep
<1>2. CASE Tame /\ SweepMoves
  BY <1>1, <1>2, TameOwnership
<1>3. ASSUME NEW r \in Requests, Builds(r), Accept(r) \/ Handle(r) PROVE Ownership'
  <2>1. Accept(r) \/ (Handle(r) /\ (EndStream(r) \/ InsertFresh(r) \/ UpdateRow(r)))
    BY <1>3 DEF Builds
  <2> QED BY <1>1, <2>1, AcceptOwnership, EndStreamOwnership, InsertOwnership, UpdateOwnership
<1> QED BY <1>2, <1>3, TameHandlers, TameOthers DEF Builds

\* A slug is drawn by one upload only; every row of the table is one its
\* sender built for that slug; and what the sweeper is about to delete by slug
\* was read as a lapsed row, of a link nobody replaced or deleted if no replace
\* and no delete was let through to it.
THEOREM OwnershipHolds == Spec => []Ownership
<1>1. Init => Control /\ Ownership
  BY InitControl, InitOwnership
<1>2. (Control /\ Ownership) /\ [Next]_vars => (Control /\ Ownership)'
  BY ControlStep, OwnershipStep
<1> QED BY <1>1, <1>2, PTL DEF Spec


-----------------------------------------------------------------------------
(* Layer 3: Durability.                                                    *)

\* Who may change the row of a slug.
LEMMA RowChanges ==
  ASSUME Control, [Next]_vars, NEW s \in Slugs, rows'[s] # rows[s]
  PROVE  \/ rows[s] = NoRow
         \/ \E q \in Replaces \cup Deletes : target[q] = s
         \/ \E u \in Uploads : pc[u] = "rolling" /\ target[u] = s
         \/ sweep = "rows" /\ \E i \in queue : i.slug = s
         \/ phase = "rows" /\ s \in DanglingRows
<1> USE DEF heldVars, shownVars, storeVars, bootVars
<1>1. rows \in [Slugs -> Row \cup {NoRow}] /\ StepsOfKind
  BY DEF Control, TypeOK, StoreTypeOK
<1>2. ASSUME NEW r \in Requests, Accept(r) PROVE FALSE
  BY <1>2 DEF Accept, Arrive, BeginUpload, BeginReplace, BeginDelete, BeginServe
<1>3. ASSUME NEW r \in Requests, Handle(r)
      PROVE  \/ rows[s] = NoRow
             \/ \E q \in Replaces \cup Deletes : target[q] = s
             \/ \E u \in Uploads : pc[u] = "rolling" /\ target[u] = s
  <2>1. InsertFresh(r) \/ RollBack(r) \/ UpdateRow(r) \/ DeleteLink(r)
    BY <1>3 DEF Handle, Advance, EndStream, AbortStream, Discard, InsertCollides, InsertFails,
       PromoteUpload, PromoteUploadFails, UpdateMisses, PromoteReplace, PromoteReplaceFails,
       CleanOldName, Unlink, OpenFile
  <2>2. CASE InsertFresh(r)
    BY <1>1, <2>2 DEF InsertFresh, InsertRow
  <2>3. CASE RollBack(r)
    BY <1>1, <2>3 DEF RollBack, DeleteRow, StepsOfKind, ReplaceSteps, DeleteSteps, GetSteps,
       Requests, Senders
  <2>4. CASE UpdateRow(r)
    BY <1>1, <2>4 DEF UpdateRow, ReplaceRow
  <2>5. CASE DeleteLink(r)
    BY <1>1, <2>5 DEF DeleteLink, DeleteRow, StepsOfKind, UploadSteps, ReplaceSteps, GetSteps,
       Requests, Senders
  <2> QED BY <2>1, <2>2, <2>3, <2>4, <2>5
<1>4. CASE RunSweeper
  BY <1>1, <1>4 DEF RunSweeper, Sweep, BeginSweep, SkipSweep, SweepRow, SkipRow, SweepFile, StopSweeper,
     DeleteRow, IsNext
<1>5. CASE Boot \/ Listen
  BY <1>1, <1>5 DEF Boot, Listen, Start, Repair, ReapPartial, EndReap, ReapOrphan,
     EndReconcileFiles, DropDangling, DeleteRow, EndPass
<1>6. CASE Clock \/ Terminate \/ Drained \/ Exit \/ Crash \/ UNCHANGED vars
  BY <1>6 DEF Clock, Tick, Terminate, Drained, Exit, Crash, ProcessEnds, vars
<1>7. ASSUME NEW r \in Requests, LoseClient(r) PROVE FALSE
  BY <1>7 DEF LoseClient, HangUp
<1> QED BY <1>2, <1>3, <1>4, <1>5, <1>6, <1>7 DEF Next, Idle

\* Who may change what a slug name (not of the shape *.partial) holds.
LEMMA LinkFileChanges ==
  ASSUME Control, [Next]_vars, NEW s \in Slugs, NEW e \in Exts \ {PartialExt},
         files'[DiskName(s, e)] # files[DiskName(s, e)]
  PROVE  \/ \E q \in Replaces \cup Deletes : target[q] = s
         \/ \E u \in Uploads : pc[u] = "promoting" /\ target[u] = s
         \/ sweep = "file" /\ sweeping.slug = s
         \/ phase = "files" /\ DiskName(s, e) \in OrphanFiles
<1> USE DEF heldVars, shownVars, storeVars, bootVars, DiskName, PartialName
<1>1. /\ files \in [Names -> File \cup {NoFile}] /\ StepsOfKind
      /\ DiskName(s, e) \in Names /\ ~IsPartial(DiskName(s, e))
      /\ \A r \in Senders : DiskName(s, e) # PartialName(r)
  BY KindsAreDisjoint DEF Control, TypeOK, StoreTypeOK, Names, SlugNames, IsPartial
<1> DEFINE n == DiskName(s, e)
<1> HIDE DEF n
<1>2. files \in [Names -> File \cup {NoFile}] /\ n \in Names /\ files'[n] # files[n]
      /\ \A r \in Senders : n # PartialName(r)
  BY <1>1 DEF n
<1>3. ASSUME NEW r \in Requests, Accept(r) PROVE FALSE
  <2>1. r \in Senders /\ OpenPartial(r)
    BY <1>2, <1>3 DEF Accept, Arrive, BeginUpload, BeginReplace, BeginDelete, BeginServe, Senders
  <2> QED BY <1>2, <2>1 DEF OpenPartial, CreateFile
<1>4. ASSUME NEW r \in Requests, Handle(r)
      PROVE  \/ \E q \in Replaces \cup Deletes : target[q] = s
             \/ \E u \in Uploads : pc[u] = "promoting" /\ target[u] = s
  <2>1. CASE EndStream(r) \/ AbortStream(r) \/ Discard(r)
    <3>1. r \in Senders
      BY <1>1, <2>1 DEF EndStream, AbortStream, Discard, StepsOfKind, DeleteSteps, GetSteps,
         Requests, Senders
    <3>2. \/ files' = files
          \/ \E f : files' = [files EXCEPT ![PartialName(r)] = f]
      BY <2>1 DEF EndStream, AbortStream, Discard, FinishFile, TryRemove, RemoveFile
    <3> QED BY <1>2, <3>1, <3>2
  <2>2. CASE PromoteUpload(r) \/ PromoteReplace(r)
    <3>1. r \in Senders /\ pc[r] = "promoting" /\ r \in Uploads \cup Replaces
      BY <2>2 DEF PromoteUpload, PromoteReplace, Senders
    <3>2. \E f : files' = [files EXCEPT ![DiskName(target[r], mine[r].ext)] = f, ![PartialName(r)] = NoFile]
      BY <2>2 DEF PromoteUpload, PromoteReplace, RenameFile
    <3>3. n = DiskName(target[r], mine[r].ext)
      BY <1>2, <3>1, <3>2
    <3>4. target[r] = s
      BY <3>3 DEF n
    <3> QED BY <3>1, <3>4
  <2>3. CASE CleanOldName(r) \/ Unlink(r)
    <3>1. r \in Replaces \cup Deletes
      BY <1>1, <2>3 DEF CleanOldName, Unlink, StepsOfKind, UploadSteps, ReplaceSteps, DeleteSteps,
         GetSteps, Requests, Senders
    <3>2. n = DiskName(target[r], seen[r].ext)
      BY <1>2, <2>3 DEF CleanOldName, Unlink, TryRemove, RemoveFile
    <3> QED BY <3>1, <3>2 DEF n
  <2>4. CASE UNCHANGED files
    BY <1>2, <2>4
  <2> QED
    BY <1>4, <2>1, <2>2, <2>3, <2>4 DEF Handle, Advance, InsertFresh, InsertCollides, InsertFails,
       PromoteUploadFails, RollBack, UpdateRow, UpdateMisses, PromoteReplaceFails, DeleteLink, OpenFile
<1>5. CASE RunSweeper
  <2>1. sweep = "file" /\ n = DiskName(sweeping.slug, sweeping.row.ext)
    BY <1>2, <1>5 DEF RunSweeper, Sweep, BeginSweep, SkipSweep, SweepRow, SkipRow, SweepFile, StopSweeper,
       TryRemove, RemoveFile
  <2> QED BY <2>1 DEF n
<1>6. CASE Boot \/ Listen
  <2>1. ReapPartial \/ ReapOrphan
    BY <1>2, <1>6 DEF Boot, Listen, Start, Repair, EndReap, EndReconcileFiles, DropDangling, EndPass
  <2>2. ~ReapPartial
    BY <1>1, <1>2 DEF ReapPartial, StalePartials, RemoveFile, n
  <2>3. ReapOrphan => phase = "files" /\ n \in OrphanFiles
    BY <1>2 DEF ReapOrphan, RemoveFile
  <2> QED BY <2>1, <2>2, <2>3 DEF n
<1>7. CASE Clock \/ Terminate \/ Drained \/ Exit \/ Crash \/ UNCHANGED vars
  BY <1>2, <1>7 DEF Clock, Tick, Terminate, Drained, Exit, Crash, ProcessEnds, vars
<1>8. ASSUME NEW r \in Requests, LoseClient(r) PROVE FALSE
  BY <1>2, <1>8 DEF LoseClient, HangUp
<1> QED BY <1>3, <1>4, <1>5, <1>6, <1>7, <1>8 DEF Next, Idle

\* Which uploads have just been answered, or had their row written.
LEMMA UploadAdvances ==
  ASSUME Control, [Next]_vars, NEW u \in Uploads
  PROVE  /\ pc'[u] = "done" => pc[u] = "done" \/ (Handle(u) /\ PromoteUpload(u))
         /\ pc'[u] = "promoting" => pc[u] = "promoting" \/ (Handle(u) /\ InsertFresh(u))
         /\ pc'[u] = "rolling" => pc[u] = "rolling" \/ (Handle(u) /\ PromoteUploadFails(u))
         /\ pc'[u] \in {"discarding", "failed"}
              => pc[u] \in {"discarding", "failed"} \cup Unwritten \/ (Handle(u) /\ RollBack(u))
<1> USE DEF Goto, heldVars, shownVars, storeVars, requestVars, Unwritten
<1>1. pc \in [Requests -> Steps] /\ StepsOfKind /\ u \in Requests
      /\ u \notin Replaces /\ u \notin Deletes /\ u \notin Gets
  BY KindsAreDisjoint DEF Control, TypeOK, HandlersTypeOK, Requests, Senders
<1>2. ASSUME NEW r \in Requests, r # u, Accept(r) \/ Handle(r) PROVE pc'[u] = pc[u]
  <2>1. \E p : pc' = [pc EXCEPT ![r] = p]
    BY <1>2 DEF Accept, Arrive, BeginUpload, BeginReplace, BeginDelete, BeginServe, OpenPartial,
       LookupMisses, LookupFails, Handle, Advance, EndStream, AbortStream, Discard, InsertFresh,
       InsertCollides, InsertFails, PromoteUpload, PromoteUploadFails, RollBack, UpdateRow,
       UpdateMisses, PromoteReplace, PromoteReplaceFails, CleanOldName, DeleteLink, Unlink, OpenFile
  <2> QED BY <1>1, <1>2, <2>1
<1>3. CASE Accept(u)
  BY <1>1, <1>3 DEF Accept, Arrive, BeginUpload, BeginReplace, BeginDelete, BeginServe, OpenPartial
<1>4. CASE Handle(u)
  <2>1. pc[u] \in UploadSteps
    BY <1>1 DEF StepsOfKind
  <2> QED
    BY <1>1, <1>4, <2>1 DEF UploadSteps, Handle, Advance, EndStream, AbortStream, Discard,
       InsertFresh, InsertCollides, InsertFails, PromoteUpload, PromoteUploadFails, RollBack,
       UpdateRow, UpdateMisses, PromoteReplace, PromoteReplaceFails, CleanOldName, DeleteLink,
       Unlink, OpenFile
<1>5. CASE Clock \/ Boot \/ Listen \/ RunSweeper \/ Terminate \/ Drained \/ UNCHANGED vars
  BY <1>5 DEF Clock, Boot, Listen, RunSweeper, Terminate, Drained, vars
<1>6. CASE Exit \/ Crash
  BY <1>1, <1>6 DEF Exit, Crash, ProcessEnds
<1>7. ASSUME NEW r \in Requests, LoseClient(r) PROVE pc' = pc
  BY <1>7 DEF LoseClient, HangUp
<1> QED BY <1>2, <1>3, <1>4, <1>5, <1>6, <1>7 DEF Next, Idle

\* A link that is kept after a step was kept before it.
LEMMA KeptBefore ==
  ASSUME Control, Ownership, Forward, NEW u \in Uploads, target[u] # NoSlug, Kept(u)'
  PROVE  /\ Kept(u) /\ target'[u] = target[u] /\ mine'[u] = mine[u]
         /\ target[u] \in Slugs /\ mine[u] \in Row /\ mine[u] # NoRow
         /\ Untouched(target[u])
<1>1. u \in Senders /\ u \in Requests
  BY DEF Senders, Requests
<1>2. target'[u] = target[u] /\ mine'[u] = mine[u]
  BY <1>1 DEF Forward, Ownership, WrittenIsFinal
<1>3. target[u] \in Slugs /\ mine[u] \in Row \cup {NoRow}
  BY <1>1 DEF Control, TypeOK, HandlersTypeOK
<1>4. Untouched(target[u])
  BY <1>2 DEF Kept, Untouched, Forward, Requests, Senders
<1>5. mine[u] \in Row /\ mine[u] # NoRow
  <2>1. Written(u)
    BY <1>1 DEF Ownership, WrittenIsFinal
  <2> QED BY <1>1, <1>3, <2>1 DEF Ownership, BodiesOwn
<1>6. ~Lapsed(mine[u])
  <2>1. mine[u].at \in Nat /\ mine[u].ttl \in Nat
    BY <1>5, RowFields
  <2>2. now \in Nat /\ now' \in Nat /\ now <= now'
    BY LimitsAreNumbers DEF Forward, Control, TypeOK, StoreTypeOK
  <2>3. ~(mine[u].at + mine[u].ttl <= now')
    BY <1>2 DEF Kept, Lapsed, Expiry
  <2> QED BY <2>1, <2>2, <2>3 DEF Lapsed, Expiry
<1>7. mine[u].ext # PartialExt
  BY <1>2 DEF Kept
<1> QED BY <1>2, <1>3, <1>4, <1>5, <1>6, <1>7 DEF Kept

LEMMA ScratchStep ==
  ASSUME Control, ScratchOwn, [Next]_vars
  PROVE  ScratchOwn'
<1> USE DEF Goto, heldVars, shownVars, storeVars, requestVars
<1> DEFINE Closed == {"inserting", "updating", "promoting"}
<1>1. /\ files \in [Names -> File \cup {NoFile}] /\ pc \in [Requests -> Steps] /\ StepsOfKind
      /\ \A q \in Senders : q \in Requests /\ PartialName(q) \in Names
      /\ \A q, r \in Senders : PartialName(q) = PartialName(r) => q = r
      /\ \A s \in Slugs, q \in Senders : \A e : DiskName(s, e) # PartialName(q)
  BY KindsAreDisjoint DEF Control, TypeOK, StoreTypeOK, HandlersTypeOK, Names, PartialNames,
     PartialName, DiskName, Requests
\* Most steps write to no scratch file and close none.
<1>2. ASSUME \A q \in Senders : /\ files'[PartialName(q)] \in {files[PartialName(q)], NoFile}
                                /\ pc'[q] \in Closed => pc[q] \in Closed
      PROVE  ScratchOwn'
  BY <1>2 DEF ScratchOwn
<1>3. ASSUME NEW r \in Requests, Accept(r) PROVE ScratchOwn'
  <2>1. \E p \in {"streaming", "failed", "missed", "deleting", "opening"} : pc' = [pc EXCEPT ![r] = p]
    BY <1>3 DEF Accept, Arrive, BeginUpload, BeginReplace, BeginDelete, BeginServe, OpenPartial,
       LookupMisses, LookupFails
  <2>2. \/ files' = files
        \/ r \in Senders /\ files' = [files EXCEPT ![PartialName(r)] =
                                        [body |-> r, whole |-> FALSE, mtime |-> now]]
    BY <1>3 DEF Accept, Arrive, BeginUpload, BeginReplace, BeginDelete, BeginServe, OpenPartial,
       CreateFile, Senders
  <2>3. \A q \in Senders : pc'[q] \in Closed => pc[q] \in Closed /\ q # r
    BY <1>1, <2>1
  <2>4. \A q \in Senders : q # r => files'[PartialName(q)] = files[PartialName(q)]
    BY <1>1, <2>2
  <2>5. r \in Senders => files'[PartialName(r)] = files[PartialName(r)] \/ files'[PartialName(r)].body = r
    BY <1>1, <2>2
  <2> QED BY <2>3, <2>4, <2>5 DEF ScratchOwn
<1>4. ASSUME NEW r \in Requests, EndStream(r) PROVE ScratchOwn'
  <2>1. r \in Senders
    <3>1. pc[r] = "streaming"
      BY <1>4 DEF EndStream
    <3> QED BY <1>1, <3>1 DEF StepsOfKind, DeleteSteps, GetSteps, Requests, Senders
  <2>2. files' = [files EXCEPT ![PartialName(r)] = [body |-> r, whole |-> TRUE, mtime |-> now]]
    BY <1>4 DEF EndStream, FinishFile
  <2>3. \A q \in Senders : q # r => pc'[q] = pc[q]
    BY <1>1, <1>4 DEF EndStream
  <2>5. \A q \in Senders : q # r => files'[PartialName(q)] = files[PartialName(q)]
    BY <1>1, <2>1, <2>2
  <2>4. files'[PartialName(r)].body = r /\ files'[PartialName(r)].whole
    BY <1>1, <2>1, <2>2
  <2> QED BY <2>3, <2>4, <2>5 DEF ScratchOwn
<1>5. ASSUME NEW r \in Requests, Handle(r), ~EndStream(r) PROVE ScratchOwn'
  <2>1. \A q \in Senders : pc'[q] \in Closed => pc[q] \in Closed
    <3>1. \A q \in Senders : q # r => pc'[q] = pc[q]
      BY <1>1, <1>5 DEF Handle, Advance, AbortStream, Discard, InsertFresh, InsertCollides,
         InsertFails, PromoteUpload, PromoteUploadFails, RollBack, UpdateRow, UpdateMisses,
         PromoteReplace, PromoteReplaceFails, CleanOldName, DeleteLink, Unlink, OpenFile
    <3>2. pc'[r] \in Closed => pc[r] \in Closed
      BY <1>1, <1>5 DEF Handle, Advance, AbortStream, Discard, InsertFresh, InsertCollides,
         InsertFails, PromoteUpload, PromoteUploadFails, RollBack, UpdateRow, UpdateMisses,
         PromoteReplace, PromoteReplaceFails, CleanOldName, DeleteLink, Unlink, OpenFile
    <3> QED BY <3>1, <3>2
  <2>2. \A q \in Senders : files'[PartialName(q)] \in {files[PartialName(q)], NoFile}
    <3>1. CASE PromoteUpload(r) \/ PromoteReplace(r)
      <4>1. r \in Senders /\ target[r] \in Slugs
        <5>1. r \in Uploads \cup Replaces /\ pc[r] = "promoting"
          BY <3>1 DEF PromoteUpload, PromoteReplace
        <5> QED BY <5>1 DEF Control, TargetsSet, InFlight, Working, Senders
      <4>2. \E f : files' = [files EXCEPT ![DiskName(target[r], mine[r].ext)] = f, ![PartialName(r)] = NoFile]
        BY <3>1 DEF PromoteUpload, PromoteReplace, RenameFile
      <4> QED BY <1>1, <4>1, <4>2
    <3>2. CASE ~(PromoteUpload(r) \/ PromoteReplace(r))
      <4>1. files' = files \/ \E n : files' = [files EXCEPT ![n] = NoFile]
        BY <1>5, <3>2 DEF Handle, Advance, AbortStream, Discard, InsertFresh, InsertCollides,
           InsertFails, PromoteUploadFails, RollBack, UpdateRow, UpdateMisses, PromoteReplaceFails,
           CleanOldName, DeleteLink, Unlink, OpenFile, TryRemove, RemoveFile
      <4> QED BY <1>1, <4>1
    <3> QED BY <3>1, <3>2
  <2> QED BY <1>2, <2>1, <2>2
<1>6. CASE RunSweeper \/ Boot \/ Listen
  <2>1. pc' = pc
    BY <1>6 DEF RunSweeper, Boot, Listen
  <2>2. files' = files \/ \E n : files' = [files EXCEPT ![n] = NoFile]
    BY <1>6 DEF RunSweeper, Sweep, BeginSweep, SkipSweep, SweepRow, SkipRow, SweepFile, StopSweeper, TryRemove,
       RemoveFile, Boot, Listen, Start, Repair, ReapPartial, EndReap, ReapOrphan, EndReconcileFiles,
       DropDangling, EndPass
  <2> QED BY <1>1, <1>2, <2>1, <2>2
<1>7. CASE Clock \/ Terminate \/ Drained \/ Exit \/ Crash \/ UNCHANGED vars
  <2>1. files' = files
    BY <1>7 DEF Clock, Tick, Terminate, Drained, Exit, Crash, ProcessEnds, vars
  <2>2. \A q \in Senders : pc'[q] \in Closed => pc[q] \in Closed
    BY <1>1, <1>7 DEF Clock, Terminate, Drained, Exit, Crash, ProcessEnds, vars
  <2> QED BY <1>2, <2>1, <2>2
<1>8. ASSUME NEW r \in Requests, LoseClient(r) PROVE ScratchOwn'
  BY <1>2, <1>8 DEF LoseClient, HangUp
<1> QED BY <1>3, <1>4, <1>5, <1>6, <1>7, <1>8 DEF Next, Idle

\* Nobody takes the row of a kept link: another upload finds its slug in use,
\* the sweeper holds only rows that lapsed, a boot only rows without a file.
LEMMA RowKeptStep ==
  ASSUME Control, Ownership, Durability, Forward, [Next]_vars
  PROVE  RowKept'
<1> SUFFICES ASSUME NEW u \in Uploads, pc'[u] \in {"promoting", "done"}, Kept(u)'
             PROVE  (rows[target[u]] = mine[u])'
    BY DEF RowKept
<1>1. u \in Senders /\ u \in Requests /\ u \notin Replaces /\ u \notin Deletes
  BY KindsAreDisjoint DEF Senders, Requests
<1>2. CASE Handle(u) /\ InsertFresh(u)
  BY <1>1, <1>2 DEF InsertFresh, InsertRow, Control, TypeOK, StoreTypeOK, HandlersTypeOK
<1>3. CASE pc[u] \in {"promoting", "done"}
  <2>1. target[u] \in Slugs /\ target[u] # NoSlug
    BY <1>3, HandlerLimits DEF Control, TargetsSet
  <2>2. /\ Kept(u) /\ target'[u] = target[u] /\ mine'[u] = mine[u] /\ mine[u] # NoRow
        /\ Untouched(target[u])
    BY <2>1, KeptBefore
  <2> FileKept
    BY DEF Durability
  <2>3. rows[target[u]] = mine[u]
    BY <1>3, <2>2 DEF Durability, RowKept
  <2>4. ASSUME rows'[target[u]] # rows[target[u]] PROVE FALSE
    <3>1. ASSUME NEW v \in Uploads, pc[v] = "rolling", target[v] = target[u] PROVE FALSE
      BY <1>3, <2>1, <3>1 DEF Ownership, OneOwner
    <3>2. ASSUME NEW i \in queue, i.slug = target[u] PROVE FALSE
      BY <2>2, <3>2 DEF Ownership, SweepsLapsed, LapsedEntry, Kept
    <3>3. ASSUME phase = "rows", target[u] \in DanglingRows PROVE FALSE
      <4>1. ~InFlight(u)
        BY <1>1, <3>3 DEF Control, QuietOutside
      <4>2. pc[u] = "done"
        BY <1>3, <4>1 DEF InFlight, Working
      <4>3. files[DiskName(target[u], mine[u].ext)] # NoFile
        BY <2>2, <4>2 DEF FileKept
      <4> QED BY <2>3, <3>3, <4>3 DEF DanglingRows
    <3>4. rows[target[u]] # NoRow
      BY <2>2, <2>3
    <3> QED BY <2>1, <2>2, <2>4, <3>1, <3>2, <3>3, <3>4, RowChanges DEF Untouched
  <2> QED BY <2>2, <2>3, <2>4
<1> QED BY <1>2, <1>3, UploadAdvances DEF PromoteUpload

\* Nobody takes its file either, and the rename that answers the upload puts
\* the whole of its own bytes there.
LEMMA FileKeptStep ==
  ASSUME Control, Ownership, Durability, Forward, [Next]_vars
  PROVE  FileKept'
<1> DEFINE f(u) == files[DiskName(target[u], mine[u].ext)]
<1> SUFFICES ASSUME NEW u \in Uploads, pc'[u] = "done", Kept(u)'
             PROVE  f(u)' # NoFile /\ f(u)'.body = u /\ f(u)'.whole
    BY DEF FileKept
<1>1. u \in Senders /\ u \in Requests /\ u \notin Replaces /\ u \notin Deletes
  BY KindsAreDisjoint DEF Senders, Requests
<1>2. pc[u] = "done" \/ (Handle(u) /\ PromoteUpload(u))
  BY UploadAdvances
<1>3. target[u] \in Slugs /\ target[u] # NoSlug
  BY <1>2, HandlerLimits DEF PromoteUpload, Control, TargetsSet
<1>4. /\ Kept(u) /\ target'[u] = target[u] /\ mine'[u] = mine[u] /\ mine[u] \in Row
      /\ Untouched(target[u])
  BY <1>3, KeptBefore
<1> DEFINE n == DiskName(target[u], mine[u].ext)
<1>5. mine[u].ext \in Exts \ {PartialExt}
  BY <1>4, RowFields DEF Kept
<1>6. f(u)' = files'[n]
  BY <1>4
<1>7. CASE Handle(u) /\ PromoteUpload(u)
  <2>1. /\ files' = [files EXCEPT ![n] = files[PartialName(u)], ![PartialName(u)] = NoFile]
        /\ files[PartialName(u)] # NoFile /\ pc[u] = "promoting"
    BY <1>7 DEF PromoteUpload, RenameFile
  <2>2. n \in Names /\ n # PartialName(u) /\ files \in [Names -> File \cup {NoFile}]
    BY <1>1, <1>3, <1>5, KindsAreDisjoint DEF Control, TypeOK, StoreTypeOK, Names, SlugNames,
       DiskName, PartialName
  <2>3. files'[n] = files[PartialName(u)]
    BY <2>1, <2>2
  <2> QED BY <1>1, <1>6, <2>1, <2>3 DEF Durability, ScratchOwn
<1>8. CASE pc[u] = "done"
  <2>1. files[n] # NoFile /\ files[n].body = u /\ files[n].whole
    BY <1>4, <1>8 DEF Durability, FileKept
  <2>2. rows[target[u]] = mine[u] /\ mine[u] # NoRow
    BY <1>4, <1>8, SentinelsAreApart DEF Durability, RowKept
  <2>3. ASSUME files'[n] # files[n] PROVE FALSE
    <3>1. ASSUME NEW v \in Uploads, pc[v] = "promoting", target[v] = target[u] PROVE FALSE
      BY <1>3, <1>8, <3>1 DEF Ownership, OneOwner
    <3>2. ASSUME sweep = "file", sweeping.slug = target[u] PROVE FALSE
      BY <1>4, <3>2 DEF Ownership, SweepsLapsed, LapsedEntry, Kept
    <3>3. n \notin OrphanFiles
      BY <1>3, <2>2 DEF OrphanFiles, KnownNames
    <3> QED BY <1>3, <1>4, <1>5, <2>3, <3>1, <3>2, <3>3, LinkFileChanges DEF Untouched
  <2> QED BY <1>6, <2>1, <2>3
<1> QED BY <1>2, <1>7, <1>8

-----------------------------------------------------------------------------
(* Layer 4: Undone.                                                        *)

LEMMA CountersGrow ==
  ASSUME Control, [Next]_vars
  PROVE  faults \in Nat /\ faults' \in Nat /\ faults <= faults' /\ cancelled \subseteq cancelled'
<1> USE LimitsAreNumbers
<1> USE DEF StatementRuns, StatementFails, Fault, storeVars, heldVars, shownVars, requestVars
<1>1. faults \in Nat
  BY DEF Control, TypeOK, StoreTypeOK
<1>2. ASSUME NEW r \in Requests, Accept(r) PROVE faults' \in {faults, faults + 1} /\ UNCHANGED cancelled
  BY <1>1, <1>2 DEF Accept, Arrive, BeginUpload, BeginReplace, BeginDelete, BeginServe, Lookup,
     LookupMisses, LookupFails
<1>3. ASSUME NEW r \in Requests, Handle(r) PROVE faults' \in {faults, faults + 1} /\ UNCHANGED cancelled
  BY <1>1, <1>3 DEF Handle, Advance, EndStream, AbortStream, Discard, InsertFresh, InsertCollides,
     InsertFails, PromoteUpload, PromoteUploadFails, RollBack, UpdateRow, UpdateMisses,
     PromoteReplace, PromoteReplaceFails, CleanOldName, DeleteLink, Unlink, OpenFile, TryRemove
<1>4. ASSUME NEW r \in Requests, LoseClient(r) PROVE faults' = faults /\ cancelled \subseteq cancelled'
  BY <1>4 DEF LoseClient, HangUp
<1>5. CASE RunSweeper
  <2>1. faults' \in {faults, faults + 1}
    BY <1>1, <1>5 DEF RunSweeper, Sweep, BeginSweep, SkipSweep, SweepRow, SkipRow, SweepFile,
       StopSweeper, TryRemove
  <2>2. UNCHANGED cancelled
    BY <1>5 DEF RunSweeper
  <2> QED BY <1>1, <2>1, <2>2
<1>6. CASE Boot \/ Listen
  BY <1>1, <1>6 DEF Boot, Listen, Start, Repair, ReapPartial, EndReap, ReapOrphan,
     EndReconcileFiles, DropDangling, EndPass
<1>7. CASE Clock \/ Terminate \/ Drained \/ Exit \/ Crash \/ UNCHANGED vars
  BY <1>1, <1>7 DEF Clock, Tick, Terminate, Drained, Exit, Crash, ProcessEnds, vars
<1> QED BY <1>1, <1>2, <1>3, <1>4, <1>5, <1>6, <1>7 DEF Next, Idle

\* A row comes into the table from the sender that built it.
LEMMA RowOrigin ==
  ASSUME Control, [Next]_vars, NEW s \in Slugs, rows'[s] # NoRow, rows'[s] # rows[s]
  PROVE  \E q \in Senders : (InsertFresh(q) \/ UpdateRow(q)) /\ rows'[s] = mine[q]
<1>1. rows \in [Slugs -> Row \cup {NoRow}]
  BY DEF Control, TypeOK, StoreTypeOK
<1>2. PICK r \in Requests : Accept(r) \/ Handle(r)
  <2> SUFFICES ASSUME \A r \in Requests : ~Accept(r) /\ ~Handle(r) PROVE FALSE
      OBVIOUS
  <2>1. Tame
    BY TameOthers
  <2> QED BY <2>1 DEF Tame
<1>3. ~Accept(r) /\ ~EndStream(r)
  BY DEF Accept, Arrive, BeginUpload, BeginReplace, BeginDelete, BeginServe, EndStream
<1>4. InsertFresh(r) \/ UpdateRow(r)
  BY <1>2, <1>3, TameHandlers DEF Tame, Builds
<1>5. r \in Senders
  BY <1>4 DEF InsertFresh, UpdateRow, Senders
<1>6. rows'[s] = mine[r]
  BY <1>1, <1>4 DEF InsertFresh, InsertRow, UpdateRow, ReplaceRow
<1> QED BY <1>4, <1>5, <1>6

LEMMA UndoneStep ==
  ASSUME Control, Ownership, Undone, [Next]_vars
  PROVE  Undone'
<1> SUFFICES ASSUME NEW r \in Uploads
             PROVE  /\ pc'[r] = "rolling" => faults' > 0
                    /\ (pc'[r] \in {"discarding", "failed"} /\ r \notin cancelled' /\ faults' < 2)
                         => \A s \in Slugs : rows'[s] # NoRow => rows'[s].body # r
    BY DEF Undone
<1>1. faults \in Nat /\ faults' \in Nat /\ faults <= faults' /\ cancelled \subseteq cancelled'
  BY CountersGrow
<1>2. r \in Senders /\ r \in Requests /\ r \notin Replaces /\ pc \in [Requests -> Steps]
  BY KindsAreDisjoint DEF Senders, Requests, Control, TypeOK, HandlersTypeOK
<1>3. ASSUME pc'[r] = "rolling" PROVE faults' > 0
  <2>1. CASE pc[r] = "rolling"
    BY <1>1, <2>1 DEF Undone
  <2>2. CASE PromoteUploadFails(r)
    BY <1>1, <2>2 DEF PromoteUploadFails, Fault
  <2> QED BY <1>3, <2>1, <2>2, UploadAdvances
<1>4. ASSUME pc'[r] \in {"discarding", "failed"}, r \notin cancelled', faults' < 2,
             NEW s \in Slugs, rows'[s] # NoRow, rows'[s].body = r
      PROVE  FALSE
  <2>1. CASE rows'[s] # rows[s]
    <3>1. PICK q \in Senders : (InsertFresh(q) \/ UpdateRow(q)) /\ rows'[s] = mine[q]
      BY <1>4, <2>1, RowOrigin
    <3>2. q = r
      BY <1>4, <3>1 DEF Ownership, BodiesOwn
    <3>3. InsertFresh(r)
      BY <1>2, <3>1, <3>2 DEF UpdateRow
    <3> QED BY <1>2, <1>4, <3>3 DEF InsertFresh, Goto
  <2>2. CASE rows'[s] = rows[s]
    <3>1. Written(r) /\ target[r] = s
      BY <1>4, <2>2 DEF Ownership, RowsOfSenders
    <3>2. pc[r] \notin Unwritten
      BY <1>2, <3>1 DEF Ownership, WrittenIsFinal, Unwritten
    <3>3. CASE pc[r] \in {"discarding", "failed"}
      BY <1>1, <1>4, <2>2, <3>3 DEF Undone
    <3>4. CASE RollBack(r) /\ pc[r] = "rolling"
      <4>1. faults > 0
        BY <3>4 DEF Undone
      <4>2. ~StatementFails(r)
        <5>1. ~Fault
          BY <1>1, <1>4, <4>1 DEF Fault
        <5> QED BY <1>1, <1>4, <5>1 DEF StatementFails
      <4>3. DeleteRow(target[r])
        BY <3>4, <4>2 DEF RollBack
      <4>4. rows'[s] = NoRow
        BY <3>1, <4>3 DEF DeleteRow, Control, TypeOK, StoreTypeOK
      <4> QED BY <1>4, <4>4
    <3> QED BY <1>4, <3>2, <3>3, <3>4, UploadAdvances DEF RollBack
  <2> QED BY <2>1, <2>2
<1> QED BY <1>3, <1>4

-----------------------------------------------------------------------------
(* The layers together.                                                    *)

LEMMA InitDurability == Init => Durability
BY DEF Init, StoreInit, HandlersInit, Durability, ScratchOwn, RowKept, FileKept, PartialName, Names,
   PartialNames, Senders, Requests

LEMMA InitUndone == Init => Undone
  BY DEF Init, HandlersInit, Undone, Requests, Senders

LEMMA InvStep == IInv /\ [Next]_vars => IInv'
<1> SUFFICES ASSUME IInv, [Next]_vars PROVE IInv'
    OBVIOUS
<1>1. Control /\ Ownership /\ Durability /\ ScratchOwn /\ Undone
  BY DEF IInv, Durability
<1>2. Forward
  BY <1>1, ForwardStep
<1>3. Control' /\ Ownership'
  BY <1>1, ControlStep, OwnershipStep
<1>4. Durability'
  BY <1>1, <1>2, ScratchStep, RowKeptStep, FileKeptStep DEF Durability
<1>5. Undone'
  BY <1>1, UndoneStep
<1> QED BY <1>3, <1>4, <1>5 DEF IInv

\* The four layers are an inductive invariant of the server.
THEOREM InvHolds == Spec => []IInv
<1>1. Init => IInv
  BY InitControl, InitOwnership, InitDurability, InitUndone DEF IInv
<1> QED BY <1>1, InvStep, PTL DEF Spec

\* An upload answered with its link keeps its row and its whole bytes until it
\* lapses, unless somebody was let through to replace or delete it, or its
\* name ends in ".partial".
THEOREM UploadsAreDurable == Spec => []DurableUpload
<1>1. IInv => DurableUpload
  BY DEF IInv, Durability, RowKept, FileKept, Kept, DurableUpload
<1> QED BY <1>1, InvHolds, PTL

\* An upload answered with an error leaves no row behind, unless two storage
\* calls failed or its context had ended: for any number of other requests,
\* crashes and restarts.
THEOREM FailuresUndone == Spec => []FailedUploadUndone
<1>1. IInv => FailedUploadUndone
  BY DEF IInv, Undone, FailedUploadUndone
<1> QED BY <1>1, InvHolds, PTL

====
