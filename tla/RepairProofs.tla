---------------------------- MODULE RepairProofs ----------------------------
(***************************************************************************)
(* The passes of a boot and those of the sweeper: theorems about KShared   *)
(* on top of the control layer of KSharedProofs.                           *)
(***************************************************************************)
EXTENDS KSharedProofs, FiniteSetTheorems

-----------------------------------------------------------------------------
(* What a boot hands to the listener.                                      *)

\* The third pass of a boot is alone with the data directory: it begins after
\* the second, and only drops rows whose file is missing.
LEMMA LastPass ==
  ASSUME Control, [Next]_vars, phase' = "rows"
  PROVE  \/ EndReconcileFiles
         \/ /\ phase = "rows" /\ UNCHANGED <<files, skipped>>
            /\ rows' = rows \/ \E s \in DanglingRows : DeleteRow(s)
<1> USE DEF storeVars, bootVars
<1>1. phase = "rows" => \A r \in Requests : ~InFlight(r)
  BY DEF Control, QuietOutside
<1>2. ASSUME NEW r \in Requests PROVE ~Accept(r) /\ ~Handle(r) /\ ~LoseClient(r)
  <2>1. ~Accept(r)
    BY DEF Accept
  <2>2. ~Handle(r)
    BY <1>1, HandleFrame DEF Handle
  <2>3. ~LoseClient(r)
    BY <1>1 DEF LoseClient, HangUp
  <2> QED BY <2>1, <2>2, <2>3
<1>3. ~RunSweeper /\ ~Listen /\ ~Terminate /\ ~Drained /\ ~Exit /\ ~Crash /\ ~Idle
  BY DEF RunSweeper, Listen, EndPass, Terminate, Drained, Exit, Crash, ProcessEnds, Idle, vars
<1>4. CASE Clock \/ UNCHANGED vars
  BY <1>4 DEF Clock, Tick, vars
<1>5. CASE Boot
  BY <1>5 DEF Boot, Start, Repair, ReapPartial, EndReap, ReapOrphan, DropDangling, EndPass
<1> QED BY <1>2, <1>3, <1>4, <1>5 DEF Next

\* Dropping the row of a missing file makes no other file an orphan.
LEMMA RepairsStep == Control /\ Repairs /\ [Next]_vars => Repairs'
<1> SUFFICES ASSUME Control, Repairs, [Next]_vars, phase' = "rows", ~skipped',
                    NEW n \in OrphanFiles'
             PROVE  FALSE
    BY DEF Repairs
<1>1. files'[n] # NoFile /\ ~IsPartial(n) /\ n \notin KnownNames' /\ n \in Names
  BY DEF OrphanFiles, IsPartial
<1>2. CASE EndReconcileFiles
  <2>1. OrphanFiles = {} /\ UNCHANGED <<rows, files>>
    BY <1>2 DEF EndReconcileFiles, EndPass
  <2> QED BY <1>1, <2>1 DEF OrphanFiles, KnownNames
<1>3. CASE /\ phase = "rows" /\ UNCHANGED <<files, skipped>>
           /\ rows' = rows \/ \E s \in DanglingRows : DeleteRow(s)
  <2>1. OrphanFiles = {}
    BY <1>3 DEF Repairs
  <2>2. PICK s \in Slugs : rows[s] # NoRow /\ n = DiskName(s, rows[s].ext)
    BY <1>1, <1>3, <2>1 DEF OrphanFiles, KnownNames
  <2>3. rows'[s] # rows[s]
    BY <1>1, <2>2 DEF KnownNames
  <2>4. s \in DanglingRows
    BY <1>3, <2>3 DEF DeleteRow, Control, TypeOK, StoreTypeOK
  <2> QED BY <1>1, <1>3, <2>2, <2>4 DEF DanglingRows
<1> QED BY <1>2, <1>3, LastPass

LEMMA RepairsHold == Spec => [](Control /\ Repairs)
<1>1. Init => Control /\ Repairs
  BY InitControl DEF Init, BootInit, Repairs
<1>2. Control /\ Repairs /\ [Next]_vars => (Control /\ Repairs)'
  BY ControlStep, RepairsStep
<1> QED BY <1>1, <1>2, PTL DEF Spec

\* A boot that met no error hands the listener a directory in which every row
\* has its file and every file its row: from whatever state the last process
\* left, for any number of files, slugs, crashes and earlier boots.
THEOREM BootsRepair == Spec => BootRepairs
<1>1. Control /\ Repairs /\ [Next]_vars
        => [phase = "rows" /\ phase' = "serving" /\ ~skipped' => Consistent']_vars
  <2> SUFFICES ASSUME Control, Repairs, [Next]_vars, phase = "rows", phase' = "serving", ~skipped'
               PROVE  Consistent'
      OBVIOUS
  <2> USE DEF bootVars, storeVars
  <2>1. Listen
    <3>1. \A r \in Requests : ~InFlight(r)
      BY DEF Control, QuietOutside
    <3>2. \A r \in Requests : ~Accept(r) /\ ~Handle(r) /\ ~LoseClient(r)
      BY <3>1, HandleFrame DEF Accept, Handle, LoseClient, HangUp
    <3>3. ~Clock /\ ~RunSweeper /\ ~Terminate /\ ~Drained /\ ~Exit /\ ~Crash /\ ~Idle
      BY DEF Clock, RunSweeper, Terminate, Drained, Exit, Crash, ProcessEnds, Idle
    <3>4. ~Boot
      BY DEF Boot, Start, Repair, ReapPartial, EndReap, ReapOrphan, EndReconcileFiles,
         DropDangling, EndPass
    <3> QED BY <3>2, <3>3, <3>4 DEF Next, vars
  <2>2. DanglingRows = {} /\ OrphanFiles = {} /\ UNCHANGED <<rows, files>>
    BY <2>1 DEF Listen, EndPass, Repairs
  <2>3. \A s \in Slugs : rows[s] # NoRow => files[DiskName(s, rows[s].ext)] # NoFile
    BY <2>2 DEF DanglingRows
  <2>4. ASSUME NEW s \in Slugs, NEW e \in Exts \ {PartialExt}, files[DiskName(s, e)] # NoFile
        PROVE  rows[s] # NoRow /\ rows[s].ext = e
    <3>1. DiskName(s, e) \in Names /\ ~IsPartial(DiskName(s, e))
      BY DEF DiskName, Names, SlugNames, IsPartial
    <3>2. PICK x \in Slugs : rows[x] # NoRow /\ DiskName(s, e) = DiskName(x, rows[x].ext)
      BY <2>2, <2>4, <3>1 DEF OrphanFiles, KnownNames
    <3> QED BY <3>2 DEF DiskName
  <2> QED BY <2>2, <2>3, <2>4 DEF Consistent, RowHasFile, FilesHaveRow, DiskName
<1> QED BY <1>1, RepairsHold, PTL DEF Spec, BootRepairs

-----------------------------------------------------------------------------
(* What a step leaves to the requests it is not about.                     *)

\* A request keeps what it holds, or is lost with the process.
Rests(q) ==
  /\ target'[q] = target[q] /\ seen'[q] = seen[q]
  /\ q \in Senders => mine'[q] = mine[q]
  /\ pc'[q] = pc[q] \/ (InFlight(q) /\ pc'[q] = "lost" /\ phase' = "down")

\* A request that is let in, or whose handler goes on, moves no other request.
LEMMA OthersRest ==
  ASSUME Control, NEW r \in Requests, Accept(r) \/ Handle(r), NEW q \in Requests, q # r
  PROVE  Rests(q) /\ pc'[q] = pc[q]
<1> USE DEF Goto, heldVars, shownVars
<1>1. /\ pc \in [Requests -> Steps] /\ target \in [Requests -> Slugs \cup {NoSlug}]
      /\ seen \in [Requests -> Row \cup {NoRow}] /\ mine \in [Senders -> Row \cup {NoRow}]
  BY DEF Control, TypeOK, HandlersTypeOK
<1>2. \E p : pc' = [pc EXCEPT ![r] = p]
  <2>1. CASE Accept(r)
    BY <2>1 DEF Accept, Arrive, BeginUpload, BeginReplace, BeginDelete, BeginServe, OpenPartial,
       LookupMisses, LookupFails
  <2>2. CASE Handle(r)
    BY <2>2 DEF Handle, Advance, EndStream, AbortStream, Discard, InsertFresh,
       InsertCollides, InsertFails, PromoteUpload, PromoteUploadFails, RollBack, UpdateRow,
       UpdateMisses, PromoteReplace, PromoteReplaceFails, CleanOldName, DeleteLink, Unlink, OpenFile
  <2> QED BY <2>1, <2>2
<1>3. target' = target \/ \E x : target' = [target EXCEPT ![r] = x]
  BY DEF Accept, Arrive, BeginUpload, BeginReplace, BeginDelete, BeginServe,
     Lookup, LookupMisses, LookupFails, Handle, Advance, EndStream, AbortStream, Discard, InsertFresh,
     InsertCollides, InsertFails, PromoteUpload, PromoteUploadFails, RollBack, UpdateRow,
     UpdateMisses, PromoteReplace, PromoteReplaceFails, CleanOldName, DeleteLink, Unlink, OpenFile
<1>4. seen' = seen \/ \E x : seen' = [seen EXCEPT ![r] = x]
  BY DEF Accept, Arrive, BeginUpload, BeginReplace, BeginDelete, BeginServe,
     Lookup, LookupMisses, LookupFails, Handle, Advance, EndStream, AbortStream, Discard, InsertFresh,
     InsertCollides, InsertFails, PromoteUpload, PromoteUploadFails, RollBack, UpdateRow,
     UpdateMisses, PromoteReplace, PromoteReplaceFails, CleanOldName, DeleteLink, Unlink, OpenFile
<1>5. mine' = mine \/ \E x : mine' = [mine EXCEPT ![r] = x]
  BY DEF Accept, Arrive, BeginUpload, BeginReplace, BeginDelete, BeginServe, OpenPartial,
     Handle, Advance, EndStream, AbortStream, Discard, InsertFresh,
     InsertCollides, InsertFails, PromoteUpload, PromoteUploadFails, RollBack, UpdateRow,
     UpdateMisses, PromoteReplace, PromoteReplaceFails, CleanOldName, DeleteLink, Unlink, OpenFile
<1>6. target'[q] = target[q] /\ seen'[q] = seen[q] /\ pc'[q] = pc[q]
  BY <1>1, <1>2, <1>3, <1>4
<1>7. q \in Senders => mine'[q] = mine[q]
  BY <1>1, <1>5
<1> QED BY <1>6, <1>7 DEF Rests

\* Any other step leaves every request where it is, unless the process ends.
LEMMA RequestAdvances ==
  ASSUME Control, [Next]_vars, NEW q \in Requests
  PROVE  Accept(q) \/ Handle(q) \/ Rests(q)
<1> USE DEF heldVars, shownVars, storeVars, requestVars
<1>1. ASSUME NEW r \in Requests, Accept(r) \/ Handle(r) PROVE r = q \/ Rests(q)
  BY <1>1, OthersRest
<1>2. CASE Clock \/ Boot \/ Listen \/ RunSweeper \/ Terminate \/ Drained \/ UNCHANGED vars
  BY <1>2 DEF Clock, Boot, Listen, RunSweeper, Terminate, Drained, vars, Rests
<1>3. CASE Exit \/ Crash
  BY <1>3 DEF Exit, Crash, ProcessEnds, Rests
<1>4. ASSUME NEW r \in Requests, LoseClient(r) PROVE Rests(q)
  BY <1>4 DEF LoseClient, HangUp, Rests
<1> QED BY <1>1, <1>2, <1>3, <1>4 DEF Next, Idle

-----------------------------------------------------------------------------
(* The sweeper's schedule.                                                 *)

\* Only the clock moves time, and then by one.
LEMMA TimePasses ==
  ASSUME [Next]_vars
  PROVE  now' = now \/ Clock
<1> USE DEF storeVars, heldVars, shownVars
<1>1. ASSUME NEW r \in Requests, Accept(r) \/ Handle(r) \/ LoseClient(r) PROVE now' = now
  BY <1>1 DEF Accept, Arrive, BeginUpload, BeginReplace, BeginDelete, BeginServe, LoseClient, HangUp,
     Handle, Advance, EndStream, AbortStream, Discard, InsertFresh,
     InsertCollides, InsertFails, PromoteUpload, PromoteUploadFails, RollBack, UpdateRow,
     UpdateMisses, PromoteReplace, PromoteReplaceFails, CleanOldName, DeleteLink, Unlink, OpenFile
<1>2. CASE RunSweeper
  BY <1>2 DEF RunSweeper, Sweep, BeginSweep, SkipSweep, SweepRow, SkipRow, SweepFile, StopSweeper
<1>3. CASE Boot \/ Listen
  BY <1>3 DEF Boot, Listen, Start, Repair, ReapPartial, EndReap, ReapOrphan, EndReconcileFiles,
     DropDangling, EndPass
<1>4. CASE Terminate \/ Drained \/ Exit \/ Crash \/ UNCHANGED vars
  BY <1>4 DEF Terminate, Drained, Exit, Crash, ProcessEnds, vars
<1> QED BY <1>1, <1>2, <1>3, <1>4 DEF Next, Idle

\* A row is stamped with an accepted lifetime just before it is written, and
\* storage calls are fast: it is alive when it reaches the table, and so is the
\* row it replaces, if that was alive at the stamp.
LEMMA PacedStep == Control /\ Paced /\ [Next]_vars => Paced'
<1> SUFFICES ASSUME Control, Paced, [Next]_vars PROVE Paced'
    OBVIOUS
<1> USE LimitsAreNumbers
<1> USE DEF Goto, heldVars, shownVars, storeVars
<1> DEFINE Stamped == {"inserting", "updating", "promoting"}
<1>t. /\ now \in Nat /\ pc \in [Requests -> Steps]
      /\ seen \in [Requests -> Row \cup {NoRow}] /\ rows \in [Slugs -> Row \cup {NoRow}]
      /\ mine \in [Senders -> Row \cup {NoRow}] /\ StepsOfKind
  BY DEF Control, TypeOK, StoreTypeOK, HandlersTypeOK
<1>1. ASSUME NEW q \in Senders, Accept(q)
      PROVE  /\ mine'[q] # NoRow => Accepted(mine'[q].ttl)
             /\ pc'[q] \notin Stamped /\ now' = now
  <2>0. q \in Requests /\ q \notin Deletes \cup Gets
    BY KindsAreDisjoint DEF Requests, Senders
  <2>1. /\ now' = now
        /\ \/ OpenPartial(q)
           \/ mine' = mine /\ pc' = [pc EXCEPT ![q] = "missed"]
           \/ mine' = mine /\ pc' = [pc EXCEPT ![q] = "failed"]
    BY <1>1, <2>0 DEF Accept, Arrive, BeginUpload, BeginReplace, BeginDelete, BeginServe,
       LookupMisses, LookupFails
  <2>2. ASSUME OpenPartial(q)
        PROVE  /\ mine'[q] # NoRow => Accepted(mine'[q].ttl)
               /\ pc'[q] \notin Stamped
    <3>1. mine' = mine \/ \E e, t : Accepted(t) /\
             mine' = [mine EXCEPT ![q] = [ext |-> e, body |-> q, at |-> now, ttl |-> t]]
      BY <2>2 DEF OpenPartial
    <3>2. mine'[q] # NoRow => Accepted(mine'[q].ttl)
      BY <1>t, <3>1 DEF Paced
    <3>3. pc'[q] \in {"streaming", "failed"}
      BY <1>t, <2>0, <2>2 DEF OpenPartial
    <3> QED BY <3>2, <3>3
  <2> QED BY <1>t, <2>0, <2>1, <2>2 DEF Paced
<1>2. ASSUME NEW q \in Senders, Handle(q), EndStream(q)
      PROVE  /\ Accepted(mine'[q].ttl) /\ Expiry(mine'[q]) > now /\ now' = now
             /\ mine'[q].at = now
  <2>1. /\ pc[q] = "streaming" /\ now' = now /\ seen' = seen
        /\ mine' = [mine EXCEPT ![q].at = now] /\ mine[q] \in Row
    BY <1>2 DEF EndStream, Control, SendersHold
  <2>2. mine'[q].at = now /\ mine'[q].ttl = mine[q].ttl
    BY <1>t, <2>1 DEF Row
  <2>3. Accepted(mine[q].ttl)
    BY <2>1, SentinelsAreApart DEF Paced
  <2>4. mine[q].ttl \in Nat
    BY <2>1, RowFields
  <2>5. MinTTL <= mine[q].ttl
    BY <2>3 DEF Accepted
  <2> QED BY <1>t, <2>1, <2>2, <2>3, <2>4, <2>5 DEF Expiry
<1>3. ASSUME NEW q \in Senders, Handle(q), ~EndStream(q)
      PROVE  /\ mine' = mine /\ now' = now
             /\ pc'[q] \in Stamped => pc[q] \in Stamped
             /\ q \in Replaces => pc'[q] # "updating"
  <2>1. q \in Requests /\ (q \in Replaces => q \notin Uploads)
    BY KindsAreDisjoint DEF Requests, Senders
  <2>2. mine' = mine /\ now' = now
    BY <1>3 DEF Handle, Advance, AbortStream, Discard, InsertFresh,
       InsertCollides, InsertFails, PromoteUpload, PromoteUploadFails, RollBack, UpdateRow,
       UpdateMisses, PromoteReplace, PromoteReplaceFails, CleanOldName, DeleteLink, Unlink, OpenFile
  <2>3. pc'[q] \in Stamped => pc[q] \in Stamped
    BY <1>t, <1>3, <2>1 DEF Handle, Advance, AbortStream, Discard, InsertFresh,
       InsertCollides, InsertFails, PromoteUpload, PromoteUploadFails, RollBack, UpdateRow,
       UpdateMisses, PromoteReplace, PromoteReplaceFails, CleanOldName, DeleteLink, Unlink, OpenFile
  <2>4. q \in Replaces => pc'[q] # "updating"
    BY <1>t, <1>3, <2>1 DEF Handle, Advance, AbortStream, Discard, InsertFresh,
       InsertCollides, InsertFails, PromoteUpload, PromoteUploadFails, RollBack, UpdateRow,
       UpdateMisses, PromoteReplace, PromoteReplaceFails, CleanOldName, DeleteLink, Unlink, OpenFile
  <2> QED BY <2>2, <2>3, <2>4
<1>4. ASSUME NEW q \in Senders, ~Stalls
      PROVE  /\ Rests(q) /\ pc'[q] \in Stamped => Expiry(mine'[q]) > now'
             /\ Rests(q) /\ q \in Replaces /\ pc'[q] = "updating" /\ StampedInTime(q)'
                  => Expiry(seen'[q]) > now'
  <2>1. CASE now' = now
    BY <1>4, <2>1 DEF Rests, Paced, StampedInTime
  <2>2. CASE Clock
    <3>1. now' = now + 1 /\ KeepsPace
      BY <2>2 DEF Clock, Tick
    <3> QED BY <1>4, <3>1 DEF Rests, KeepsPace, StampedInTime
  <2> QED BY <2>1, <2>2, TimePasses
<1>5. ASSUME NEW q \in Senders
      PROVE  mine'[q] # NoRow => Accepted(mine'[q].ttl)
  <2>1. q \in Requests /\ (mine[q] # NoRow => Accepted(mine[q].ttl))
    BY DEF Requests, Paced
  <2> QED BY <1>1, <1>2, <1>3, <2>1, RequestAdvances DEF Rests
<1>6. ASSUME NEW q \in Senders, ~Stalls
      PROVE  /\ pc'[q] \in Stamped => Expiry(mine'[q]) > now'
             /\ q \in Replaces /\ pc'[q] = "updating" /\ StampedInTime(q)'
                  => Expiry(seen'[q]) > now'
  <2>1. q \in Requests
    BY DEF Requests
  <2>2. CASE Accept(q)
    BY <1>1, <2>2
  <2>3. CASE Handle(q) /\ EndStream(q)
    BY <1>2, <1>6, <2>3 DEF StampedInTime
  <2>4. CASE Handle(q) /\ ~EndStream(q)
    BY <1>3, <1>6, <2>4 DEF Paced
  <2>5. CASE Rests(q)
    BY <1>4, <1>6, <2>5
  <2> QED BY <2>1, <2>2, <2>3, <2>4, <2>5, RequestAdvances
<1> QED BY <1>5, <1>6, KindsAreDisjoint DEF Paced, Senders

\* Whoever is not the sweeper leaves its pass and its ticker alone, or starts
\* or ends it.
LEMMA SweeperRests ==
  ASSUME Control, [Next]_vars, ~RunSweeper
  PROVE  \/ UNCHANGED <<sweep, due, queue, sweeping>>
         \/ /\ Listen /\ sweep = "off" /\ sweep' = "waiting" /\ due' = 0 /\ queue' = queue
         \/ (Exit \/ Crash) /\ sweep' = "off" /\ due' = 0 /\ queue' = {}
<1> USE DEF sweeperVars
<1>1. ASSUME NEW r \in Requests, Accept(r) \/ Handle(r) \/ LoseClient(r)
      PROVE  UNCHANGED <<sweep, due, queue, sweeping>>
  BY <1>1 DEF Accept, Handle, LoseClient
<1>2. CASE Clock \/ Boot \/ Terminate \/ Drained \/ UNCHANGED vars
  BY <1>2 DEF Clock, Boot, Terminate, Drained, vars
<1>3. CASE Listen
  BY <1>3 DEF Listen, EndPass, Control, QuietOutside
<1>4. CASE Exit \/ Crash
  BY <1>4 DEF Exit, Crash, ProcessEnds
<1> QED BY <1>1, <1>2, <1>3, <1>4 DEF Next, Idle

\* The tick a ticker is set to is at most a period away.
LEMMA TickIsNear ==
  ASSUME Control, TakeTick \/ AwaitTick \/ UNCHANGED due, due # 0 => due <= now + MinTTL
  PROVE  due' # 0 => due' <= now + MinTTL
<1>1. now \in 0..MaxNow /\ MinTTL \in Nat /\ MaxNow \in Nat
  BY LimitsAreNumbers DEF Control, TypeOK, StoreTypeOK
<1>2. \A t \in Nat : InTime(t) <= t
  BY <1>1 DEF InTime
<1>3. CASE TakeTick
  <2>1. \A t \in (now + 1)..(now + MinTTL) : InTime(t) <= now + MinTTL
    BY <1>1 DEF InTime
  <2> QED BY <1>3, <2>1 DEF TakeTick, NextTicks
<1>4. CASE AwaitTick
  BY <1>1, <1>2, <1>4 DEF AwaitTick
<1> QED BY <1>3, <1>4

LEMMA TickingStep == Control /\ Ticking /\ [Next]_vars => Ticking'
<1> SUFFICES ASSUME Control, Ticking, [Next]_vars PROVE Ticking'
    OBVIOUS
<1>1. /\ now \in Nat /\ now' \in Nat /\ now <= now' /\ MinTTL \in Nat /\ due \in Nat
  BY ForwardStep, LimitsAreNumbers DEF Forward, Control, TypeOK, StoreTypeOK, SweeperTypeOK
<1>2. CASE RunSweeper
  <2>1. now' = now
    BY <1>2 DEF RunSweeper, Sweep, BeginSweep, SkipSweep, SweepRow, SkipRow, SweepFile,
       StopSweeper, storeVars
  <2>2. CASE StopSweeper
    BY <2>2 DEF StopSweeper, Ticking
  <2>3. CASE Sweep
    <3>1. TakeTick \/ AwaitTick \/ UNCHANGED due
      BY <2>3 DEF Sweep, BeginSweep, SkipSweep, SweepRow, SkipRow, SweepFile, NextRow
    <3>2. due' # 0 => due' <= now + MinTTL
      BY <3>1, TickIsNear DEF Ticking
    <3>3. sweep' # "off" /\ (sweep' = "waiting" => queue' = {})
      BY <2>3 DEF Sweep, BeginSweep, SkipSweep, SweepRow, SkipRow, SweepFile, NextRow, AwaitTick,
         Ticking
    <3> QED BY <2>1, <3>2, <3>3 DEF Ticking
  <2> QED BY <1>2, <2>2, <2>3 DEF RunSweeper, Sweep
<1>3. CASE ~RunSweeper
  <2>1. \/ UNCHANGED <<sweep, due, queue>>
        \/ sweep = "off" /\ sweep' = "waiting" /\ due' = 0 /\ queue' = queue
        \/ sweep' = "off" /\ due' = 0 /\ queue' = {}
    BY <1>3, SweeperRests
  <2> QED BY <1>1, <2>1 DEF Ticking
<1> QED BY <1>2, <1>3

(***************************************************************************)
(* A row no pass has in hand, for which the next tick comes a period or    *)
(* more after its end, or which the pass at boot should have taken.  It    *)
(* stays so until a later pass takes it; no step makes a row such but a    *)
(* DELETE that fails, or a query that does.                                *)
(***************************************************************************)
WellTimed(s) ==
  /\ due # 0 => due < Expiry(rows[s]) + MinTTL
  /\ FirstPass => Expiry(rows[s]) > now

Left(s) == rows[s] # NoRow /\ ~Queued(s) /\ ~WellTimed(s)

\* A query that does not fail, and a row that is not passed over.
Meets(s) == (SkipSweep => ListExpired = {}) /\ (SkipRow => ~Queued(s))

\* The sweeper's own steps: what a pass leaves has not lapsed when it takes its
\* snapshot, and the next tick is set for at most a period later.
LEMMA LeftBySweeper ==
  ASSUME Control, Ticking, RunSweeper, NEW s \in Slugs, Meets(s), Left(s)'
  PROVE  Left(s)
<1> USE DEF storeVars
<1>1. /\ now \in Nat /\ MinTTL \in Nat \ {0} /\ due \in Nat /\ due' \in Nat
      /\ rows \in [Slugs -> Row \cup {NoRow}]
  BY ControlStep, LimitsAreNumbers DEF Next, Control, TypeOK, StoreTypeOK, SweeperTypeOK
<1>2. rows[s] # NoRow /\ now' = now /\ rows'[s] = rows[s] /\ ~Queued(s)'
  BY <1>1 DEF Left, RunSweeper, Sweep, BeginSweep, SkipSweep, SweepRow, SkipRow, SweepFile,
     StopSweeper, DeleteRow
<1>3. Expiry(rows[s]) \in Nat
  BY <1>1, <1>2, RowFields DEF Expiry
<1>4. ~( /\ due' # 0 => due' < Expiry(rows[s]) + MinTTL
         /\ FirstPass' => Expiry(rows[s]) > now )
  BY <1>2 DEF Left, WellTimed, Expiry
<1>5. ASSUME TakeTick \/ AwaitTick \/ UNCHANGED due, Expiry(rows[s]) > now
      PROVE  FALSE
  <2>1. due' # 0 => due' <= now + MinTTL
    BY <1>5, TickIsNear DEF Ticking
  <2> QED BY <1>1, <1>3, <1>4, <1>5, <2>1
<1>6. ~BeginSweep
  <2> SUFFICES ASSUME BeginSweep PROVE FALSE
      OBVIOUS
  <2>1. [slug |-> s, row |-> rows[s]] \notin ListExpired
    BY <1>2 DEF BeginSweep, Queued
  <2>2. ~Lapsed(rows[s])
    BY <1>2, <2>1 DEF ListExpired
  <2>3. Expiry(rows[s]) > now
    BY <1>1, <1>3, <2>2 DEF Lapsed
  <2> QED BY <1>5, <2>3 DEF BeginSweep
<1>7. ~SkipSweep
  <2> SUFFICES ASSUME SkipSweep PROVE FALSE
      OBVIOUS
  <2>1. ListExpired = {} /\ (TakeTick \/ AwaitTick)
    BY DEF SkipSweep, Meets
  <2>2. ~Lapsed(rows[s])
    BY <1>2, <2>1 DEF ListExpired
  <2>3. Expiry(rows[s]) > now
    BY <1>1, <1>3, <2>2 DEF Lapsed
  <2> QED BY <1>5, <2>1, <2>3
<1>8. ~StopSweeper
  BY <1>4 DEF StopSweeper, FirstPass
\* In the middle of a pass, a row that was in the queue has gone from the table.
<1>9. ~Queued(s)
  <2>1. CASE SweepRow
    BY <1>1, <1>2, <2>1 DEF SweepRow, DeleteRow, Queued
  <2>2. CASE SkipRow
    BY <2>2 DEF Meets
  <2>3. CASE SweepFile
    BY <1>2, <2>3 DEF SweepFile, NextRow, Queued
  <2> QED BY <1>6, <1>7, <1>8, <2>1, <2>2, <2>3 DEF RunSweeper, Sweep
<1>10. /\ sweep \in {"rows", "file"} /\ (due' = due \/ AwaitTick)
       /\ sweep' \in {"rows", "file"} => due' = due
  <2>1. CASE SweepRow
    BY <2>1 DEF SweepRow
  <2>2. CASE SkipRow
    BY <2>2 DEF SkipRow, NextRow, AwaitTick
  <2>3. CASE SweepFile
    BY <2>3 DEF SweepFile, NextRow, AwaitTick
  <2> QED BY <1>6, <1>7, <1>8, <2>1, <2>2, <2>3 DEF RunSweeper, Sweep
<1>11. CASE due = 0
  BY <1>2, <1>4, <1>5, <1>9, <1>10, <1>11 DEF FirstPass, Left, WellTimed
<1>12. CASE due # 0
  BY <1>2, <1>4, <1>9, <1>10, <1>12 DEF FirstPass, AwaitTick, Left, WellTimed
<1> QED BY <1>11, <1>12

\* A row that enters the table is alive, and so lapses within reach of the
\* next tick; the clock waits for the pass at boot.
LEMMA LeftStep ==
  ASSUME Control, Paced, Ticking, [Next]_vars, ~Stalls, NEW s \in Slugs, Meets(s), Left(s)'
  PROVE  Left(s)
<1>1. /\ now \in Nat /\ now' \in Nat /\ MinTTL \in Nat \ {0} /\ due \in Nat
      /\ rows \in [Slugs -> Row \cup {NoRow}] /\ mine \in [Senders -> Row \cup {NoRow}]
  BY ForwardStep, LimitsAreNumbers
  DEF Forward, Control, TypeOK, StoreTypeOK, SweeperTypeOK, HandlersTypeOK
<1>2. /\ rows'[s] # NoRow /\ ~Queued(s)'
      /\ ~( /\ due' # 0 => due' < Expiry(rows'[s]) + MinTTL
            /\ FirstPass' => Expiry(rows'[s]) > now' )
  BY DEF Left, WellTimed, Expiry
<1>3. CASE RunSweeper
  BY <1>3, LeftBySweeper
<1>4. CASE ~RunSweeper /\ sweep' \in {"off", "waiting"} /\ due' = 0
  BY <1>2, <1>4 DEF FirstPass
<1>5. CASE ~RunSweeper /\ UNCHANGED <<sweep, due, queue>> /\ rows'[s] = rows[s]
  <2>1. rows[s] # NoRow /\ ~Queued(s)
    BY <1>2, <1>5 DEF Queued
  <2>2. FirstPass' => FirstPass /\ now' = now
    BY <1>5, TimePasses DEF FirstPass, Clock
  <2> QED BY <1>2, <1>5, <2>1, <2>2 DEF Left, WellTimed
<1>6. CASE ~RunSweeper /\ UNCHANGED <<sweep, due, queue>> /\ rows'[s] # rows[s]
  <2>1. PICK q \in Senders : (InsertFresh(q) \/ UpdateRow(q)) /\ rows'[s] = mine[q]
    BY <1>2, <1>6, RowOrigin
  <2>2. pc[q] \in {"inserting", "updating"} /\ now' = now
    BY <2>1 DEF InsertFresh, UpdateRow
  <2>3. Expiry(mine[q]) > now
    BY <2>2 DEF Paced
  <2>4. mine[q] \in Row
    BY <1>1, <1>2, <2>1
  <2>5. Expiry(mine[q]) \in Nat
    BY <2>4, RowFields DEF Expiry
  <2>6. due # 0 => due <= now + MinTTL
    BY DEF Ticking
  <2> QED BY <1>1, <1>2, <1>6, <2>1, <2>2, <2>3, <2>5, <2>6
<1> QED BY <1>3, <1>4, <1>5, <1>6, SweeperRests

\* While storage calls succeed every row is met.
LEMMA LeftToNextTickStep == Control /\ Schedule /\ [Next]_vars => LeftToNextTick'
<1> SUFFICES ASSUME Control, Schedule, [Next]_vars, ~Stalls, faults' = 0,
                    NEW s \in Slugs, Left(s)'
             PROVE  FALSE
    BY DEF LeftToNextTick, Left, WellTimed
<1>1. faults = 0 /\ ~Fault
  BY CountersGrow DEF Fault
<1>2. SkipSweep => ListExpired = {}
  BY <1>1 DEF SkipSweep
<1>3. SkipRow => ~Queued(s)
  BY <1>1 DEF SkipRow, NextRow, Queued, Left
<1>4. Left(s)
  BY <1>2, <1>3, LeftStep DEF Meets, Schedule
<1> QED BY <1>1, <1>4 DEF Schedule, LeftToNextTick, Left, WellTimed

LEMMA InitSchedule == Init => Schedule
<1> SUFFICES ASSUME Init PROVE Schedule
    OBVIOUS
<1> USE DEF Init, StoreInit, HandlersInit, SweeperInit
<1>1. Paced
  BY DEF Paced, Requests, Senders
<1>2. Ticking /\ LeftToNextTick
  BY DEF Ticking, LeftToNextTick
<1> QED BY <1>1, <1>2 DEF Schedule

LEMMA ScheduleStep == Control /\ Schedule /\ [Next]_vars => Schedule'
  BY PacedStep, TickingStep, LeftToNextTickStep DEF Schedule

\* A ticker is never more than a period ahead; if no call is slow, a row is
\* alive when it is written, and what a pass leaves behind lapses so late that
\* the next tick is within a period of it, whatever was stamped when.
THEOREM ScheduleHolds == Spec => [](Control /\ Schedule)
<1>1. Init => Control /\ Schedule
  BY InitControl, InitSchedule
<1>2. Control /\ Schedule /\ [Next]_vars => (Control /\ Schedule)'
  BY ControlStep, ScheduleStep
<1> QED BY <1>1, <1>2, PTL DEF Spec

\* Once a pass is over and until the next tick, every row in the table lapses
\* less than a period before that tick: no row is late by more than the period
\* of the sweeper, if storage calls succeed and none is slow.
THEOREM SweepsAreTimely ==
  ASSUME ~Stalls
  PROVE  Spec => []SweptOnTime
<1>1. Control /\ Schedule => SweptOnTime
  <2> SUFFICES ASSUME Control, Schedule, faults = 0, sweep = "waiting", now < due,
                      NEW s \in Slugs, rows[s] # NoRow
               PROVE  now < Expiry(rows[s]) + MinTTL
      BY DEF SweptOnTime
  <2>1. /\ now \in Nat /\ due \in Nat /\ MinTTL \in Nat /\ rows[s] \in Row
    BY LimitsAreNumbers DEF Control, TypeOK, StoreTypeOK, SweeperTypeOK
  <2>2. ~Queued(s) /\ due # 0
    BY <2>1 DEF Schedule, Ticking, Queued
  <2>3. due < Expiry(rows[s]) + MinTTL
    BY <2>2 DEF Schedule, LeftToNextTick
  <2>4. Expiry(rows[s]) \in Nat
    BY <2>1, RowFields DEF Expiry
  <2> QED BY <2>1, <2>3, <2>4
<1> QED BY <1>1, ScheduleHolds, PTL

-----------------------------------------------------------------------------
(* A failed DELETE and the rows behind it.                                 *)

\* Rows that have been in the table for a period of the sweeper past their end.
Overdue == {s \in Slugs : rows[s] # NoRow /\ Expiry(rows[s]) + MinTTL <= now}

Counted ==
  (~Stalls /\ ~QueriesFail) =>
    LET left == {s \in Slugs : Left(s)} IN IsFiniteSet(left) /\ Cardinality(left) <= faults

\* A pass that passes over a row goes on with the next: one call has failed,
\* and one row is left.
LEMMA CountedStep == Control /\ Paced /\ Ticking /\ Counted /\ [Next]_vars => Counted'
<1> DEFINE left == {s \in Slugs : Left(s)}
<1> SUFFICES ASSUME Control, Paced, Ticking, Counted, [Next]_vars, ~Stalls, ~QueriesFail
             PROVE  IsFiniteSet(left') /\ Cardinality(left') <= faults'
    BY DEF Counted
<1>1. IsFiniteSet(left) /\ Cardinality(left) <= faults /\ Cardinality(left) \in Nat
  BY FS_CardinalityType DEF Counted
<1>2. faults \in Nat /\ faults' \in Nat /\ faults <= faults'
  BY CountersGrow
<1>3. SkipSweep => ListExpired = {}
  BY DEF SkipSweep
<1>4. CASE SkipRow /\ Fault
  <2>1. PICK i \in queue : queue' = queue \ {i}
    BY <1>4 DEF SkipRow, NextRow
  <2>2. ASSUME NEW s \in Slugs, Left(s)', s # i.slug PROVE Left(s)
    <3>1. ~Queued(s)
      BY <2>1, <2>2 DEF Left, Queued
    <3> QED BY <1>3, <2>2, <3>1, LeftStep DEF Meets
  <2>3. left' \in SUBSET (left \cup {i.slug})
    BY <2>2
  <2>4. IsFiniteSet(left \cup {i.slug}) /\ Cardinality(left \cup {i.slug}) <= Cardinality(left) + 1
    BY <1>1, FS_AddElement
  <2>5. IsFiniteSet(left') /\ Cardinality(left') <= Cardinality(left \cup {i.slug})
    BY <2>3, <2>4, FS_Subset
  <2>6. Cardinality(left') \in Nat /\ Cardinality(left \cup {i.slug}) \in Nat
    BY <2>4, <2>5, FS_CardinalityType
  <2>7. faults' = faults + 1
    BY <1>4 DEF Fault
  <2> HIDE DEF left
  <2> QED BY <1>1, <1>2, <2>4, <2>5, <2>6, <2>7
<1>5. CASE ~(SkipRow /\ Fault)
  <2>1. ASSUME NEW s \in Slugs, Left(s)' PROVE Left(s)
    <3>1. SkipRow => ~Queued(s)
      BY <1>5, <2>1 DEF SkipRow, NextRow, Queued, Left
    <3> QED BY <1>3, <2>1, <3>1, LeftStep DEF Meets
  <2>2. left' \in SUBSET left
    BY <2>1
  <2>3. IsFiniteSet(left') /\ Cardinality(left') <= Cardinality(left)
    BY <1>1, <2>2, FS_Subset
  <2>4. Cardinality(left') \in Nat
    BY <2>3, FS_CardinalityType
  <2> HIDE DEF left
  <2> QED BY <1>1, <1>2, <2>3, <2>4
<1> QED BY <1>4, <1>5

(***************************************************************************)
(* A failed DELETE costs its own row a period of the sweeper and no other: *)
(* if the query for lapsed rows succeeds and no storage call is slow, the  *)
(* rows that stay in the table a period past their end are no more than    *)
(* the calls that failed, wherever in the snapshot those rows were.        *)
(***************************************************************************)
THEOREM OneFailureOneRow ==
  ASSUME ~Stalls, ~QueriesFail
  PROVE  Spec => [](sweep = "waiting" /\ now < due
                      => IsFiniteSet(Overdue) /\ Cardinality(Overdue) <= faults)
<1>1. Init => Counted
  <2> SUFFICES ASSUME Init PROVE Counted
      OBVIOUS
  <2>1. {s \in Slugs : Left(s)} = {}
    BY DEF Init, StoreInit, Left
  <2> QED BY <2>1, FS_EmptySet DEF Counted, Init, StoreInit
<1>2. Control /\ Schedule /\ Counted /\ [Next]_vars => Counted'
  BY CountedStep DEF Schedule
<1>3. Control /\ Schedule /\ Counted =>
        (sweep = "waiting" /\ now < due
           => IsFiniteSet(Overdue) /\ Cardinality(Overdue) <= faults)
  <2> SUFFICES ASSUME Control, Schedule, Counted, sweep = "waiting", now < due
               PROVE  IsFiniteSet(Overdue) /\ Cardinality(Overdue) <= faults
      OBVIOUS
  <2> DEFINE left == {s \in Slugs : Left(s)}
  <2>1. /\ now \in Nat /\ due \in Nat /\ MinTTL \in Nat /\ faults \in Nat
        /\ rows \in [Slugs -> Row \cup {NoRow}]
    BY LimitsAreNumbers DEF Control, TypeOK, StoreTypeOK, SweeperTypeOK
  <2>2. ASSUME NEW s \in Overdue PROVE s \in left
    <3>1. s \in Slugs /\ rows[s] # NoRow /\ Expiry(rows[s]) + MinTTL <= now
      BY DEF Overdue
    <3>2. Expiry(rows[s]) \in Nat
      BY <2>1, <3>1, RowFields DEF Expiry
    <3>3. ~Queued(s)
      BY DEF Schedule, Ticking, Queued
    <3> QED BY <2>1, <3>1, <3>2, <3>3 DEF Left, WellTimed
  <2>3. Overdue \in SUBSET left
    BY <2>2
  <2>4. IsFiniteSet(left) /\ Cardinality(left) <= faults
    BY DEF Counted
  <2>5. IsFiniteSet(Overdue) /\ Cardinality(Overdue) <= Cardinality(left)
    BY <2>3, <2>4, FS_Subset
  <2>6. Cardinality(Overdue) \in Nat /\ Cardinality(left) \in Nat
    BY <2>4, <2>5, FS_CardinalityType
  <2> HIDE DEF left
  <2> QED BY <2>1, <2>4, <2>5, <2>6
<1> QED BY <1>1, <1>2, <1>3, ScheduleHolds, PTL DEF Spec

=============================================================================
