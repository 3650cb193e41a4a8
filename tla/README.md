# A TLA+ model of kshare

kshare publishes files under unguessable links. `kshared` (`src/cmd/server`, `src/internal/store`) keeps one
SQLite row per link in `share.db` and one file per link in a flat directory `files/`; the `kshare` command line
(`src/cmd/cli`) uploads, replaces, lists and deletes with a token from an identity provider, and anybody who has
a link reads it at `/s/{slug}` until its lifetime ends.

Neither the row and the file, nor two requests for one link, nor a request and the sweeper are ever updated in
one atomic step. What holds the service together is the *order* in which every path does its two or three storage
calls, and the passes a boot makes over what the last process left. This directory models that order, checks it
with TLC on small instances and proves with TLAPS, for every instance, all of its safety properties.

## The system

| Component | Source | State it keeps | Operations |
|---|---|---|---|
| Store | `internal/store/container.go`, `queries.go` | table `upload`, directory `files/` | Insert, GetBySlug, ReplaceContent, DeleteBySlug, ListExpired, WriteFile, RenameFile, RemoveFile, ReapPartials, ReconcileFiles, ReconcileRows |
| Sweeper | `internal/store/sweeper.go` | a ticker, a snapshot of lapsed rows | a pass at boot and one per tick: DELETE, then unlink, row by row |
| Handlers | `cmd/server/upload.go`, `files.go`, `serve.go`, `wire.go`, `helpers.go`, `diskname.go` | local variables of each request | upload, replace, delete, serve, list |
| Process | `cmd/server/main.go`, `server.go` | phase of the process, contexts | load config, boot passes, start sweeper and listener, drain, exit |
| CLI tokens | `cmd/cli/auth.go` | `auth.json` | login, refresh, logout, status |
| Token check | `cmd/server/auth.go`, `cmd/cli/client.go` | none | send a token, verify it, ask for the role |
| Lifetimes | `internal/api/ttl.go`, `cmd/server/main.go`, `wire.go` | configuration | ParseTTL, loadConfig, the check of `X-KShare-TTL` |
| Request log, health | `cmd/server/middleware.go`, `healthz.go` | none | log, ping |
| CLI commands | `cmd/cli/*.go` | none | one HTTP request each |

How they interact: the handlers, the sweeper and the boot passes share the store and nothing else. A handler runs
in a goroutine of `net/http` under a context that `TimeoutHandler` (upload and replace 30 min, delete and list
30 s) or the client's disconnection may end; then its SQL statements fail, its file calls do not, and its
connection is free although it still runs. The boot passes run alone, before the sweeper and the listener start.
A shutdown drains connections, then the listener, then the sweeper. The command line and the server share the issuer
of the tokens: the server checks a token by itself and asks nobody, so the two meet only in the token's claims.

What is hard about it, and what therefore makes each component correct:

* **Store**: the table and the directory agree, up to what somebody is working on at the moment.
* **Handlers**: they interleave with each other and with the sweeper between any two storage calls, hold a row
  read long before it is used (a replace keeps its row for as long as a body streams), and may fail at any call.
* **Sweeper**: its snapshot ages while it works; it may be cancelled between rows, never between a row and its file;
  its ticker drops the ticks nobody takes, and a row has to go within a period of its end all the same, one behind a
  row that is stuck included.
* **Process**: a kill may fall between any two calls; a boot has to mend every pair of table and directory that a
  kill can leave; a drain must end and leave nothing to mend.
* **CLI tokens**: every command is a process; they share one file, written in place, and one refresh token that the
  provider replaces at each use. Commands in turn must keep the login; what overlapping ones leave on file must be
  of use unless one of them failed or was killed.
* **Token check**: the command goes by the time it wrote to `auth.json`, the server by the claim in the token. The
  grace period has to absorb what lies between the two.
* **Lifetimes**: a text is rewritten by a pattern before the standard parser reads it, so what it means depends on both;
  three settings and a header are read so and held against each other.

`PROJECT.json` lists every such hazard at its line under `hazards`.

## Modules

    Store          rows, files, clock, faults; one operator per SQL statement or file call
      Handlers     a process per request; one action per storage call
      Sweeper      the sweeper's goroutine
      Boot         phases of the process; the three boot passes
        KShared    the server: all of them, with kills, restarts and shutdowns; its properties
          KSharedInv     the inductive invariants
            KSharedProofs  theorems: uploads
              LinkProofs     theorems: readers, and the refinement of LinkRegistry
              RepairProofs   theorems: boots, and the sweeper's schedule
                TurnProofs     theorems: clients that take turns (extends LinkProofs too)
                  StopProofs     theorems: drained shutdowns
            MCKShared      instances for TLC
    LinkRegistry   what the server promises about links, seen from outside

    AuthFile       the command line's tokens: commands, auth.json, the identity provider, time
      AuthFileProofs theorems
      Session      adds the request of a command and the server's verdict on its token
        SessionProofs  theorems
        MCSession      instances for TLC
    TTL            ParseTTL and what it should compute
      Config       adds the operator's three lifetimes and the sender's
        ConfigProofs   theorems
        MCConfig       instances for TLC

`Store` models a row as `[ext, body, at, ttl]`. `body` is the identifier of the request that wrote the row and
stands for the columns derived from its bytes (original file name, content type, size); `ext`, `at`, `ttl` are the
columns that file names and queries depend on. A file is `[body, whole, mtime]`: whose bytes, whether the copy has
ended, and the time the boot passes look at. File names are pairs: `<<slug, ext>>` for a link, and
`<<request, ".partial">>` for a scratch file, whose random name no two requests share. A file whose extension *is*
`.partial` is in the model, because the code lets an uploader choose it. `IsFound` and `Lapsed` are the two WHERE
clauses (`>` for readers, `<=` for the sweeper) on the same clock.

`Handlers` gives every request a program counter. A step of a request is one storage call together with the code
up to the next one, so a behaviour interleaves them the way goroutines do. `seen` is the code's `u` (the row a
lookup returned), `mine` the row a sender builds. `cancelled` holds the requests whose context has ended:
`StatementRuns` and `StatementFails` decide what a statement may do, and file calls ignore it. An upload's slug is
either one no upload ever drew or the slug of a row that exists (the collision `insertWithRetry` retries); 48
random bits hitting the slug of a row deleted earlier is left out.

`Sweeper` takes a snapshot, then works through it in order of expiry. `due` is the ticker: 0 during the pass at boot,
which waits for no tick, then the instant of the next tick. A tick taken late leaves the schedule as it was
(`NextTicks`), and the ticks that passed meanwhile are dropped. `Boot` runs the passes; `EndPass` says that
a pass may stop on an error and go on with the boot, leaving `skipped` set. `KShared` composes: `Accept` lets a
request in while serving, `Handle` moves it on in any phase where it still runs, `Terminate`, `Drained` and `Exit`
are `gracefulShutdown`, `Crash` is a kill, which also stands for the exits with requests in flight (listener error,
drain over 30 s, sweeper over 10 s). After either the process is `"down"` and may `Start` again; the requests that
were in flight are `"lost"` and whatever they had done to the store stays.

`LinkRegistry` is the abstract specification: links are published once, swap bodies while they live, are retired
for good, and a reader gets a body the link it asked for has shown. `KShared` maps onto it: a link shows the body
of its row; its past is the set of senders whose row was committed for it.

`AuthFile` has a process per command: `LogIn`, `LogOut`, and for the others (`Uses`) `Load`, `Refresh` with its two
ways to fail, and a save in two steps, `SaveOpens` (the truncating open) and `SaveWrites`. The file is absent, empty,
garbled or tokens; `opened` says whose descriptor still belongs to the name, because a logout unlinks it under a
writer's feet. Tokens are `[login, exp, refresh, until]`: the login they come from, the end of the access token as its
claim says, the number of refreshes before the refresh token, and `ExpiresAt`, the end as the command took it from the
answer: with the lifetime the answer named, or `Fallback` if it named none, and up to `MaxLag` after the provider
stamped the claim. `Expired` is `ensureFreshAccessToken`'s test with its grace period. The provider is external and
modelled from what the code says of it: it takes a refresh token once, and revokes the login when it sees one again.
A refresh that is not answered may have been granted, or refused with the whole login, or not seen (`Unheard`). `owed`
is a history variable: the login that `auth.json` is to have by what commands in turn have done, or `Nothing` once commands that met, failed in a save or
were killed have left it open.

`Session` extends it by what a command does with its token: at `"ready"` it may `Ask` the server once, whose `Verdict`
is that of `authenticator.require`. Signature, issuer and audience are properties of a login (`Misissued`), and so is
the role (`Roleless`); the age of the token is `now < exp`. A request that never arrives is `"unreachable"`.

`TTL` represents a text as a sign and components, `Expand` is the rewriting of one component as the pattern sees it,
`ParseDuration` the standard parser on what comes out, and `Meant` the reference definition. `Config` boots with three
texts or the built-in lifetimes (`LoadConfig`), lets a sender write a text or none, and gives the row its `Lifetime`
or refuses it. A lifetime out of range is refused (`wire.go:45`), and so it is in `Lifetime`; `docs/architecture.md:22`
and `docs/deployment.md:162` have it clamped.

## What the runs check

The properties are defined in `KShared`, `AuthFile`, `Session`, `TTL` and `Config` with a comment each; the inductive
invariants of the proofs (`IInv`, `Serving`, `Turns`, `Schedule`, `Accounts`) are in `KSharedInv`, and the
runs check them beside the properties they imply. The server's runs use `MCKShared`, `tokens` uses `MCSession`,
`ttl` uses `MCConfig`, `ttl_fraction` uses `TTL`.

| Run | Instance | Properties | Shows |
|---|---|---|---|
| `lifecycle` | 2 uploads, 2 slugs, a replace, 1 storage error, 1 crash, names `*.partial` | `TypeOK`, `IInv`, `DurableUpload`, `FailedUploadUndone`, `AnsweredLeavesNoScratch`, `BootRepairs` | an answered upload keeps its row and its whole bytes until it lapses or somebody replaces or deletes it; one answered with an error leaves no row; no answered request leaves a scratch file, unless a storage call failed; a boot that met no error hands a consistent directory to the listener |
| `turns` | upload, 2 replaces in turn, a delete that may be hung up, sweeper, SIGTERM, 3 extensions, lifetimes in and out of range, instants 0 to 5 | `Turns`, `Schedule`, `Accounts`, `RowDescribesFile`, `SweptOnTime`, `CleanStop` | with no storage error, every settled row names the file with the bytes it describes; a lapsed row goes within a period of the ticker; a drained exit leaves no dangling row, no scratch file, and no orphan but under a slug whose row lapsed while a replace's body came in |
| `overlap` | upload, 2 replaces at once, GET, sweeper, 1 storage error | `Serving`, `ServedFaithful`, `KeepsPromise` | a reader gets a whole body sent to that very link, and the server implements `LinkRegistry` |
| `progress` | upload, replace, delete, sweeper, 1 error, hang-up, 1 crash, SIGTERM | `AllAnswered`, `LapsedRowGoes`, `RetiredBytesGo`, `StaleScratchGoes`, `ShutdownEnds` | every request is answered, lapsed rows go, the bytes of a link that is gone and scratch files leave the disk wherever a crash fell, a shutdown ends |
| `tokens` | 2 logins, a logout, 2 commands and their requests, 1 failed call, 1 kill, a clock | `AuthTypeOK`, `TurnsKeepLogin`, `FileStaysUsable`, `FreshIsAccepted` | commands that run in turn never lose the login; tokens that overlapping ones leave on file can be used unless a command of that login failed or was killed, the file is empty only after such a harm, and garbled only after one or after two saves; the server turns a sound token down for its age only if the time since the command took it to be good adds up to the grace period |
| `ttl` | three settings out of six texts or none, a header of up to 2 components, 12-bit int | `WholeTTLsAreExact`, `LimitsAsMeant`, `BootedServes` | whole weeks, days and hours add up exactly, or are refused for being zero, negative or too long, if no product wraps; a row lives as its sender and its operator wrote; a server that boots has a sweeper with a period and accepts an upload that names no lifetime |

Six more runs state what a comment, a test or the README says and the code does not do; each ends in a
counterexample, and `PROJECT.json` quotes the line under `findings`.

| Run | Counterexample |
|---|---|
| `sweep_race` | A PUT looks its row up, the row lapses, the sweeper takes its snapshot, the PUT's UPDATE renews the row, the sweeper deletes the fresh row by slug. |
| `reaped_upload` | A file uploaded as `x.partial` is live; the process restarts; `ReapPartials` removes the file, `ReconcileRows` then the row. |
| `replace_crash` | A kill between UPDATE and rename. With the same extension the old bytes stay under the new row's size and type; with another one the old file is an orphan, the row dangles, and the boot removes both. |
| `replace_clash` | Two PUTs change the extension back and forth; the one that looked first and ends last removes the file the other has just put there. |
| `stale_copy` | A GET between a replace's UPDATE and its rename gets the old bytes with the new row's `Last-Modified`; conditional requests then confirm them. |
| `ttl_fraction` | `0.5d` becomes `0.120h`: 7 min 12 s instead of 12 h. |

### Bounds, and why they are enough

* *Two* of the kinds that compete (uploads for a slug, replaces of a link) and one of the others: every race in the
  code is between two parties over one slug, and the sweeper is always the third.
* `MaxNow = 1` with lifetimes of 1 (and 2): a row is fresh at one instant and lapses at the next, and any step may
  fall on either side of the tick.
* `turns` has a clock of 5 and `MinTTL = 2`, so that a boot, two periods of the ticker and a row stamped between two
  ticks all fit. One lifetime it asks for is out of range. The last instant stands for all that follow it: a tick due
  after `MaxNow` comes then (`InTime`).
* `MaxFaults = 1`: one storage call may fail at any point. With a hang-up in `progress`, a roll-back whose rename failed
  finds its DELETE failing too. A fault may happen and is never forced: no action is possible only with one.
* `MaxCrashes = 1`, `MaxStops = 1`: one kill or SIGTERM at any point, and the boot after it.
* `SlugRetries = 2` (5 in the code): one collision that is retried, and one that is the last.
* `Exts`: `.html` and `.pdf` where a replace may change the extension; `.partial` for the scratch suffix, in `SentExts`
  where an uploader may send it.
* Three more bounds restrict the environment. `Overlap = FALSE`, in `turns`, makes the writers of one
  slug take turns, because `replace_clash` shows what happens otherwise. `Stalls = FALSE`, in `turns` too, bounds
  the time storage calls take: no row lapses between the stamp of a new one and its rename, nor the old row of a
  replace between that stamp and the UPDATE, and no time passes in the sweeper's pass at boot. These are milliseconds
  in the code, against lifetimes of minutes. The body of a replace is not among them: it comes in before the stamp, may
  take 30 minutes, and does outlast the row the replace saw. `QueriesFail` is `TRUE` in every run: the query for
  lapsed rows may fail; only the theorem `OneFailureOneRow` asks that it does not.
* `lifecycle` has no hang-ups, with which it does not fit the time of a run; its theorems are for any.
* `overlap` has no delete: `turns` and `progress` have it, and with it the refinement does not fit the time of a run.
* `RetiredBytesGo` states its own conditions (`WritesInOrder`): a delete, or a lapse and a sweep, that falls between a
  sender's commit and its rename leaves bytes nobody will remove before the next boot, and so does a replace that
  changes the extension between another's lookup and DELETE. `progress` has one extension, so only the first occurs.
* `CleanStop` excepts requests whose context has ended: `TimeoutHandler` has answered for them, the drain does not
  wait, and the process may exit between such a handler's UPDATE and its rename. Of orphans it excepts a slug whose row
  lapsed while the body of a replace came in (`Outlived`): the sweeper may have that row in its snapshot, delete the
  renewed one and unlink under the old extension, and the new file stays until the next boot. Without the exception
  TLC finds this in `turns`.
* `tokens`: two commands are enough for two that refresh at once and for one that finds what the other left; two
  logins for a save of an old login over a new one. `Life = 2`, `Grace = 1`, `MaxNow = 2`: tokens of instant 0 are good
  at 0 and 1 and count as expired at 2. `Fallback = 3` is longer than the token lives: such a token is sent after its
  end and turned down at once, which `FreshIsAccepted` excepts (`NotOverrated`); it speaks of the answers that name a
  lifetime. `MaxLag = 0`: a lag multiplies the states by more than five, and the theorem has it. One login's user has no role;
  `Misissued` logins are turned down whenever they ask, and the theorem is for any set of them.
* `ttl`: `25w` is a product that wraps to a positive number, `3000` does not fit an int, `0` and `3` combine to texts
  at either side of `MaxHours`. `BuiltIn` has four weeks where the code has a year, so that the settings lie on both
  sides of it.
* Symmetry over slugs and over requests of a kind is used in safety runs only.

A deadlock is checked in every run. When nothing is in hand the process waits (`Idle`).

### Fairness

`FairSpec` gives weak fairness to each request's `Handle` (its next storage call returns; a body that trickles in
is cut off by `TimeoutHandler`), to the sweeper (its goroutine runs), to the clock up to its bound (so its ticker fires), to the boot passes, and to
`Listen`, `Drained` and `Exit` in `main`. It gives none to clients, signals, hang-ups, kills, or to
whoever starts the process; `LapsedRowGoes` and `RetiredBytesGo` assume instead that the process is left running
from some point on (`StaysUp`), and `StaleScratchGoes` that no pass of a boot is cut short by an error.

## What is proved

Every safety property that a passing run checks is also a theorem. About the server they hold for every set of slugs and
requests, every lifetime, clock, number of faults, crashes and SIGTERMs, and for either value of `Overlap` and
`Stalls` unless the table names one:

| Module | Theorem | States |
|---|---|---|
| `KSharedProofs` | `TypeCorrect` | `Spec => []TypeOK` |
| | `ControlHolds`, `OwnershipHolds` | `Spec => []Control`, `Spec => []Ownership` |
| | `InvHolds` | `Spec => []IInv` |
| | `UploadsAreDurable` | `Spec => []DurableUpload` |
| | `FailuresUndone` | `Spec => []FailedUploadUndone` |
| `LinkProofs` | `ServingHolds` | `Spec => [](IInv /\ Serving)` |
| | `ReadsAreFaithful` | `Spec => []ServedFaithful` |
| | `PromiseKept` | `Spec => KeepsPromise`: the server implements `LinkRegistry` |
| `RepairProofs` | `BootsRepair` | `Spec => BootRepairs`, an action property |
| | `ScheduleHolds` | `Spec => [](Control /\ Schedule)` |
| | `SweepsAreTimely` | `Spec => []SweptOnTime`, with `Stalls = FALSE` |
| | `OneFailureOneRow` | the rows overdue by a period are no more than the calls that failed, with `Stalls = FALSE` and `QueriesFail = FALSE` |
| `TurnProofs` | `TurnsHold` | `Spec => [](IInv /\ Turns)` |
| | `RowsDescribeFiles` | `Spec => []RowDescribesFile`, with `Overlap = FALSE` |
| `StopProofs` | `AccountsHold` | `Spec => []Accounts`, with the invariants it rests on |
| | `AnswersLeaveNoScratch` | `Spec => []AnsweredLeavesNoScratch` |
| | `StopsAreClean` | `Spec => CleanStop`; the property names `Overlap = FALSE` and `Stalls = FALSE` itself |

The assumptions are those the modules name (`KindsAreDisjoint`, `LimitsAreNumbers`, `ExtensionsAreKnown`,
`SentinelsAreApart`, `HandlerLimits`, `LifeLimits`): the kinds of requests and names do not mix, bounds are
numbers, the markers for "no row" and "no file" are no row and no file. TLC evaluates them in every run. The
hypotheses are needed: with `turns` changed to `Overlap = TRUE` TLC refutes
`RowDescribesFile` and, without its condition, `CleanStop`; with `Stalls = TRUE` `SweptOnTime`, and `CleanStop` without
its condition. `replace_clash` is what
two writers do to a link when they meet, and a storage call that takes longer than a lifetime puts a row into the table
that has lapsed already, behind the sweeper's snapshot.

`DurableUpload` is far from inductive, and the strengthening has four layers, each inductive once the ones before
it are known:

1. **Control**: types; which steps each kind of request can be at; a sender between its stream and its rename has
   its row and its scratch file; a request past its lookup has its slug; nothing is in flight while the process is
   down or in its boot passes. Proved action by action (`HandleControl` and its siblings).
2. **Ownership**: a slug is drawn by one upload; a row of the table is the row its sender built for that slug, and
   no longer changes; whatever names a slug came after its owner; *the sweeper holds rows that have lapsed, and for
   a slug nobody touched that row is its owner's*. The last part is why the sweeper, which deletes by slug, takes
   no live upload: it needs the monotonicity of the clock and of slugs (`ForwardStep`). Most steps are `Tame`
   (they build no row and name no slug), which leaves four to look at.
3. **Durability**: a scratch file holds its own request's bytes, and all of them once the stream has ended; a live,
   untouched upload has its row from its INSERT on, and its file from its rename on. `RowChanges` and
   `LinkFileChanges` say who can change either; Ownership rules each of them out: another upload finds the slug in
   use, a roll-back is its own upload's, a replace or delete would have touched it, the sweeper's entry has lapsed,
   and a boot pass takes only rows without a file and files without a row.
4. **Undone**: a roll-back begins after a failed call. If the upload's row is still there when it is over, a second
   call failed, or its context had ended. Ownership says that no other request can have put the row there.

What `DurableUpload` excepts is what the runs show to be lost: a name in `.partial` (`reaped_upload`), and a slug
that a replace or a delete was let through to (`sweep_race`, `replace_clash`, `replace_crash`).

The other properties of the server rest on five more invariants, of which runs check all but Repairs:

5. **Serving**, for what a GET sends. Whatever is under a slug's name, in any extension, is the whole body of a sender
   whose row was committed for that slug. A file comes there by a rename only (`SlugFileOrigin`), after its sender's
   INSERT or UPDATE, and a sender between the two holds its bytes by Durability. A row the GET has looked up names the
   slug it was asked for, and this outlives the row.
   *The refinement* builds on it. `LinksNow`, `LinksPast` and `Answers` map the server to the registry.
   A step either leaves the three as they are, or it is an INSERT (Publish), an UPDATE (Swap), a removal of a row by a
   roll-back, a delete, the sweeper or the last boot pass (Retire), or the open of a GET (Read)
   (`NextKinds`). Read asks that the bytes were shown by that link at some time: `SlugFilesOwn` says so.
6. **Repairs**, a step on the way to `BootRepairs`: after a second pass without an error no file is without its row.
   The third is alone with the directory too: it removes rows that lack a file, which takes no file's row away, and
   when it ends without an error every row has its file as well.
7. **Schedule**, for the sweeper. The next tick is at most a period away. A row that is not in the snapshot of a pass
   lapses so late that the next tick comes within a period of its end: `due < Expiry + MinTTL`. That takes rows that
   are alive when they are written (`Paced`), which a slow storage call would break and `Stalls = FALSE` grants.
   A replace whose body outlasts the row it saw writes a row that is alive, though the one it renews has lapsed.
   When calls fail the invariant is a number (`Counted`): a step leaves a row behind (`Left`) only by a DELETE or a
   query that fails, and a DELETE one row at most, because the pass goes on with the next (`SkipRow`). So the rows left
   behind are no more than the calls that failed, which is `OneFailureOneRow`.
8. **Turns**, for writers in turn. `Removing` needs no turns: after the DELETE of a row no row can come back under
   its slug while its file is removed, since an upload draws slugs never used or finds them in use, and a replace
   UPDATEs a row or nothing. With turns, one writer holds a slug (`OneWriter`); what it saw or wrote is what
   the table has, unless the sweeper has taken it (`RowsAsHeld`); and every row has its file, its own sender's, but
   between the UPDATE and the rename or after a death there (`RowsDescribe`). A boot may be killed between its first
   and its third pass, so that a row whose file in `.partial` was reaped stays until a later boot, while the process is
   down: TLC refuted a first version that excepted only the passes themselves.
9. **Accounts**, for a drained exit. It is a census. While no storage call failed, each scratch file belongs
   to a request in flight or one that died (`ScratchHeld`, which is `AnswersLeaveNoScratch`). If besides nothing died or
   hung up, writers take turns and storage calls are fast, each file under a slug's name is named by its row or is about
   to be removed by a replace that moved away from its extension, a delete, or the sweeper. Who removes goes by a row that was read
   earlier (`seen[q].ext`, `sweeping.row.ext`), so the census needs Turns, and that the sweeper's snapshot is still true
   (`SnapshotTrue`): it is, but for a slug whose row lapsed while a replace's body came in (`Outlived`),
   because an UPDATE of a replace that stamped its row in time finds the old one alive still (`Paced`).
   When the process exits by a drain nobody is in flight, so no scratch file is left and every file of another slug has
   its row.
   That every row has its file is `RowsDescribe`.

`AuthFileProofs` proves, for any number of logins, logouts and other commands, of failed calls and of kills, and for
a provider that replaces refresh tokens (`Rotates`) or does not:

| Theorem | States |
|---|---|
| `TokenInv` | `Spec => []AuthInv`, the inductive invariant of the others |
| `TokensTyped` | `Spec => []AuthTypeOK` |
| `CommandsInTurn` | `Spec => []TurnsKeepLogin` |
| `LossShows` | `Spec => []FileStaysUsable` |

It assumes that a command is of one kind (`CommandsDiffer`), that bounds are numbers (`TokenLimits`), that neither the
lag nor the grace period is longer than an access token lives nor the grace longer than the fallback (`LifeSpans`),
and that the other states of the file are no tokens (`MarksAreNoTokens`). Neither property is inductive: both speak of
the file alone, and in the middle of a refresh the current token is in the memory of a process. `AuthInv` says where it
is. `Fresh` and `Behind` bound what anybody can hold: no tokens of a login before it has ended, none newer than the last
refresh. `OneSaver` is for commands that overlap: the provider grants a refresh to the current token only, so at
most one command is between a refresh and the end of its save, and while there is one nobody else holds the current
token; when there is none and tokens of the login are on file, these are the current ones, or a command that had tokens of it
has failed or was killed. `FileTraced` says how the file came to be what it is: tokens on file were saved by a command that
went on with them, an empty file waits for its writer, or for ever if that one failed or was killed; bytes of two
writes are those of two commands, and of two that refresh one login one is refused. Whose tokens stay is up to the last
to write: the save of an older login may stand over a newer one, and no property says otherwise.
`InTurn` is for commands that do not: while `owed` is open nothing is promised, otherwise at most one runs, and it or
else the file has the current token of the login that is owed. Each part has a lemma (`TypeStep`, `FreshStep`, ...)
with a step per action.

`SessionProofs` proves, for any lifetime, lag, grace and fallback and any set of misissued or roleless logins:

| Theorem | States |
|---|---|
| `SessionIsAuthFile` | `SessionSpec => Spec`: with requests added, every theorem of `AuthFile` still holds |
| `RequestsTyped` | `SessionSpec => []RequestInv` |
| `GraceSuffices` | `SessionSpec => FreshIsAccepted` |

`RequestInv` is what `FreshIsAccepted` rests on: a command that took its tokens to be good did so at least the grace
period before the end it reckoned with (`Graced`), and that end is no later than the claim's but for the lag
(`NotOverrated`), unless the answer named no lifetime and tokens live shorter than the fallback: such tokens are
excepted, since the command sends them after their end. Two assumptions are added: `SetupsAreLogins` and `NothingIsNoReply`.

`ConfigProofs` proves, for any width of an int, any longest duration, any numbers and any texts an operator may write:

| Theorem | States |
|---|---|
| `WholeTTLsExact` | `ConfigSpec => []WholeTTLsAreExact`, for texts of any number of components |
| `LimitsHold` | `ConfigSpec => []LimitsAsMeant` |
| `BootedServers` | `ConfigSpec => []BootedServes` |

The length of a text is a sum over its components, a recursive function (`Sums`), and what is said of sums is an
induction over them. The induction rules of the library take a predicate as an operator and cannot be used, so it is put
as a least counterexample: a set of numbers that is not empty has a least one (`Smallest`, from the library's theorem
that `<` on the naturals is well-founded, which speaks of sets). By it the function that `Sums` chooses exists
(`SumsExist`) and yields integers (`SumsAre`), and a total of lengths is no less than any of them (`TotalBounds`). The
rewriting of a component without a fraction is exact if its product does not wrap (`ExpandIsExact`): digits that are no
int are left as they are, the standard parser refuses their unit, and such a text means more than the
longest duration, so it is refused either way. The invariant of the three is plain: the configuration is
what `LoadConfig` makes
of the environment, and a lifetime what `Lifetime` makes of the header, at any time after. Texts with
fractions are not exact (`ttl_fraction`), but what comes of them is an error or above zero (`TTLIsPositive`), which is
all `BootedServers` needs. `Tenths` is within `0..5` and one digit long, in the proofs as in the run.
Added assumptions: `EnvTextsAreTexts`, `NoneIsNoError`.

Only model-checked: the five liveness properties of `progress`. They are about fairness and ENABLED, which the provers do
not reach. What the six runs with a counterexample check is false, and stays with TLC.

## What is not modelled

* Power loss: with WAL and `synchronous=NORMAL` the last commits may be forgotten. A crash here is a kill.
* A statement whose context ends after SQLite committed it, so that the handler takes a success for a failure.
* Two processes over one data directory (the five-minute floor of `ReapPartials` shields an old one that still
  drains; the drain itself is 30 s).
* The bytes and headers of answers but for `Last-Modified`, content sniffing, size limits, the shape of slugs and the
  sanitising of names: a request that fails such a check is refused before it touches the store.
* `GET /api/files`: one SELECT, whose rows are those of one instant, and nothing changes; logging, health. The command line reads at most 64 KB of an
  answer, and so of a list; the length of an entry is not modelled.
* Signature, issuer and audience of a token are one verdict; the wording of a refusal is left out. (A comment at
  `client.go:28` counts a missing role among the reasons of a 401; the server answers 403.)
* The end of a refresh token by age or by an administrator: the provider refuses it as it does a used one, and the
  command fails with a sign.
* What the command line does with the server's other answers, its flags and its choice of server; the settings of the
  server that are strings or sizes; the schema upgrade; the packaging.

## Plan

1. `Store`, `Handlers`, `Sweeper`, `Boot`, `KShared`, `LinkRegistry`, with their runs; the layers of the inductive
   invariant, `UploadsAreDurable` and `FailuresUndone`. Done.
2. `AuthFile` and `Session`, with time, requests and their theorems. Done.
3. `TTL` and `Config` with their runs. Done.
4. Proofs of every safety property of the runs, the refinement of `LinkRegistry` and the induction over components.
   Done.
5. Left: a theorem on what `RetiredBytesGo` needs in one step (the file of a link that is retired has somebody to
   remove it, through crashes, which is the safety half of that property); the length of a list against the 64 KB that
   the command line reads; the schema upgrade.
