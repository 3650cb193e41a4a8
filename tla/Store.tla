------------------------------- MODULE Store -------------------------------
(***************************************************************************)
(* internal/store: the upload table of share.db and the flat files/ tree   *)
(* that sits beside it, with the clock both are stamped from.  Every       *)
(* operator below is one SQL statement or one file-system call: SQLite     *)
(* makes the first atomic, rename(2) and unlink(2) the second, and nothing *)
(* makes two of them atomic together.                                      *)
(*                                                                         *)
(* A request identifier stands for the bytes it sent and for the columns   *)
(* sniffed from them (original_filename, content_type, size); the other    *)
(* columns are what the queries and the file names depend on.              *)
(***************************************************************************)
EXTENDS Naturals, FiniteSets

CONSTANTS
  Slugs,        \* the slugs generateSlug can draw
  Uploads,      \* POST /api/upload requests, each sent once
  Replaces,     \* PUT /api/files/{slug} requests
  Deletes,      \* DELETE /api/files/{slug} requests
  Gets,         \* GET /s/{slug} requests
  Exts,         \* extensions a file name in files/ may end in
  PartialExt,   \* ".partial", the suffix of scratch files
  SentExts,     \* what sanitiseExt lets through from an uploader
  AskedTTLs,    \* lifetimes uploaders ask for
  MinTTL,       \* KSHARE_MIN_TTL
  MaxTTL,       \* KSHARE_MAX_TTL
  ReapAge,      \* the 5-minute floor of ReapPartials
  MaxNow,       \* bound: the last instant of the clock
  MaxFaults,    \* bound: storage calls that may fail in one behaviour
  NoRow,        \* no row has this slug
  NoFile        \* no directory entry has this name

Senders == Uploads \cup Replaces
Requests == Senders \cup Deletes \cup Gets

(***************************************************************************)
(* Kinds of requests and of names do not mix: a nonce is 16 hex digits, a  *)
(* slug 8 characters.                                                      *)
(***************************************************************************)
ASSUME KindsAreDisjoint ==
  /\ Uploads \cap Replaces = {}
  /\ Senders \cap Deletes = {}
  /\ (Senders \cup Deletes) \cap Gets = {}
  /\ Slugs \cap Senders = {}

\* ParseTTL refuses a lifetime that is not positive, loadConfig MinTTL > MaxTTL.
ASSUME LimitsAreNumbers ==
  /\ MinTTL \in Nat \ {0} /\ MaxTTL \in Nat /\ MinTTL <= MaxTTL
  /\ AskedTTLs \subseteq Nat
  /\ ReapAge \in Nat /\ MaxNow \in Nat /\ MaxFaults \in Nat

ASSUME ExtensionsAreKnown == PartialExt \in Exts /\ SentExts \subseteq Exts

(***************************************************************************)
(* One row of the upload table, one regular file.  "whole" is FALSE while  *)
(* io.Copy is still writing the file, and for ever when the process dies   *)
(* before it ends.                                                         *)
(***************************************************************************)
Row == [ext: Exts, body: Senders, at: 0..MaxNow, ttl: AskedTTLs]
File == [body: Senders, whole: BOOLEAN, mtime: 0..MaxNow]

ASSUME SentinelsAreApart == NoRow \notin Row /\ NoFile \notin File

\* <slug><ext>, the name behind a link, and <nonce>.partial, a scratch name.
DiskName(s, e) == <<s, e>>
PartialName(r) == <<r, PartialExt>>
SlugNames == Slugs \X Exts
PartialNames == Senders \X {PartialExt}
Names == SlugNames \cup PartialNames

\* strings.HasSuffix(name, ".partial")
IsPartial(n) == n[2] = PartialExt

VARIABLES
  rows,    \* the upload table: the row of each slug, or NoRow
  files,   \* files/: what each name holds, or NoFile
  now,     \* the clock
  faults   \* storage calls that have failed so far

storeVars == <<rows, files, now, faults>>

StoreTypeOK ==
  /\ rows \in [Slugs -> Row \cup {NoRow}]
  /\ files \in [Names -> File \cup {NoFile}]
  /\ now \in 0..MaxNow
  /\ faults \in 0..MaxFaults

StoreInit ==
  /\ rows = [s \in Slugs |-> NoRow]
  /\ files = [n \in Names |-> NoFile]
  /\ now = 0
  /\ faults = 0

\* One storage call returns an error and leaves everything as it was.
Fault == faults < MaxFaults /\ faults' = faults + 1

-----------------------------------------------------------------------------
(* SQL statements.                                                         *)

Expiry(row) == row.at + row.ttl

\* The WHERE clause of the sweeper's query: at or before now.
Lapsed(row) == Expiry(row) <= now

\* The WHERE clause of the readers' queries.
IsFound(s) == rows[s] # NoRow /\ Expiry(rows[s]) > now

\* INSERT, accepted when the slug is free.
InsertRow(s, row) == rows[s] = NoRow /\ rows' = [rows EXCEPT ![s] = row]

\* Mutant: an upsert, which brings a deleted row back.
ReplaceRowUpserts(s, row) == rows' = [rows EXCEPT ![s] = row]

\* UPDATE ... WHERE slug: whatever row has the slug, lapsed or not.
ReplaceRow(s, row) == rows[s] # NoRow /\ rows' = [rows EXCEPT ![s] = row]

\* DELETE ... WHERE slug: whatever row has the slug.
DeleteRow(s) == rows' = [rows EXCEPT ![s] = NoRow]

-----------------------------------------------------------------------------
(* File operations.                                                        *)

\* O_EXCL create of a scratch file, which then grows.
CreateFile(n, r) ==
  /\ files[n] = NoFile
  /\ files' = [files EXCEPT ![n] = [body |-> r, whole |-> FALSE, mtime |-> now]]

\* The copy reached the end of the body and the file was closed.
FinishFile(n, r) ==
  files' = [files EXCEPT ![n] = [body |-> r, whole |-> TRUE, mtime |-> now]]

\* A missing file is as good as a removed one.
RemoveFile(n) == files' = [files EXCEPT ![n] = NoFile]

\* rename(2): the target is replaced in the same instant.
RenameFile(from, to) ==
  /\ files[from] # NoFile
  /\ files' = [files EXCEPT ![to] = files[from], ![from] = NoFile]

\* A removal whose error is only logged.
TryRemove(n) ==
  \/ RemoveFile(n) /\ UNCHANGED faults
  \/ Fault /\ UNCHANGED files

\* Time passes for every process alike.
Tick ==
  /\ now < MaxNow
  /\ now' = now + 1
  /\ UNCHANGED <<rows, files, faults>>
=============================================================================
