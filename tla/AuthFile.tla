------------------------------ MODULE AuthFile ------------------------------
(***************************************************************************)
(* The command line's tokens: cmd/cli/auth.go, and newRequest in           *)
(* client.go.                                                              *)
(*                                                                         *)
(* Every kshare command is a process of its own.  All of a user's commands *)
(* share auth.json, which is truncated and written in place, and the       *)
(* session a login opened with the identity provider, which hands out a    *)
(* new refresh token with every refresh and takes a used one for a sign of *)
(* theft.                                                                  *)
(***************************************************************************)
EXTENDS Naturals

CONSTANTS
  Logins,    \* runLogin
  Logouts,   \* runLogout
  Uses,      \* upload, replace, list, delete and runStatus
  Absent,    \* auth.json does not exist
  Empty,     \* it has been truncated
  Garbled,   \* its bytes are no JSON: of two writes, or half of one
  NoToken,   \* the provider gave no refresh token
  Nothing,   \* the command has no tokens in memory
  Rotates,   \* the provider replaces the refresh token at each refresh
  Life,      \* how long an access token is good
  MaxLag,    \* an answer reaches the command at most so much after the claim
  Grace,     \* a token this close to its end is refreshed: 30 s
  Fallback,  \* the lifetime taken for a refresh that names none: 5 min
  MaxNow,    \* bound: the clock
  MaxFaults, \* bound: calls that fail
  MaxKills   \* bound: commands that are killed

Commands == Logins \cup Logouts \cup Uses

ASSUME CommandsDiffer ==
  Logins \cap Logouts = {} /\ Logins \cap Uses = {} /\ Logouts \cap Uses = {}
ASSUME TokenLimits ==
  Rotates \in BOOLEAN /\ MaxFaults \in Nat /\ MaxKills \in Nat /\ NoToken \notin Nat
ASSUME LifeSpans ==
  /\ Life \in Nat /\ MaxLag \in 0..Life /\ MaxNow \in Nat
  /\ Grace \in 0..Life /\ Fallback \in Nat /\ Grace <= Fallback

\* The login the tokens come from, when the access token ends (its claim exp),
\* the number of refreshes before the refresh token, and ExpiresAt, when the
\* command takes the access token to end.  Issuer, audience and server never
\* change while the file lives.
TokenFile == [login : Logins, exp : Nat, refresh : Nat \cup {NoToken}, until : Nat]

ASSUME MarksAreNoTokens ==
  /\ {Absent, Empty, Garbled, Nothing} \cap TokenFile = {}
  /\ Absent \notin {Empty, Garbled, Nothing} /\ Empty # Garbled
  /\ {Absent, Nothing} \cap Logins = {}

VARIABLES
  file,     \* auth.json
  opened,   \* commands that hold a descriptor of the file that has that name
  pc,       \* where each command is
  held,     \* "t": the tokens a command has in memory
  owed,     \* history: the login auth.json is to have, Absent if none,
            \* Nothing if commands that met, failed or were killed left it open
  now,
  faults, kills,
  issued,   \* the provider: refreshes it has granted, per login
  revoked   \* logins whose tokens it refuses

providerVars == <<issued, revoked>>
vars == <<file, opened, pc, held, owed, now, faults, kills, providerVars>>

Running == {"refreshing", "saving", "writing"}

\* As far as auth.json goes: at "ready" a command has a token for its request.
Ended == {"done", "ready", "notLoggedIn", "failed", "killed"}

Init ==
  /\ file = Absent /\ opened = {}
  /\ pc = [c \in Commands |-> "new"]
  /\ held = [c \in Commands |-> Nothing]
  /\ owed = Absent /\ now = 0 /\ faults = 0 /\ kills = 0
  /\ issued = [l \in Logins |-> 0]
  /\ revoked = {}

Goto(c, step) == pc' = [pc EXCEPT ![c] = step]
Fault == faults < MaxFaults /\ faults' = faults + 1

\* What is on file is open from here on, except that nobody can have tokens
\* when there are none.
Upset == IF owed = Absent THEN Absent ELSE Nothing

\* A command starts.  Alone, it leaves the file owing what it should; if
\* others are under way, they meet.
Starts(c, owing) ==
  /\ pc[c] = "new"
  /\ owed' = IF \A d \in Commands : pc[d] \notin Running THEN owing ELSE Upset

-----------------------------------------------------------------------------
(* The provider, and time.                                                 *)

Accepts(t) == t.login \notin revoked /\ (Rotates => t.refresh = issued[t.login])

\* An access token that ends when ends says, as the command reads its answer.
Lasting(t, lag, u) == [t EXCEPT !.exp = now + Life - lag, !.until = u]

Access(t, ends) == {Lasting(t, lag, u) : lag \in 0..MaxLag, u \in ends}

\* The answer may say how long the access token lives, or not.
FirstTokens(l) ==
  UNION {Access([login |-> l, exp |-> 0, refresh |-> r, until |-> 0], {now + Life, now}) :
           r \in {0, NoToken}}

Granted(t) ==
  Access([t EXCEPT !.refresh = IF Rotates THEN issued[t.login] + 1 ELSE @],
         {now + Life, now + Fallback})

Grant(t) ==
  /\ Accepts(t)
  /\ issued' = [issued EXCEPT ![t.login] = @ + 1]
  /\ UNCHANGED revoked

\* A refresh token that was used before takes all of its login with it.
Refuse(t) ==
  /\ ~Accepts(t)
  /\ revoked' = revoked \cup {t.login}
  /\ UNCHANGED issued

Tick ==
  /\ now < MaxNow
  /\ now' = now + 1
  /\ UNCHANGED <<file, opened, pc, held, owed, faults, kills, providerVars>>

\* Mutant: a token is used to its last instant.
ExpiredLate(t) == now > t.until

Expired(t) == now + Grace > t.until

-----------------------------------------------------------------------------
(* Commands.                                                               *)

\* The device flow, which its user may deny or let run out.
LogIn(l) ==
  /\ l \in Logins
  /\ \/ /\ Starts(l, l)
        /\ \E t \in FirstTokens(l) : held' = [held EXCEPT ![l] = t]
        /\ Goto(l, "saving")
     \/ Starts(l, owed) /\ Goto(l, "failed") /\ UNCHANGED held
  /\ UNCHANGED <<file, opened, now, faults, kills, providerVars>>

\* deleteTokens: whoever still writes, writes to a file without a name.
LogOut(c) ==
  /\ c \in Logouts
  /\ \/ /\ Starts(c, Absent)
        /\ file' = Absent /\ opened' = {}
        /\ Goto(c, "done") /\ UNCHANGED faults
     \/ Starts(c, owed) /\ Fault /\ Goto(c, "failed") /\ UNCHANGED <<file, opened>>
  /\ UNCHANGED <<held, now, kills, providerVars>>

\* Mutant: a file that does not parse is taken as it is.
LoadUnparsed(c) ==
  /\ c \in Uses /\ Starts(c, owed)
  /\ \/ file = Absent /\ Goto(c, "notLoggedIn") /\ UNCHANGED held
     \/ /\ file # Absent
        /\ held' = [held EXCEPT ![c] = file]
        /\ Goto(c, "ready")
  /\ UNCHANGED <<file, opened, now, faults, kills, providerVars>>

\* loadTokens, then what ensureFreshAccessToken decides without a call.
Load(c) ==
  /\ c \in Uses /\ Starts(c, owed)
  /\ \/ file = Absent /\ Goto(c, "notLoggedIn") /\ UNCHANGED held
     \/ file \in {Empty, Garbled} /\ Goto(c, "failed") /\ UNCHANGED held
     \/ /\ file \in TokenFile
        /\ held' = [held EXCEPT ![c] = file]
        /\ Goto(c, IF ~Expired(file) THEN "ready"
                   ELSE IF file.refresh = NoToken THEN "notLoggedIn" ELSE "refreshing")
  /\ UNCHANGED <<file, opened, now, faults, kills, providerVars>>

\* Mutant: only the access token is taken over from the answer.
RefreshAccessOnly(c) ==
  /\ pc[c] = "refreshing"
  /\ Grant(held[c])
  /\ \E t \in Granted(held[c]) : held' = [held EXCEPT ![c] = [t EXCEPT !.refresh = held[c].refresh]]
  /\ Goto(c, "saving")
  /\ UNCHANGED <<file, opened, owed, now, faults, kills>>

Refresh(c) ==
  /\ pc[c] = "refreshing"
  /\ Grant(held[c])
  /\ \E t \in Granted(held[c]) : held' = [held EXCEPT ![c] = t]
  /\ Goto(c, "saving")
  /\ UNCHANGED <<file, opened, owed, now, faults, kills>>

\* The command never hears of its refresh: the provider granted it, refused it
\* and its whole login, or has not seen it.
Unheard(c) ==
  \/ Grant(held[c]) /\ owed' = Upset
  \/ Refuse(held[c]) /\ UNCHANGED owed
  \/ UNCHANGED <<providerVars, owed>>

\* The provider is out of reach, or its answer: runStatus gives it 8 s and stops
\* at Ctrl-C.
RefreshUnanswered(c) ==
  /\ pc[c] = "refreshing" /\ Fault
  /\ Unheard(c)
  /\ Goto(c, "failed")
  /\ UNCHANGED <<file, opened, held, now, kills>>

RefreshRefused(c) ==
  /\ pc[c] = "refreshing"
  /\ Refuse(held[c])
  /\ Goto(c, "failed")
  /\ UNCHANGED <<file, opened, held, owed, now, faults, kills>>

\* A call of saveTokens fails, and with it the command.
SaveFails(c) == Fault /\ Goto(c, "failed") /\ owed' = Upset

\* Mutant: the command goes on although its tokens were not saved.
SaveOpensQuietly(c) ==
  /\ pc[c] = "saving"
  /\ \/ file' = Empty /\ opened' = opened \cup {c}
        /\ Goto(c, "writing") /\ UNCHANGED <<faults, owed>>
     \/ /\ Fault /\ Goto(c, IF c \in Uses THEN "ready" ELSE "done")
        /\ UNCHANGED <<file, opened, owed>>
  /\ UNCHANGED <<held, now, kills, providerVars>>

\* saveTokens is os.WriteFile: the open truncates, the write comes after it.
SaveOpens(c) ==
  /\ pc[c] = "saving"
  /\ \/ /\ file' = Empty /\ opened' = opened \cup {c}
        /\ Goto(c, "writing") /\ UNCHANGED <<faults, owed>>
     \/ SaveFails(c) /\ UNCHANGED <<file, opened>>
  /\ UNCHANGED <<held, now, kills, providerVars>>

\* Over bytes another command wrote since the open, a shorter text leaves the
\* end of the longer one.
SaveWrites(c) ==
  /\ pc[c] = "writing"
  /\ \/ /\ file' \in IF c \notin opened THEN {file}
                     ELSE IF file = Empty THEN {held[c]} ELSE {held[c], Garbled}
        /\ Goto(c, IF c \in Uses THEN "ready" ELSE "done")
        /\ UNCHANGED <<faults, owed>>
     \/ /\ file' \in IF c \notin opened THEN {file} ELSE {file, Garbled}
        /\ SaveFails(c)
  /\ opened' = opened \ {c}
  /\ UNCHANGED <<held, now, kills, providerVars>>

\* Ctrl-C, or the machine goes down.
Kill(c) ==
  /\ pc[c] \in Running /\ kills < MaxKills
  /\ kills' = kills + 1
  /\ \/ pc[c] = "refreshing" /\ Unheard(c)
     \/ pc[c] # "refreshing" /\ owed' = Upset /\ UNCHANGED providerVars
  /\ opened' = opened \ {c}
  /\ Goto(c, "killed")
  /\ UNCHANGED <<file, held, now, faults>>

Step ==
  \/ \E l \in Logins : LogIn(l)
  \/ \E c \in Logouts : LogOut(c)
  \/ \E c \in Uses : Load(c) \/ Refresh(c) \/ RefreshUnanswered(c) \/ RefreshRefused(c)
  \/ \E c \in Commands : SaveOpens(c) \/ SaveWrites(c) \/ Kill(c)
  \/ Tick

AllEnded == (\A c \in Commands : pc[c] \in Ended) /\ UNCHANGED vars

Next == Step \/ AllEnded

Spec == Init /\ [][Next]_vars

-----------------------------------------------------------------------------
AuthTypeOK ==
  /\ file \in TokenFile \cup {Absent, Empty, Garbled}
  /\ opened \subseteq Commands /\ revoked \subseteq Logins
  /\ owed \in Logins \cup {Absent, Nothing}
  /\ pc \in [Commands -> {"new"} \cup Running \cup Ended]
  /\ held \in [Commands -> TokenFile \cup {Nothing}]
  /\ now \in 0..MaxNow /\ faults \in 0..MaxFaults /\ kills \in 0..MaxKills
  /\ issued \in [Logins -> Nat]

Usable(t) == t.refresh # NoToken => Accepts(t)

(***************************************************************************)
(* Commands that run one after the other keep the login: whenever they are *)
(* through, auth.json has tokens of the last login that succeeded, with a  *)
(* refresh token the provider takes if it gave one, or is gone if a logout *)
(* came after it.  This is the README's "refresh-on-expiry is automatic".  *)
(* A lone login or logout mends whatever commands that met, failed or were *)
(* killed have done; a denied login, a failed logout or a refresh that did *)
(* not reach the provider does no harm.                                    *)
(***************************************************************************)
TurnsKeepLogin ==
  (\A c \in Commands : pc[c] \notin Running) =>
    /\ owed \in Logins => file \in TokenFile /\ file.login = owed /\ Usable(file)
    /\ owed = Absent => file = Absent

\* A command that had tokens of this login failed, and said so, or was killed.
Harmed(l) ==
  \E c \in Commands :
    held[c] # Nothing /\ held[c].login = l /\ pc[c] \in {"failed", "killed"}

(***************************************************************************)
(* What commands that overlap may do to auth.json.  Once all are through,  *)
(* tokens on file are usable, unless the login they are of was harmed: no  *)
(* command that succeeds leaves a used refresh token there.  Whose tokens  *)
(* they are is up to the last to write: a refresh of an older login may    *)
(* stand over a newer one.  The file is empty only if some login was       *)
(* harmed.  It is garbled only then, or if two commands saved: where the   *)
(* provider rotates, of different logins, for of two that refresh the same *)
(* login one fails.                                                        *)
(***************************************************************************)
FileStaysUsable ==
  (\A c \in Commands : pc[c] \notin Running) =>
    /\ file \in TokenFile => Usable(file) \/ Harmed(file.login)
    /\ file = Empty => \E l \in Logins : Harmed(l)
    /\ file = Garbled =>
         \/ \E l \in Logins : Harmed(l)
         \/ \E c, d \in Commands :
              /\ c # d /\ held[c] # Nothing /\ held[d] # Nothing
              /\ Rotates => held[c].login # held[d].login
=============================================================================
