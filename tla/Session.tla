------------------------------- MODULE Session -------------------------------
(***************************************************************************)
(* A command's request to kshared: newRequest and doJSON of cmd/cli, and   *)
(* the token check of cmd/server/auth.go.                                  *)
(*                                                                         *)
(* The server checks a token by itself, against the issuer's keys: it asks *)
(* nobody whether the login was revoked or has logged out, and what it     *)
(* goes by is the claim in the token, where the command goes by the time   *)
(* it wrote to auth.json.                                                  *)
(***************************************************************************)
EXTENDS AuthFile

CONSTANTS
  Misissued,  \* logins whose access tokens lack the audience, or are no JWT
  Roleless    \* logins of users without the role "upload"

Replies == {"ok", "unauthorized", "forbidden", "unreachable"}

ASSUME SetupsAreLogins == Misissued \subseteq Logins /\ Roleless \subseteq Logins
ASSUME NothingIsNoReply == Nothing \notin Replies

VARIABLES
  reply,   \* what the server said to a command's request, or Nothing
  since    \* history: when the command took the tokens it has to be good

sessionVars == <<vars, reply, since>>

SessionTypeOK ==
  /\ reply \in [Uses -> Replies \cup {Nothing}]
  /\ since \in [Uses -> 0..MaxNow]

SessionInit ==
  /\ Init
  /\ reply = [c \in Uses |-> Nothing]
  /\ since = [c \in Uses |-> 0]

\* A command gets hold of its token.
Authorise ==
  /\ Step
  /\ since' = [c \in Uses |->
                 IF pc[c] \in {"new", "refreshing"} /\ pc'[c] # pc[c]
                   THEN now ELSE since[c]]
  /\ UNCHANGED reply

\* op.VerifyAccessToken and the audience.
Verified(t) == t.login \notin Misissued /\ now < t.exp

\* authenticator.require, before the handler of the route.
Verdict(t) ==
  IF ~Verified(t) THEN "unauthorized"
  ELSE IF t.login \in Roleless THEN "forbidden" ELSE "ok"

\* The request reaches the server, or not.
Ask(c) ==
  /\ pc[c] = "ready" /\ reply[c] = Nothing
  /\ \E r \in {Verdict(held[c]), "unreachable"} : reply' = [reply EXCEPT ![c] = r]
  /\ UNCHANGED <<vars, since>>

Through ==
  /\ \A c \in Commands : pc[c] \in Ended
  /\ \A c \in Uses : pc[c] = "ready" => reply[c] # Nothing
  /\ UNCHANGED sessionVars

SessionNext == Authorise \/ (\E c \in Uses : Ask(c)) \/ Through

SessionSpec == SessionInit /\ [][SessionNext]_sessionVars

-----------------------------------------------------------------------------
\* The command takes the token to live no longer than its claim says, but for
\* the way its answer took: always if the answer named a lifetime, and with the
\* fallback if tokens live that long.
NotOverrated(t) == t.until <= t.exp + MaxLag

(***************************************************************************)
(* "A 401 after newRequest already refreshed means ... the server is       *)
(* rejecting it": a token of a sound login is turned down only for its     *)
(* age, and then the time since the command took it to be good, and the    *)
(* most an answer takes, add up to the grace period.  A token that lives   *)
(* shorter than the fallback taken for an answer that names no lifetime is *)
(* excepted: that one is sent, and turned down, after its end.             *)
(***************************************************************************)
FreshIsAccepted ==
  [][\A c \in Uses :
       (/\ reply[c] = Nothing /\ reply'[c] = "unauthorized"
        /\ held[c].login \notin Misissued
        /\ NotOverrated(held[c]))
         => now + MaxLag >= since[c] + Grace]_sessionVars
=============================================================================
