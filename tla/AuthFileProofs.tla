--------------------------- MODULE AuthFileProofs ---------------------------
(***************************************************************************)
(* Proofs about the command line's tokens, for any number of logins and    *)
(* commands, of failed calls and of kills, and for a provider that         *)
(* replaces refresh tokens or does not.                                    *)
(***************************************************************************)
EXTENDS AuthFile, TLAPS

\* A command that has tokens of a login, and one that is to save them.
Of(c, l) == held[c] # Nothing /\ held[c].login = l
Saves(c, l) == pc[c] \in {"saving", "writing"} /\ Of(c, l)
OnFile(l) == file \in TokenFile /\ file.login = l

Steps ==
  \A c \in Commands :
    /\ pc[c] \in Running => held[c] # Nothing
    /\ pc[c] = "refreshing" => c \in Uses
    /\ pc[c] \in Running /\ c \in Uses => held[c].refresh # NoToken

\* Until a login is over, nobody else has tokens of it.
Fresh ==
  \A l \in Logins :
    /\ held[l] # Nothing => held[l].login = l
    /\ pc[l] # "done" =>
         issued[l] = 0 /\ l \notin revoked /\ ~OnFile(l) /\ \A c \in Commands \ {l} : ~Of(c, l)

\* No refresh token is newer than the last refresh.
NotAhead(t) == t.refresh = NoToken \/ t.refresh <= issued[t.login]
Behind ==
  /\ file \in TokenFile => NotAhead(file)
  /\ \A c \in Commands : held[c] # Nothing => NotAhead(held[c])

Current(t) == t.refresh = NoToken \/ (Rotates => t.refresh = issued[t.login])

(***************************************************************************)
(* Among commands that overlap, at most one is to save tokens of a login.  *)
(* It has the current one, and nobody else has; otherwise the file has it, *)
(* or a command has failed.                                                *)
(***************************************************************************)
OneSaver ==
  \A l \in Logins :
    /\ l \in revoked => Harmed(l)
    /\ Rotates => \A c \in Commands : Saves(c, l) =>
         /\ Current(held[c])
         /\ \A d \in Commands : Saves(d, l) => d = c
         /\ OnFile(l) => file.refresh # issued[l]
         /\ \A d \in Commands : pc[d] = "refreshing" /\ Of(d, l) => held[d].refresh # issued[l]
         /\ pc[c] = "writing" => ~OnFile(l)
    /\ OnFile(l) => Current(file) \/ Harmed(l) \/ \E c \in Commands : Saves(c, l)

(***************************************************************************)
(* While the file owes a login, one place has the provider's current token *)
(* of it: the one command that saves it, or else the file.  While it owes  *)
(* none, nobody has any.                                                   *)
(***************************************************************************)
InTurn ==
  /\ owed = Absent => file = Absent /\ \A c \in Commands : pc[c] \notin Running
  /\ owed \in Logins =>
       /\ owed \notin revoked
       /\ \A c, d \in Commands : pc[c] \in Running /\ pc[d] \in Running => c = d
       /\ (\A c \in Commands : pc[c] \notin {"saving", "writing"})
            => file \in TokenFile /\ file.login = owed /\ Current(file)
       /\ \A c \in Commands :
            /\ pc[c] = "refreshing" => held[c] = file
            /\ pc[c] \in {"saving", "writing"} => held[c].login = owed /\ Current(held[c])
            /\ pc[c] = "writing" => file = Empty /\ c \in opened

(***************************************************************************)
(* How auth.json came to be what it is: tokens on file were saved by a     *)
(* command that went on with them, an empty file waits for its writer or   *)
(* for ever, and bytes of two writes are those of two commands.            *)
(***************************************************************************)
SomeHarmed == \E l \in Logins : Harmed(l)

Crossed ==
  \E c, d \in Commands :
    /\ c # d /\ held[c] # Nothing /\ held[d] # Nothing
    /\ Rotates => held[c].login # held[d].login

NewHaveNone == \A c \in Commands : pc[c] = "new" => held[c] = Nothing

FileTraced ==
  /\ \A c \in opened : pc[c] = "writing"
  /\ file = Absent => opened = {}
  /\ file \in TokenFile => \E d \in Commands : held[d] = file /\ pc[d] \in {"done", "ready"}
  /\ file = Empty => opened # {} \/ SomeHarmed
  /\ file = Garbled => SomeHarmed \/ Crossed

AuthInv ==
  /\ AuthTypeOK /\ Steps /\ Fresh /\ Behind /\ OneSaver /\ InTurn
  /\ NewHaveNone /\ FileTraced

-----------------------------------------------------------------------------
\* An access token changes when a token ends, and nothing else of it.
LEMMA AccessToken ==
  ASSUME NEW t \in TokenFile, NEW ends \in SUBSET Nat, now \in Nat, NEW g \in Access(t, ends)
  PROVE  /\ g \in TokenFile /\ g.login = t.login /\ g.refresh = t.refresh
         /\ g.until \in ends
<1>1. PICK lag \in 0..MaxLag, u \in ends : g = Lasting(t, lag, u)
  BY DEF Access
<1>2. t = [login |-> t.login, exp |-> t.exp, refresh |-> t.refresh, until |-> t.until]
      /\ t.login \in Logins /\ t.refresh \in Nat \cup {NoToken}
  BY DEF TokenFile
<1>3. now + Life - lag \in Nat /\ u \in Nat
  BY <1>1, LifeSpans
<1> QED BY <1>1, <1>2, <1>3 DEF TokenFile, Lasting

\* A login's answer has tokens of that login.
LEMMA FirstToken ==
  ASSUME now \in Nat, NEW l \in Logins, NEW t \in FirstTokens(l)
  PROVE  t \in TokenFile /\ t.login = l /\ t.refresh \in {0, NoToken}
<1>1. PICK r \in {0, NoToken} :
        t \in Access([login |-> l, exp |-> 0, refresh |-> r, until |-> 0], {now + Life, now})
  BY DEF FirstTokens
<1>2. [login |-> l, exp |-> 0, refresh |-> r, until |-> 0] \in TokenFile
  BY DEF TokenFile
<1>3. {now + Life, now} \in SUBSET Nat
  BY LifeSpans
<1> QED BY <1>1, <1>2, <1>3, AccessToken

\* A refresh answers with tokens of the same login, good for the grace period.
LEMMA GrantedToken ==
  ASSUME now \in Nat, issued \in [Logins -> Nat], NEW t \in TokenFile, NEW g \in Granted(t)
  PROVE  /\ g \in TokenFile /\ g.login = t.login
         /\ g.refresh = IF Rotates THEN issued[t.login] + 1 ELSE t.refresh
         /\ now + Grace <= g.until
<1> DEFINE s == [t EXCEPT !.refresh = IF Rotates THEN issued[t.login] + 1 ELSE @]
<1>1. t = [login |-> t.login, exp |-> t.exp, refresh |-> t.refresh, until |-> t.until]
      /\ t.login \in Logins /\ t.exp \in Nat /\ t.until \in Nat /\ t.refresh \in Nat \cup {NoToken}
  BY DEF TokenFile
<1>2. issued[t.login] + 1 \in Nat
  BY <1>1
<1>3. s \in TokenFile /\ s.login = t.login
      /\ s.refresh = IF Rotates THEN issued[t.login] + 1 ELSE t.refresh
  BY <1>1, <1>2 DEF TokenFile
<1>4. {now + Life, now + Fallback} \in SUBSET Nat
      /\ \A u \in {now + Life, now + Fallback} : now + Grace <= u
  BY LifeSpans
<1>5. g \in Access(s, {now + Life, now + Fallback})
  BY DEF Granted
<1> HIDE DEF s
<1>6. /\ g \in TokenFile /\ g.login = s.login /\ g.refresh = s.refresh
      /\ g.until \in {now + Life, now + Fallback}
  BY <1>3, <1>4, <1>5, AccessToken
<1> QED BY <1>3, <1>4, <1>6

\* Nobody has logged in.
LEMMA AuthInit == Init => AuthInv
BY CommandsDiffer, TokenLimits, LifeSpans, MarksAreNoTokens
DEF Init, AuthInv, AuthTypeOK, Steps, Fresh, Behind, OneSaver, InTurn, Running, Ended, Commands,
    Of, Saves, Harmed, OnFile, NewHaveNone, FileTraced

\* Whatever became of a refresh nobody heard of, the provider keeps count.
LEMMA UnheardCounts ==
  ASSUME AuthTypeOK, Steps, NEW c \in Commands, pc[c] = "refreshing", Unheard(c)
  PROVE  /\ issued' \in [Logins -> Nat] /\ revoked' \subseteq Logins
         /\ owed' \in Logins \cup {Absent, Nothing}
<1>1. held[c].login \in Logins
  BY DEF AuthTypeOK, Steps, Running, TokenFile
<1>2. CASE Grant(held[c]) /\ owed' = Upset
  BY <1>1, <1>2 DEF Grant, Upset, AuthTypeOK
<1>3. CASE Refuse(held[c]) /\ UNCHANGED owed
  BY <1>1, <1>3 DEF Refuse, AuthTypeOK
<1>4. CASE UNCHANGED <<providerVars, owed>>
  BY <1>4 DEF providerVars, AuthTypeOK
<1> QED BY <1>2, <1>3, <1>4 DEF Unheard

\* Types hold: only a command that has tokens refreshes or saves.
LEMMA TypeStep ==
  ASSUME AuthTypeOK, Steps, [Next]_vars
  PROVE  AuthTypeOK' /\ Steps'
<1> USE CommandsDiffer, TokenLimits, LifeSpans, MarksAreNoTokens
<1> USE DEF AuthTypeOK, Steps, Commands, Running, Ended, providerVars
<1>1. ASSUME NEW l \in Logins, LogIn(l)
      PROVE  AuthTypeOK' /\ Steps'
  <2>1. \A t \in FirstTokens(l) : t \in TokenFile /\ t.login = l /\ t.refresh \in {0, NoToken}
    BY FirstToken DEF AuthTypeOK
  <2> QED BY <1>1, <2>1 DEF LogIn, Starts, Upset, Goto
<1>2. ASSUME Tick
      PROVE  AuthTypeOK' /\ Steps'
  BY <1>2 DEF Tick
<1>3. ASSUME NEW c \in Logouts, LogOut(c)
      PROVE  AuthTypeOK' /\ Steps'
  BY <1>3 DEF LogOut, Starts, Upset, Goto, Fault
<1>4. ASSUME NEW c \in Uses, Load(c)
      PROVE  AuthTypeOK' /\ Steps'
  BY <1>4 DEF Load, Starts, Upset, Goto
<1>5. ASSUME NEW c \in Uses, Refresh(c)
      PROVE  AuthTypeOK' /\ Steps'
  <2>1. held[c] \in TokenFile /\ held[c].login \in Logins
    BY <1>5 DEF Refresh, Steps, AuthTypeOK, Commands, Running, TokenFile
  <2>2. PICK t \in Granted(held[c]) : held' = [held EXCEPT ![c] = t]
    BY <1>5 DEF Refresh
  <2>3. /\ t \in TokenFile /\ t.login = held[c].login
        /\ t.refresh = IF Rotates THEN issued[t.login] + 1 ELSE held[c].refresh
    BY <2>1, <2>2, GrantedToken DEF AuthTypeOK
  <2>4. t.refresh # NoToken
    BY <2>1, <2>3, <1>5 DEF Refresh
  <2> QED BY <1>5, <2>1, <2>2, <2>3, <2>4 DEF Refresh, Grant, Goto
<1>6. ASSUME NEW c \in Uses, RefreshUnanswered(c)
      PROVE  AuthTypeOK' /\ Steps'
  BY <1>6, UnheardCounts DEF RefreshUnanswered, Goto, Fault
<1>7. ASSUME NEW c \in Uses, RefreshRefused(c)
      PROVE  AuthTypeOK' /\ Steps'
  <2>1. held[c].login \in Logins
    BY <1>7 DEF RefreshRefused, TokenFile
  <2> QED BY <1>7, <2>1 DEF RefreshRefused, Refuse, Goto
<1>8. ASSUME NEW c \in Commands, SaveOpens(c)
      PROVE  AuthTypeOK' /\ Steps'
  BY <1>8 DEF SaveOpens, SaveFails, Upset, Goto, Fault
<1>9. ASSUME NEW c \in Commands, SaveWrites(c)
      PROVE  AuthTypeOK' /\ Steps'
  BY <1>9 DEF SaveWrites, SaveFails, Upset, Goto, Fault
<1>10. ASSUME NEW c \in Commands, Kill(c)
      PROVE  AuthTypeOK' /\ Steps'
  <2>1. CASE pc[c] = "refreshing"
    BY <1>10, <2>1, UnheardCounts DEF Kill, Goto
  <2>2. CASE pc[c] # "refreshing"
    BY <1>10, <2>2 DEF Kill, Upset, Goto
  <2> QED BY <2>1, <2>2
<1>11. CASE UNCHANGED vars
  BY <1>11 DEF vars, providerVars
<1> QED BY <1>1, <1>2, <1>3, <1>4, <1>5, <1>6, <1>7, <1>8, <1>9, <1>10, <1>11 DEF Next, Step, AllEnded

\* A login's first tokens reach the file when it ends, and others from there.
LEMMA FreshStep ==
  ASSUME AuthTypeOK, Steps, Fresh, [Next]_vars
  PROVE  Fresh'
<1> USE CommandsDiffer, TokenLimits, LifeSpans, MarksAreNoTokens
<1> USE DEF AuthTypeOK, Steps, Fresh, Commands, Running, Of, OnFile, TokenFile, providerVars
<1>1. ASSUME NEW l \in Logins, LogIn(l)
      PROVE  Fresh'
  <2>1. \A t \in FirstTokens(l) : t \in TokenFile /\ t.login = l /\ t.refresh \in {0, NoToken}
    BY FirstToken DEF AuthTypeOK
  <2> QED BY <1>1, <2>1 DEF LogIn, Starts, Upset, Goto
<1>2. ASSUME Tick
      PROVE  Fresh'
  BY <1>2 DEF Tick
<1>3. ASSUME NEW c \in Logouts, LogOut(c)
      PROVE  Fresh'
  BY <1>3 DEF LogOut, Starts, Upset, Goto, Fault
<1>4. ASSUME NEW c \in Uses, Load(c)
      PROVE  Fresh'
  BY <1>4 DEF Load, Starts, Upset, Goto
<1>5. ASSUME NEW c \in Uses, Refresh(c)
      PROVE  Fresh'
  <2>1. held[c] \in TokenFile /\ held[c].login \in Logins
    BY <1>5 DEF Refresh, Steps, AuthTypeOK, Commands, Running, TokenFile
  <2>2. PICK t \in Granted(held[c]) : held' = [held EXCEPT ![c] = t]
    BY <1>5 DEF Refresh
  <2>3. /\ t \in TokenFile /\ t.login = held[c].login
        /\ t.refresh = IF Rotates THEN issued[t.login] + 1 ELSE held[c].refresh
    BY <2>1, <2>2, GrantedToken DEF AuthTypeOK
  <2> QED BY <1>5, <2>1, <2>2, <2>3 DEF Refresh, Grant, Goto
<1>6. ASSUME NEW c \in Uses, RefreshUnanswered(c)
      PROVE  Fresh'
  BY <1>6 DEF RefreshUnanswered, Unheard, Upset, Grant, Refuse, Goto, Fault
<1>7. ASSUME NEW c \in Uses, RefreshRefused(c)
      PROVE  Fresh'
  BY <1>7 DEF RefreshRefused, Refuse, Goto
<1>8. ASSUME NEW c \in Commands, SaveOpens(c)
      PROVE  Fresh'
  BY <1>8 DEF SaveOpens, SaveFails, Upset, Goto, Fault
<1>9. ASSUME NEW c \in Commands, SaveWrites(c)
      PROVE  Fresh'
  BY <1>9 DEF SaveWrites, SaveFails, Upset, Goto, Fault
<1>10. ASSUME NEW c \in Commands, Kill(c)
      PROVE  Fresh'
  BY <1>10 DEF Kill, Unheard, Upset, Grant, Refuse, Goto
<1>11. CASE UNCHANGED vars
  BY <1>11 DEF vars, providerVars
<1> QED BY <1>1, <1>2, <1>3, <1>4, <1>5, <1>6, <1>7, <1>8, <1>9, <1>10, <1>11 DEF Next, Step, AllEnded

\* Refresh tokens on file and in memory were granted.
LEMMA BehindStep ==
  ASSUME AuthTypeOK, Steps, Fresh, Behind, [Next]_vars
  PROVE  Behind'
<1> USE CommandsDiffer, TokenLimits, LifeSpans, MarksAreNoTokens
<1> USE DEF AuthTypeOK, Steps, Behind, NotAhead, Commands, Running, TokenFile, providerVars
<1>1. ASSUME NEW l \in Logins, LogIn(l)
      PROVE  Behind'
  <2>1. \A t \in FirstTokens(l) : t \in TokenFile /\ t.login = l /\ t.refresh \in {0, NoToken}
    BY FirstToken DEF AuthTypeOK
  <2> QED BY <1>1, <2>1 DEF LogIn, Starts, Upset, Goto
<1>2. ASSUME Tick
      PROVE  Behind'
  BY <1>2 DEF Tick
<1>3. ASSUME NEW c \in Logouts, LogOut(c)
      PROVE  Behind'
  BY <1>3 DEF LogOut, Starts, Upset, Goto, Fault
<1>4. ASSUME NEW c \in Uses, Load(c)
      PROVE  Behind'
  BY <1>4 DEF Load, Starts, Upset, Goto
<1>5. ASSUME NEW c \in Uses, Refresh(c)
      PROVE  Behind'
  <2>1. held[c] \in TokenFile /\ held[c].login \in Logins
    BY <1>5 DEF Refresh, Steps, AuthTypeOK, Commands, Running, TokenFile
  <2>2. PICK t \in Granted(held[c]) : held' = [held EXCEPT ![c] = t]
    BY <1>5 DEF Refresh
  <2>3. /\ t \in TokenFile /\ t.login = held[c].login
        /\ t.refresh = IF Rotates THEN issued[t.login] + 1 ELSE held[c].refresh
    BY <2>1, <2>2, GrantedToken DEF AuthTypeOK
  <2> QED BY <1>5, <2>1, <2>2, <2>3 DEF Refresh, Grant, Goto
<1>6. ASSUME NEW c \in Uses, RefreshUnanswered(c)
      PROVE  Behind'
  BY <1>6 DEF RefreshUnanswered, Unheard, Upset, Grant, Refuse, Goto, Fault
<1>7. ASSUME NEW c \in Uses, RefreshRefused(c)
      PROVE  Behind'
  BY <1>7 DEF RefreshRefused, Refuse, Goto
<1>8. ASSUME NEW c \in Commands, SaveOpens(c)
      PROVE  Behind'
  BY <1>8 DEF SaveOpens, SaveFails, Upset, Goto, Fault
<1>9. ASSUME NEW c \in Commands, SaveWrites(c)
      PROVE  Behind'
  BY <1>9 DEF SaveWrites, SaveFails, Upset, Goto, Fault
<1>10. ASSUME NEW c \in Commands, Kill(c)
      PROVE  Behind'
  BY <1>10 DEF Kill, Unheard, Upset, Grant, Refuse, Goto
<1>11. CASE UNCHANGED vars
  BY <1>11 DEF vars, providerVars
<1> QED BY <1>1, <1>2, <1>3, <1>4, <1>5, <1>6, <1>7, <1>8, <1>9, <1>10, <1>11 DEF Next, Step, AllEnded

\* A command that does not hear of its refresh leaves a sign, whatever became of it.
LEMMA UnheardStep ==
  ASSUME AuthTypeOK, Steps, Fresh, Behind, OneSaver,
         NEW c \in Commands, pc[c] = "refreshing", Unheard(c),
         NEW e \in {"failed", "killed"}, Goto(c, e),
         UNCHANGED <<file, held>>
  PROVE  OneSaver'
<1> USE CommandsDiffer, TokenLimits, LifeSpans, MarksAreNoTokens
<1> USE DEF AuthTypeOK, Steps, Fresh, Behind, OneSaver, NotAhead, Current, Commands, Running, Of, Saves, Harmed, OnFile, TokenFile,
           providerVars, Goto
<1>1. held[c] \in TokenFile /\ held[c].login \in Logins
  OBVIOUS
<1>2. CASE UNCHANGED providerVars
  BY <1>1, <1>2
<1>3. CASE Grant(held[c])
  <2> DEFINE k == held[c].login
  <2>1. Harmed(k)' /\ \A l \in Logins \ {k} : issued'[l] = issued[l]
    BY <1>1, <1>3 DEF Grant
  <2>2. Rotates => ~\E d \in Commands : Saves(d, k)
    BY <1>1, <1>3 DEF Grant, Accepts
  <2> QED BY <1>1, <1>3, <2>1, <2>2 DEF Grant
<1>4. CASE Refuse(held[c])
  BY <1>1, <1>4 DEF Refuse
<1> QED BY <1>2, <1>3, <1>4 DEF Unheard

\* Only a refresh with the current token is granted, and it makes all other
\* tokens of the login old; whoever fails or is killed leaves a sign.
LEMMA OneSaverStep ==
  ASSUME AuthTypeOK, Steps, Fresh, Behind, OneSaver, [Next]_vars
  PROVE  OneSaver'
<1> USE CommandsDiffer, TokenLimits, LifeSpans, MarksAreNoTokens
<1> USE DEF AuthTypeOK, Steps, Fresh, Behind, OneSaver, NotAhead, Current, Commands, Running, Of, Saves, Harmed, OnFile, TokenFile, providerVars
<1>1. ASSUME NEW l \in Logins, LogIn(l)
      PROVE  OneSaver'
  <2>1. \A t \in FirstTokens(l) : t \in TokenFile /\ t.login = l /\ t.refresh \in {0, NoToken}
    BY FirstToken DEF AuthTypeOK
  <2> QED BY <1>1, <2>1 DEF LogIn, Starts, Upset, Goto
<1>2. ASSUME Tick
      PROVE  OneSaver'
  BY <1>2 DEF Tick
<1>3. ASSUME NEW c \in Logouts, LogOut(c)
      PROVE  OneSaver'
  BY <1>3 DEF LogOut, Starts, Upset, Goto, Fault
<1>4. ASSUME NEW c \in Uses, Load(c)
      PROVE  OneSaver'
  BY <1>4 DEF Load, Starts, Upset, Goto
<1>5. ASSUME NEW c \in Uses, Refresh(c)
      PROVE  OneSaver'
  <2>1. held[c] \in TokenFile /\ held[c].login \in Logins
    BY <1>5 DEF Refresh, Steps, AuthTypeOK, Commands, Running, TokenFile
  <2>2. PICK t \in Granted(held[c]) : held' = [held EXCEPT ![c] = t]
    BY <1>5 DEF Refresh
  <2>3. /\ t \in TokenFile /\ t.login = held[c].login
        /\ t.refresh = IF Rotates THEN issued[t.login] + 1 ELSE held[c].refresh
    BY <2>1, <2>2, GrantedToken DEF AuthTypeOK
  <2> QED BY <1>5, <2>1, <2>2, <2>3 DEF Refresh, Grant, Accepts, Goto
<1>6. ASSUME NEW c \in Uses, RefreshUnanswered(c)
      PROVE  OneSaver'
  BY <1>6, UnheardStep DEF RefreshUnanswered
<1>7. ASSUME NEW c \in Uses, RefreshRefused(c)
      PROVE  OneSaver'
  BY <1>7 DEF RefreshRefused, Refuse, Goto
<1>8. ASSUME NEW c \in Commands, SaveOpens(c)
      PROVE  OneSaver'
  BY <1>8 DEF SaveOpens, SaveFails, Upset, Goto, Fault
<1>9. ASSUME NEW c \in Commands, SaveWrites(c)
      PROVE  OneSaver'
  BY <1>9 DEF SaveWrites, SaveFails, Upset, Goto, Fault
<1>10. ASSUME NEW c \in Commands, Kill(c)
      PROVE  OneSaver'
  <2>1. CASE pc[c] = "refreshing"
    BY <1>10, <2>1, UnheardStep DEF Kill
  <2>2. CASE pc[c] # "refreshing"
    BY <1>10, <2>2 DEF Kill, Goto
  <2> QED BY <2>1, <2>2
<1>11. CASE UNCHANGED vars
  BY <1>11 DEF vars, providerVars
<1> QED BY <1>1, <1>2, <1>3, <1>4, <1>5, <1>6, <1>7, <1>8, <1>9, <1>10, <1>11 DEF Next, Step, AllEnded

\* While the file owes a login, no refresh is refused, so one that nobody hears of
\* leaves the provider as it was, or the file open.
LEMMA OwedIsAccepted ==
  ASSUME AuthTypeOK, Steps, InTurn, owed \in Logins, NEW c \in Commands, pc[c] = "refreshing"
  PROVE  /\ Accepts(held[c])
         /\ Unheard(c) => owed' = Nothing \/ UNCHANGED <<providerVars, owed>>
<1>1. held[c] \in TokenFile /\ held[c].refresh # NoToken
  BY DEF AuthTypeOK, Steps, Running
<1>2. \A d \in Commands : pc[d] \notin {"saving", "writing"}
  BY DEF InTurn, Running
<1>3. Current(held[c]) /\ held[c].login \notin revoked
  BY <1>2 DEF InTurn
<1>4. Accepts(held[c])
  BY <1>1, <1>3 DEF Accepts, Current
<1> QED BY <1>4, MarksAreNoTokens DEF Unheard, Refuse, Upset

LEMMA UnheardInTurn ==
  ASSUME AuthTypeOK, Steps, InTurn,
         NEW c \in Commands, pc[c] = "refreshing", Unheard(c),
         NEW e \in {"failed", "killed"}, Goto(c, e),
         UNCHANGED <<file, held>>
  PROVE  InTurn'
<1> USE MarksAreNoTokens
<1>1. pc' = [pc EXCEPT ![c] = e] /\ pc \in [Commands -> {"new"} \cup Running \cup Ended]
  BY DEF Goto, AuthTypeOK
<1>2. \A d \in Commands : pc'[d] \in Running => pc[d] = pc'[d]
  BY <1>1 DEF Running
<1>3. CASE owed = Absent
  BY <1>3 DEF InTurn, Running
<1>4. CASE owed = Nothing
  <2>1. owed' = Nothing
    BY <1>4 DEF Unheard, Upset
  <2> QED BY <2>1 DEF InTurn
<1>5. CASE owed \in Logins
  <2>1. CASE owed' = Nothing
    BY <2>1 DEF InTurn
  <2>2. CASE UNCHANGED <<providerVars, owed>>
    <3>1. \A d \in Commands : pc[d] \notin {"saving", "writing"} /\ (pc[d] \in Running => d = c)
      BY <1>5 DEF InTurn, Running
    <3>2. \A d \in Commands : pc'[d] \notin Running
      BY <1>1, <1>2, <3>1 DEF Running
    <3> QED BY <1>5, <2>2, <3>1, <3>2 DEF InTurn, Current, Running, providerVars
  <2> QED BY <1>5, <2>1, <2>2, OwedIsAccepted
<1> QED BY <1>3, <1>4, <1>5 DEF AuthTypeOK

\* A command that starts while nobody else runs finds the current token, so no
\* refresh is refused; it keeps it until it is on file.
LEMMA InTurnStep ==
  ASSUME AuthTypeOK, Steps, Fresh, Behind, InTurn, [Next]_vars
  PROVE  InTurn'
<1> USE CommandsDiffer, TokenLimits, LifeSpans, MarksAreNoTokens
<1> USE DEF AuthTypeOK, Steps, InTurn, Current, Commands, Running, TokenFile, providerVars
<1>1. ASSUME NEW l \in Logins, LogIn(l)
      PROVE  InTurn'
  <2>1. \A t \in FirstTokens(l) : t \in TokenFile /\ t.login = l /\ t.refresh \in {0, NoToken}
    BY FirstToken
  <2>2. pc[l] = "new" /\ issued[l] = 0 /\ l \notin revoked
    BY <1>1 DEF LogIn, Starts, Fresh
  <2> QED BY <1>1, <2>1, <2>2 DEF LogIn, Starts, Upset, Goto
<1>2. ASSUME Tick
      PROVE  InTurn'
  BY <1>2 DEF Tick
<1>3. ASSUME NEW c \in Logouts, LogOut(c)
      PROVE  InTurn'
  BY <1>3 DEF LogOut, Starts, Upset, Goto, Fault
<1>4. ASSUME NEW c \in Uses, Load(c)
      PROVE  InTurn'
  BY <1>4 DEF Load, Starts, Upset, Goto
<1>5. ASSUME NEW c \in Uses, Refresh(c)
      PROVE  InTurn'
  <2>1. held[c] \in TokenFile /\ held[c].login \in Logins
    BY <1>5 DEF Refresh, Steps, AuthTypeOK, Commands, Running, TokenFile
  <2>2. PICK t \in Granted(held[c]) : held' = [held EXCEPT ![c] = t]
    BY <1>5 DEF Refresh
  <2>3. /\ t \in TokenFile /\ t.login = held[c].login
        /\ t.refresh = IF Rotates THEN issued[t.login] + 1 ELSE held[c].refresh
    BY <2>1, <2>2, GrantedToken DEF AuthTypeOK
  <2> QED BY <1>5, <2>1, <2>2, <2>3 DEF Refresh, Grant, Accepts, Goto
<1>6. ASSUME NEW c \in Uses, RefreshUnanswered(c)
      PROVE  InTurn'
  BY <1>6, UnheardInTurn DEF RefreshUnanswered
<1>7. ASSUME NEW c \in Uses, RefreshRefused(c)
      PROVE  InTurn'
  <2>1. owed \notin Logins
    BY <1>7, OwedIsAccepted DEF RefreshRefused, Refuse
  <2> QED BY <1>7, <2>1 DEF RefreshRefused, Refuse, Goto
<1>8. ASSUME NEW c \in Commands, SaveOpens(c)
      PROVE  InTurn'
  BY <1>8 DEF SaveOpens, SaveFails, Upset, Goto, Fault
<1>9. ASSUME NEW c \in Commands, SaveWrites(c)
      PROVE  InTurn'
  BY <1>9 DEF SaveWrites, SaveFails, Upset, Goto, Fault
<1>10. ASSUME NEW c \in Commands, Kill(c)
      PROVE  InTurn'
  <2>1. CASE pc[c] = "refreshing"
    BY <1>10, <2>1, UnheardInTurn DEF Kill
  <2>2. CASE pc[c] # "refreshing"
    BY <1>10, <2>2 DEF Kill, Upset, Goto
  <2> QED BY <2>1, <2>2
<1>11. CASE UNCHANGED vars
  BY <1>11 DEF vars, providerVars
<1> QED BY <1>1, <1>2, <1>3, <1>4, <1>5, <1>6, <1>7, <1>8, <1>9, <1>10, <1>11 DEF Next, Step, AllEnded

-----------------------------------------------------------------------------
\* A command keeps its tokens, or gets newer ones of the same login, and one that
\* has ended stays as it is.
LEMMA TokensKept ==
  ASSUME AuthTypeOK, Steps, NewHaveNone, [Next]_vars, NEW c \in Commands
  PROVE  /\ held[c] # Nothing => held'[c] # Nothing /\ held'[c].login = held[c].login
         /\ pc[c] \in Ended => pc'[c] = pc[c] /\ held'[c] = held[c]
<1> USE CommandsDiffer
<1> USE DEF AuthTypeOK, Commands, Running, Ended, Goto
<1>1. ASSUME NEW l \in Logins, LogIn(l) \/ LogOut(l) \/ Load(l)  PROVE pc[l] = "new"
  BY <1>1 DEF LogIn, LogOut, Load, Starts
<1>2. ASSUME NEW l \in Logins, LogIn(l)  PROVE pc[l] = "new" /\ \A d \in Commands \ {l} :
                                            pc'[d] = pc[d] /\ held'[d] = held[d]
  BY <1>2 DEF LogIn, Starts
<1>3. ASSUME NEW d \in Logouts, LogOut(d)
      PROVE  pc[d] = "new" /\ held' = held /\ \A x \in Commands \ {d} : pc'[x] = pc[x]
  BY <1>3 DEF LogOut, Starts
<1>4. ASSUME NEW d \in Uses, Load(d)
      PROVE  pc[d] = "new" /\ \A x \in Commands \ {d} : pc'[x] = pc[x] /\ held'[x] = held[x]
  BY <1>4 DEF Load, Starts
<1>5. ASSUME NEW d \in Uses, Refresh(d)
      PROVE  /\ pc[d] = "refreshing" /\ \A x \in Commands \ {d} : pc'[x] = pc[x] /\ held'[x] = held[x]
             /\ held'[d] # Nothing /\ held'[d].login = held[d].login
  <2>1. held[d] \in TokenFile
    BY <1>5 DEF Refresh, Steps
  <2>2. PICK t \in Granted(held[d]) : held' = [held EXCEPT ![d] = t]
    BY <1>5 DEF Refresh
  <2>3. t \in TokenFile /\ t.login = held[d].login /\ now \in Nat
    BY <2>1, <2>2, GrantedToken, LifeSpans
  <2> QED BY <1>5, <2>2, <2>3, MarksAreNoTokens DEF Refresh
<1>6. ASSUME NEW d \in Commands,
             \/ d \in Uses /\ (RefreshUnanswered(d) \/ RefreshRefused(d))
             \/ SaveOpens(d) \/ SaveWrites(d) \/ Kill(d)
      PROVE  held' = held /\ pc[d] \in Running /\ \A x \in Commands \ {d} : pc'[x] = pc[x]
  BY <1>6 DEF RefreshUnanswered, RefreshRefused, SaveOpens, SaveWrites, SaveFails, Kill
<1>7. CASE Tick \/ UNCHANGED vars
  BY <1>7 DEF Tick, vars
<1> QED BY <1>2, <1>3, <1>4, <1>5, <1>6, <1>7 DEF Next, Step, AllEnded, NewHaveNone

\* What became of two commands' tokens, or of one that failed, is not undone.
LEMMA SignsStay ==
  ASSUME AuthTypeOK, Steps, NewHaveNone, [Next]_vars
  PROVE  (SomeHarmed => SomeHarmed') /\ (Crossed => Crossed')
<1>1. ASSUME SomeHarmed  PROVE SomeHarmed'
  <2>1. PICK l \in Logins, c \in Commands :
          held[c] # Nothing /\ held[c].login = l /\ pc[c] \in {"failed", "killed"}
    BY <1>1 DEF SomeHarmed, Harmed
  <2>2. pc'[c] = pc[c] /\ held'[c] = held[c]
    BY <2>1, TokensKept DEF Ended
  <2> QED BY <2>1, <2>2 DEF SomeHarmed, Harmed
<1>2. ASSUME Crossed  PROVE Crossed'
  <2>1. PICK c, d \in Commands :
          /\ c # d /\ held[c] # Nothing /\ held[d] # Nothing
          /\ Rotates => held[c].login # held[d].login
    BY <1>2 DEF Crossed
  <2>2. /\ held'[c] # Nothing /\ held'[c].login = held[c].login
        /\ held'[d] # Nothing /\ held'[d].login = held[d].login
    BY <2>1, TokensKept
  <2> QED BY <2>1, <2>2 DEF Crossed
<1> QED BY <1>1, <1>2

\* Tokens come from a login or from the file.
LEMMA NewStep == AuthTypeOK /\ Steps /\ NewHaveNone /\ [Next]_vars => NewHaveNone'
<1> SUFFICES ASSUME AuthTypeOK, Steps, NewHaveNone, [Next]_vars,
                    NEW c \in Commands, pc'[c] = "new"
             PROVE  held'[c] = Nothing
    BY DEF NewHaveNone
<1> USE CommandsDiffer
<1> USE DEF AuthTypeOK, Commands, Running, Goto
<1>1. pc[c] = "new" /\ held'[c] = held[c]
  <2>1. ASSUME NEW l \in Logins, LogIn(l)  PROVE pc[c] = "new" /\ held'[c] = held[c]
    BY <2>1 DEF LogIn, Starts
  <2>2. ASSUME NEW d \in Logouts, LogOut(d)  PROVE pc[c] = "new" /\ held'[c] = held[c]
    BY <2>2 DEF LogOut, Starts
  <2>3. ASSUME NEW d \in Uses, Load(d)  PROVE pc[c] = "new" /\ held'[c] = held[c]
    BY <2>3 DEF Load, Starts
  <2>4. ASSUME NEW d \in Uses, Refresh(d) \/ RefreshUnanswered(d) \/ RefreshRefused(d)
        PROVE  pc[c] = "new" /\ held'[c] = held[c]
    BY <2>4 DEF Refresh, RefreshUnanswered, RefreshRefused
  <2>5. ASSUME NEW d \in Commands, SaveOpens(d) \/ SaveWrites(d) \/ Kill(d)
        PROVE  pc[c] = "new" /\ held'[c] = held[c]
    BY <2>5 DEF SaveOpens, SaveWrites, SaveFails, Kill
  <2>6. CASE Tick \/ UNCHANGED vars
    BY <2>6 DEF Tick, vars
  <2> QED BY <2>1, <2>2, <2>3, <2>4, <2>5, <2>6 DEF Next, Step, AllEnded
<1> QED BY <1>1 DEF NewHaveNone

\* A command that writes over the tokens of another, of the same login and a
\* provider that rotates, has been refused before; over an open that failed to
\* write, or was killed, somebody is harmed.
LEMMA TracedStep ==
  ASSUME AuthTypeOK, Steps, OneSaver, NewHaveNone, FileTraced, [Next]_vars
  PROVE  FileTraced'
<1> USE CommandsDiffer, MarksAreNoTokens
<1>t. /\ pc \in [Commands -> {"new"} \cup Running \cup Ended]
      /\ held \in [Commands -> TokenFile \cup {Nothing}]
      /\ opened \subseteq Commands
  BY DEF AuthTypeOK
<1>s. /\ (SomeHarmed => SomeHarmed') /\ (Crossed => Crossed')
      /\ \A c \in Commands : pc[c] \in Ended => pc'[c] = pc[c] /\ held'[c] = held[c]
  BY SignsStay, TokensKept
<1>k. file' = file /\ file \in TokenFile
        => \E d \in Commands : held'[d] = file' /\ pc'[d] \in {"done", "ready"}
  BY <1>s DEF FileTraced, Ended
\* A command that fails or is killed once it has tokens.
<1>f. ASSUME NEW c \in Commands, pc[c] \in Running, NEW e \in {"failed", "killed"},
             Goto(c, e), held' = held
      PROVE  SomeHarmed'
  <2>1. held[c] \in TokenFile /\ held[c] # Nothing /\ held[c].login \in Logins
    BY <1>t, <1>f DEF Steps, TokenFile
  <2>2. pc'[c] = e /\ held'[c] = held[c]
    BY <1>t, <1>f DEF Goto
  <2> QED BY <2>1, <2>2 DEF SomeHarmed, Harmed
\* Steps that leave the file and those who have it open.
<1>1. ASSUME UNCHANGED <<file, opened>>, \A c \in opened : pc'[c] = pc[c]  PROVE FileTraced'
  BY <1>1, <1>s, <1>k DEF FileTraced
<1>2. ASSUME NEW l \in Logins, LogIn(l)  PROVE FileTraced'
  <2>1. UNCHANGED <<file, opened>> /\ \A c \in opened : pc'[c] = pc[c]
    BY <1>2, <1>t DEF LogIn, Starts, Goto, FileTraced
  <2> QED BY <1>1, <2>1
<1>3. ASSUME NEW c \in Logouts, LogOut(c)  PROVE FileTraced'
  <2>1. CASE file' = Absent /\ opened' = {}
    BY <2>1 DEF FileTraced
  <2>2. CASE UNCHANGED <<file, opened>>
    <3>1. \A d \in opened : pc'[d] = pc[d]
      BY <1>3, <1>t DEF LogOut, Starts, Goto, FileTraced
    <3> QED BY <1>1, <2>2, <3>1
  <2> QED BY <1>3, <2>1, <2>2 DEF LogOut
<1>4. ASSUME NEW c \in Uses, Load(c) \/ Refresh(c) \/ RefreshUnanswered(c) \/ RefreshRefused(c)
      PROVE  FileTraced'
  <2>1. UNCHANGED <<file, opened>> /\ \A d \in opened : pc'[d] = pc[d]
    BY <1>4, <1>t DEF Load, Refresh, RefreshUnanswered, RefreshRefused, Starts, Goto, FileTraced
  <2> QED BY <1>1, <2>1
<1>5. ASSUME NEW c \in Commands, SaveOpens(c)  PROVE FileTraced'
  <2>1. pc[c] = "saving" /\ held' = held
    BY <1>5 DEF SaveOpens
  <2>2. CASE file' = Empty /\ opened' = opened \cup {c} /\ Goto(c, "writing")
    <3>1. \A d \in opened' : pc'[d] = "writing"
      BY <1>t, <2>2 DEF Goto, FileTraced
    <3> QED BY <2>2, <3>1 DEF FileTraced
  <2>3. CASE UNCHANGED <<file, opened>> /\ SaveFails(c)
    <3>1. \A d \in opened : pc'[d] = pc[d]
      BY <1>t, <2>1, <2>3 DEF SaveFails, Goto, FileTraced
    <3> QED BY <1>1, <2>3, <3>1
  <2> QED BY <1>5, <2>2, <2>3 DEF SaveOpens
<1>6. ASSUME NEW c \in Commands, SaveWrites(c)  PROVE FileTraced'
  <2>1. /\ pc[c] = "writing" /\ held' = held /\ opened' = opened \ {c}
        /\ held[c] \in TokenFile /\ held[c] # Nothing /\ held[c].login \in Logins
    BY <1>6, <1>t DEF SaveWrites, Steps, Running, TokenFile
  <2>2. \A d \in opened' : d \in opened /\ d # c /\ pc'[d] = "writing"
    BY <1>6, <1>t, <2>1 DEF SaveWrites, SaveFails, Goto, FileTraced
  <2>3. CASE file' = file /\ c \notin opened
    BY <1>s, <1>k, <2>1, <2>2, <2>3 DEF FileTraced
  <2>4. CASE c \in opened /\ SaveFails(c)
    <3>1. SomeHarmed'
      BY <1>f, <2>1, <2>4 DEF SaveFails, Running
    <3>2. file # Absent
      BY <2>4 DEF FileTraced
    <3>3. pc'[c] = "failed"
      BY <1>t, <2>4 DEF SaveFails, Goto
    <3>4. file' \in {file, Garbled}
      BY <1>6, <1>t, <2>4, <3>3 DEF SaveWrites, Goto
    <3> QED BY <1>k, <2>2, <3>1, <3>2, <3>4 DEF FileTraced
  <2>5. CASE c \in opened /\ file' = held[c] /\ pc'[c] \in {"done", "ready"}
    BY <2>1, <2>2, <2>5 DEF FileTraced
  <2>6. CASE c \in opened /\ file # Empty /\ file' = Garbled
    <3>1. CASE file = Garbled
      BY <1>s, <2>2, <2>6, <3>1 DEF FileTraced
    <3>2. CASE file \in TokenFile
      <4>1. PICK d \in Commands : held[d] = file /\ pc[d] \in {"done", "ready"}
        BY <3>2 DEF FileTraced
      <4>2. Rotates => held[d].login # held[c].login
        BY <2>1, <3>2, <4>1 DEF OneSaver, Saves, Of, OnFile
      <4>3. c # d /\ held[d] # Nothing
        BY <2>1, <3>2, <4>1
      <4>4. Crossed
        BY <2>1, <4>2, <4>3 DEF Crossed
      <4> QED BY <1>s, <2>2, <2>6, <4>4 DEF FileTraced
    <3> QED BY <2>6, <3>1, <3>2 DEF FileTraced, AuthTypeOK
  <2>7. \/ file' = file /\ c \notin opened
        \/ c \in opened /\ SaveFails(c)
        \/ c \in opened /\ file' = held[c] /\ pc'[c] \in {"done", "ready"}
        \/ c \in opened /\ file # Empty /\ file' = Garbled
    BY <1>6, <1>t DEF SaveWrites, Goto
  <2> QED BY <2>3, <2>4, <2>5, <2>6, <2>7
<1>7. ASSUME NEW c \in Commands, Kill(c)  PROVE FileTraced'
  <2>1. pc[c] \in Running /\ held' = held /\ file' = file /\ opened' = opened \ {c} /\ Goto(c, "killed")
    BY <1>7 DEF Kill
  <2>2. \A d \in opened' : pc'[d] = "writing"
    BY <1>t, <2>1 DEF Goto, FileTraced
  <2>3. SomeHarmed'
    BY <1>f, <2>1
  <2> QED BY <1>k, <2>1, <2>2, <2>3 DEF FileTraced
<1>8. CASE Tick \/ UNCHANGED vars
  <2>1. UNCHANGED <<file, opened, pc>>
    BY <1>8 DEF Tick, vars
  <2> QED BY <1>1, <2>1
<1> QED BY <1>2, <1>3, <1>4, <1>5, <1>6, <1>7, <1>8 DEF Next, Step, AllEnded

-----------------------------------------------------------------------------
\* The parts above are inductive together.
THEOREM TokenInv == Spec => []AuthInv
<1>1. AuthInv /\ [Next]_vars => AuthInv'
  BY TypeStep, FreshStep, BehindStep, OneSaverStep, InTurnStep, NewStep, TracedStep DEF AuthInv
<1> QED BY AuthInit, <1>1, PTL DEF Spec

\* What auth.json and the commands hold is always tokens of a login, or one of
\* the states a write can leave; calls that fail and kills keep to their bounds.
THEOREM TokensTyped == Spec => []AuthTypeOK
<1>1. AuthInv => AuthTypeOK
  BY DEF AuthInv
<1> QED BY TokenInv, <1>1, PTL

\* Commands that take turns leave auth.json as the last login or logout among
\* them has made it, with a refresh token the provider takes.
THEOREM CommandsInTurn == Spec => []TurnsKeepLogin
<1>1. AuthInv => TurnsKeepLogin
  BY MarksAreNoTokens
  DEF AuthInv, AuthTypeOK, InTurn, TurnsKeepLogin, Usable, Accepts, Current, Running
<1> QED BY TokenInv, <1>1, PTL

\* However commands overlap, fail or are killed: once all are through, tokens on
\* file are usable, or a command that had tokens of their login failed or was
\* killed; and an empty or garbled file shows that one was, or, garbled, that two
\* commands saved, of different logins where the provider rotates.
THEOREM LossShows == Spec => []FileStaysUsable
<1>1. AuthInv => FileStaysUsable
  <2> SUFFICES ASSUME AuthInv, \A c \in Commands : pc[c] \notin Running
               PROVE  /\ file \in TokenFile => Usable(file) \/ Harmed(file.login)
                      /\ file = Empty => SomeHarmed
                      /\ file = Garbled => SomeHarmed \/ Crossed
      BY DEF FileStaysUsable, SomeHarmed, Crossed
  <2>1. file \in TokenFile => Usable(file) \/ Harmed(file.login)
    BY DEF AuthInv, OneSaver, Usable, Accepts, Current, OnFile, Saves, Running, TokenFile
  <2>2. opened = {}
    BY DEF AuthInv, AuthTypeOK, FileTraced, Running
  <2> QED BY <2>1, <2>2 DEF AuthInv, FileTraced
<1> QED BY TokenInv, <1>1, PTL
=============================================================================
