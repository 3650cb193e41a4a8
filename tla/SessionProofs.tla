---------------------------- MODULE SessionProofs ----------------------------
(***************************************************************************)
(* Proofs about a command's request: what AuthFile promises holds with     *)
(* requests added, and a sound token is not turned down before its time.   *)
(***************************************************************************)
EXTENDS Session, AuthFileProofs

\* The time at which a command took its tokens to be good left them the grace
\* period; nothing in between changes either.
Graced ==
  \A c \in Uses : pc[c] \in {"ready", "saving", "writing"} =>
    held[c] # Nothing /\ since[c] + Grace <= held[c].until

RequestInv == AuthTypeOK /\ Steps /\ SessionTypeOK /\ Graced

\* A step that adds requests to AuthFile is one of its own, or none.
LEMMA SessionSteps == [SessionNext]_sessionVars => [Next]_vars
BY DEF SessionNext, Authorise, Ask, Through, sessionVars, vars, Next

-----------------------------------------------------------------------------
\* A session is a behaviour of auth.json and its commands.
THEOREM SessionIsAuthFile == SessionSpec => Spec
<1>1. SessionInit => Init
  BY DEF SessionInit
<1> QED BY <1>1, SessionSteps, PTL DEF SessionSpec, Spec

\* So what is proved of it holds with requests added.
COROLLARY AuthHolds == SessionSpec => []AuthInv
BY SessionIsAuthFile, TokenInv

\* Nobody has asked anything.
LEMMA RequestInit == SessionInit => SessionTypeOK /\ Graced
BY TokenLimits, LifeSpans, CommandsDiffer
DEF SessionInit, Init, SessionTypeOK, Graced, Commands

\* A command looks at the clock when it loads its tokens and when it is granted
\* new ones.
LEMMA GracedStep ==
  ASSUME AuthTypeOK, Steps, SessionTypeOK, Graced, [SessionNext]_sessionVars
  PROVE  SessionTypeOK' /\ Graced'
<1> USE CommandsDiffer, LifeSpans
<1> USE DEF AuthTypeOK, SessionTypeOK, Graced, Commands
<1>1. ASSUME Authorise  PROVE SessionTypeOK' /\ Graced'
  <2>1. SessionTypeOK'
    <3> DEFINE s(c) == IF pc[c] \in {"new", "refreshing"} /\ pc'[c] # pc[c] THEN now ELSE since[c]
    <3>1. \A c \in Uses : s(c) \in 0..MaxNow
      OBVIOUS
    <3>2. since' = [c \in Uses |-> s(c)] /\ reply' = reply
      BY <1>1 DEF Authorise
    <3> QED BY <3>1, <3>2
  <2>2. ASSUME NEW c \in Uses, Load(c)  PROVE Graced'
    <3>1. /\ pc[c] = "new" /\ pc'[c] \in {"notLoggedIn", "failed", "refreshing", "ready"}
          /\ \A d \in Uses \ {c} : held'[d] = held[d] /\ pc'[d] = pc[d]
      BY <2>2 DEF Load, Starts, Goto
    <3>2. pc'[c] = "ready" => held'[c] = file /\ file \in TokenFile /\ ~Expired(file)
      BY <2>2 DEF Load, Starts, Goto
    <3>3. ~Expired(file) /\ file \in TokenFile => file # Nothing /\ now + Grace <= file.until
      BY MarksAreNoTokens DEF Expired, TokenFile
    <3>4. since'[c] = now /\ \A d \in Uses \ {c} : since'[d] = since[d]
      BY <1>1, <3>1 DEF Authorise
    <3> QED BY <3>1, <3>2, <3>3, <3>4
  <2>3. ASSUME NEW c \in Uses, Refresh(c)  PROVE Graced'
    <3>1. held[c] \in TokenFile
      BY <2>3 DEF Refresh, Steps, Running
    <3>2. PICK t \in Granted(held[c]) : held' = [held EXCEPT ![c] = t]
      BY <2>3 DEF Refresh
    <3>3. now + Grace <= t.until
      BY <3>1, <3>2, GrantedToken
    <3>4. /\ held'[c] = t /\ t # Nothing /\ pc[c] = "refreshing" /\ pc'[c] = "saving"
          /\ \A d \in Uses \ {c} : held'[d] = held[d] /\ pc'[d] = pc[d]
      BY <2>3, <3>1, <3>2, GrantedToken, MarksAreNoTokens DEF Refresh, Goto
    <3>5. since'[c] = now /\ \A d \in Uses \ {c} : since'[d] = since[d]
      BY <1>1, <3>4 DEF Authorise
    <3> QED BY <3>3, <3>4, <3>5
  <2>4. ASSUME NEW l \in Logins, LogIn(l)  PROVE Graced'
    BY <1>1, <2>4 DEF Authorise, LogIn, Starts, Goto
  <2>5. ASSUME NEW c \in Logouts, LogOut(c)  PROVE Graced'
    BY <1>1, <2>5 DEF Authorise, LogOut, Starts, Goto
  <2>6. ASSUME NEW c \in Uses, RefreshUnanswered(c) \/ RefreshRefused(c)  PROVE Graced'
    BY <1>1, <2>6 DEF Authorise, RefreshUnanswered, RefreshRefused, Goto
  <2>7. ASSUME NEW c \in Commands, SaveOpens(c)  PROVE Graced'
    BY <1>1, <2>7 DEF Authorise, SaveOpens, SaveFails, Goto
  <2>8. ASSUME NEW c \in Commands, SaveWrites(c)  PROVE Graced'
    BY <1>1, <2>8 DEF Authorise, SaveWrites, SaveFails, Goto
  <2>9. ASSUME NEW c \in Commands, Kill(c)  PROVE Graced'
    BY <1>1, <2>9 DEF Authorise, Kill, Goto
  <2>10. ASSUME Tick  PROVE Graced'
    BY <1>1, <2>10 DEF Authorise, Tick
  <2> QED BY <1>1, <2>1, <2>2, <2>3, <2>4, <2>5, <2>6, <2>7, <2>8, <2>9, <2>10 DEF Authorise, Step
<1>2. ASSUME NEW c \in Uses, Ask(c)  PROVE SessionTypeOK' /\ Graced'
  BY <1>2 DEF Ask, vars, Verdict, Replies
<1>3. CASE UNCHANGED sessionVars
  BY <1>3 DEF sessionVars, vars
<1> QED BY <1>1, <1>2, <1>3 DEF SessionNext, Through

\* A 401 about a sound login: only Ask replies, and it had the token's claim and
\* the grace period before it.
LEMMA RejectedStep ==
  ASSUME RequestInv, [SessionNext]_sessionVars, NEW c \in Uses,
         reply[c] = Nothing, reply'[c] = "unauthorized", held[c].login \notin Misissued,
         NotOverrated(held[c])
  PROVE  now + MaxLag >= since[c] + Grace
<1> USE DEF RequestInv, AuthTypeOK, SessionTypeOK, Commands
<1>1. reply'[c] # reply[c]
  BY NothingIsNoReply DEF Replies
<1>2. Ask(c)
  <2>1. ASSUME NEW d \in Uses, Ask(d), d # c  PROVE FALSE
    BY <1>1, <2>1 DEF Ask
  <2> QED BY <1>1, <2>1 DEF SessionNext, Authorise, Through, sessionVars
<1>3. Verdict(held[c]) = "unauthorized" /\ pc[c] = "ready"
  BY <1>2 DEF Ask
<1>4. ~(now < held[c].exp)
  BY <1>3 DEF Verdict, Verified
<1>5. /\ held[c].exp \in Nat /\ held[c].until \in Nat
      /\ since[c] + Grace <= held[c].until /\ held[c].until <= held[c].exp + MaxLag
  BY <1>3 DEF Graced, TokenFile, NotOverrated
<1> QED BY <1>4, <1>5, LifeSpans, TokenLimits

\* The parts of this module are inductive together with those of AuthFile.
THEOREM RequestsTyped == SessionSpec => []RequestInv
<1> DEFINE Here == SessionTypeOK /\ Graced
<1>1. AuthInv => AuthTypeOK /\ Steps
  BY DEF AuthInv
<1>2. AuthTypeOK /\ Steps /\ Here /\ [SessionNext]_sessionVars => Here'
  BY GracedStep
<1>3. AuthTypeOK /\ Steps /\ Here => RequestInv
  BY DEF RequestInv
<1>4. SessionInit => Here
  BY RequestInit
<1> HIDE DEF Here
<1> QED BY AuthHolds, <1>1, <1>2, <1>3, <1>4, PTL DEF SessionSpec

\* A sound token that the command did not take to live longer than it does is
\* refused only when the time since the command took it to be good, and the most
\* an answer takes, add up to the grace period: for any grace and lifetime, and
\* after any number of refreshes by any commands.
THEOREM GraceSuffices == SessionSpec => FreshIsAccepted
<1>1. RequestInv /\ [SessionNext]_sessionVars =>
        [\A c \in Uses :
           (/\ reply[c] = Nothing /\ reply'[c] = "unauthorized"
            /\ held[c].login \notin Misissued
            /\ NotOverrated(held[c]))
             => now + MaxLag >= since[c] + Grace]_sessionVars
  BY RejectedStep
<1> QED BY RequestsTyped, <1>1, PTL DEF SessionSpec, FreshIsAccepted
=============================================================================
