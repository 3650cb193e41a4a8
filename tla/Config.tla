------------------------------- MODULE Config -------------------------------
(***************************************************************************)
(* Lifetimes from a text to a row: the three that an operator sets, which  *)
(* loadConfig of cmd/server/main.go checks against each other, and the one *)
(* a sender asks for, which parseUploadRequest of wire.go holds against    *)
(* them.  All four are read by ParseTTL.                                   *)
(***************************************************************************)
EXTENDS TTL

CONSTANTS
  EnvTexts,  \* what an operator may write, each a [negative, text]
  BuiltIn    \* the lifetimes of a server whose operator wrote nothing

Keys == {"default", "min", "max"}

ASSUME BuiltInFits ==
  /\ BuiltIn \in [Keys -> Nat] /\ 0 < BuiltIn.min
  /\ BuiltIn.min <= BuiltIn.default /\ BuiltIn.default <= BuiltIn.max

ASSUME EnvTextsAreTexts == EnvTexts \subseteq [negative : BOOLEAN, text : Seq(Component)]

ASSUME NoneIsNoError == None # Error

VARIABLES
  env,   \* KSHARE_DEFAULT_TTL, KSHARE_MIN_TTL and KSHARE_MAX_TTL, or None
  cfg,   \* None before the boot, Error if it failed
  ttl    \* the lifetime of the sender's row, None before, Error if refused

configVars == <<vars, env, cfg, ttl>>

ConfigInit ==
  /\ Init
  /\ env \in [Keys -> EnvTexts \cup {None}]
  /\ cfg = None /\ ttl = None

Booted == cfg \notin {None, Error}

EnvTTL(key) ==
  IF env[key] = None THEN BuiltIn[key] ELSE ParseTTL(env[key].negative, env[key].text)

\* Mutant: the default is not held against the limits.
LoadConfigLimitsOnly ==
  LET c == [k \in Keys |-> EnvTTL(k)] IN
    IF (\E k \in Keys : c[k] = Error) \/ c.min > c.max THEN Error ELSE c

LoadConfig ==
  LET c == [k \in Keys |-> EnvTTL(k)] IN
    IF \/ \E k \in Keys : c[k] = Error
       \/ c.min > c.max
       \/ c.default < c.min \/ c.default > c.max
    THEN Error ELSE c

Boot == cfg = None /\ cfg' = LoadConfig /\ UNCHANGED <<vars, env, ttl>>

\* A sender writes X-KShare-TTL, or leaves it out.
NoHeader == text = <<>> /\ ~sign
Ask == Booted /\ ttl = None /\ Write /\ UNCHANGED <<env, cfg, ttl>>

\* Mutant: a header that cannot be read is as good as none.
AskedLeniently ==
  LET d == ParseTTL(sign, text) IN IF d = Error THEN cfg.default ELSE d

Asked == IF NoHeader THEN cfg.default ELSE ParseTTL(sign, text)

\* A lifetime out of range is refused (architecture.md:22 has it clamped).
Lifetime ==
  IF Asked = Error \/ Asked < cfg.min \/ Asked > cfg.max THEN Error ELSE Asked

Upload == Booted /\ ttl = None /\ ttl' = Lifetime /\ UNCHANGED <<vars, env, cfg>>

Settled == (cfg = Error \/ ttl # None) /\ UNCHANGED configVars

ConfigNext == Boot \/ Ask \/ Upload \/ Settled

ConfigSpec == ConfigInit /\ [][ConfigNext]_configVars

-----------------------------------------------------------------------------
\* Texts of whole numbers of which no product wraps, and what they say.
Plain(t) == \A i \in DOMAIN t : t[i].frac = None /\ ~Wraps(t[i])
PlainEnv == \A k \in Keys : env[k] # None => Plain(env[k].text)
Says(key) == IF env[key] = None THEN BuiltIn[key] ELSE Meant(env[key].negative, env[key].text)

(***************************************************************************)
(* A row that is accepted lives as long as its sender wrote, or as long as *)
(* the operator's default says, and that is within what the operator wrote *)
(* for the limits: no text that cannot be read passes for the default, and *)
(* no key is read for another.                                             *)
(***************************************************************************)
LimitsAsMeant ==
  (ttl \notin {None, Error} /\ Plain(text) /\ PlainEnv) =>
    /\ ttl = IF NoHeader THEN Says("default") ELSE Meant(sign, text)
    /\ Says("min") <= ttl /\ ttl <= Says("max")

(***************************************************************************)
(* A server that boots can serve, whatever texts it was given, fractions   *)
(* and products that wrap among them: its sweeper has a period, which      *)
(* time.NewTicker panics without, and an upload that names no lifetime is  *)
(* not refused for it.                                                     *)
(***************************************************************************)
BootedServes ==
  Booted => cfg.min > 0 /\ (NoHeader => ttl # Error)

=============================================================================
