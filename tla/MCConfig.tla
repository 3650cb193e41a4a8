------------------------------ MODULE MCConfig ------------------------------
\* Instances of Config for TLC.
EXTENDS Config

LOCAL Of(n, u) == [whole |-> n, frac |-> None, unit |-> u]
LOCAL Env(s, t) == [negative |-> s, text |-> t]

\* One hour, 3 days, 10 days and an hour, 25 weeks (which wrap), none, less,
\* and half a day (which becomes 7 minutes).
Settings ==
  {Env(FALSE, <<Of(1, "h")>>), Env(FALSE, <<Of(3, "d")>>),
   Env(FALSE, <<Of(1, "w"), Of(3, "d"), Of(1, "h")>>), Env(FALSE, <<Of(25, "w")>>),
   Env(FALSE, <<Of(0, "d")>>), Env(TRUE, <<Of(3, "d")>>),
   Env(FALSE, <<[whole |-> 0, frac |-> [value |-> 5, scale |-> 10], unit |-> "d"]>>)}

\* 7 days, 10 minutes, and four weeks where the code has a year.
Defaults == [default |-> Hour * 168, min |-> Hour \div 6, max |-> Hour * 672]
=============================================================================
