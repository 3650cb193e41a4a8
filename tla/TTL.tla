-------------------------------- MODULE TTL --------------------------------
(***************************************************************************)
(* internal/api/ttl.go: ParseTTL, which rewrites the days and weeks of a   *)
(* duration to hours before time.ParseDuration reads it.                   *)
(*                                                                         *)
(* A text is a sign and a sequence of components: digits, maybe a point    *)
(* and more digits, and a unit.  Durations are counted in 1/1000 h, the    *)
(* finest that five tenths of a week can become here.                      *)
(***************************************************************************)
EXTENDS Integers, Sequences

CONSTANTS
  Wholes,        \* the numbers before the point
  Tenths,        \* the digit after it
  None,          \* no point
  Error,
  Word,          \* 2^w for the width w of an int
  MaxHours,      \* the longest time.Duration
  MaxComponents  \* bound: components of a text

ASSUME TTLLimits ==
  /\ Wholes \subseteq Nat /\ Tenths \subseteq 0..5
  /\ Word \in Nat /\ MaxHours \in Nat /\ MaxComponents \in Nat
  /\ MaxHours < Word \div 2 /\ 5 * 168 < Word \div 2

Hour == 1000

MaxInt == (Word \div 2) - 1
AsInt(n) == ((n + (Word \div 2)) % Word) - (Word \div 2)

\* The digits after the point, and what they are divided by: ".5" is not ".05".
Fraction == [value : Tenths, scale : {10}]
Component == [whole : Wholes, frac : Fraction \cup {None}, unit : {"h", "d", "w"}]

HoursIn(unit) == CASE unit = "h" -> 1 [] unit = "d" -> 24 [] unit = "w" -> 24 * 7

Scales == {10, 100, 1000}
ScaleOf(n) == CHOOSE s \in Scales : n < s /\ \A r \in Scales : n < r => s <= r

\* Mutant: a week is rewritten like a day.
ExpandDaysOnly(c) ==
  LET digits == IF c.frac = None THEN c.whole ELSE c.frac.value
      hours == AsInt(digits * 24)
  IN IF c.unit = "h" \/ digits > MaxInt THEN c
     ELSE IF c.frac = None THEN [whole |-> hours, frac |-> None, unit |-> "h"]
     ELSE [whole |-> c.whole, frac |-> [value |-> hours, scale |-> ScaleOf(hours)], unit |-> "h"]

\* The rewriting sees the digits next to the unit, which are those after the
\* point if there is one.  Digits that are no int stay as they are.
Expand(c) ==
  LET digits == IF c.frac = None THEN c.whole ELSE c.frac.value
      hours == AsInt(digits * HoursIn(c.unit))
  IN IF c.unit = "h" \/ digits > MaxInt THEN c
     ELSE IF c.frac = None THEN [whole |-> hours, frac |-> None, unit |-> "h"]
     ELSE [whole |-> c.whole, frac |-> [value |-> hours, scale |-> ScaleOf(hours)], unit |-> "h"]

Length(c) ==
  Hour * c.whole + (IF c.frac = None THEN 0 ELSE (Hour * c.frac.value) \div c.frac.scale)

Sums(lengths) ==
  LET sum[i \in 0..Len(lengths)] == IF i = 0 THEN 0 ELSE sum[i - 1] + lengths[i] IN sum
Total(lengths) == Sums(lengths)[Len(lengths)]

\* A sign may come first, and only there; it may be the "-" of a product that
\* has wrapped.  Days and weeks are no unit of its.
ParseDuration(negative, t) ==
  LET minus == t[1].whole < 0
      first == IF minus THEN [t[1] EXCEPT !.whole = -@] ELSE t[1]
      d == Total([i \in DOMAIN t |-> Length(IF i = 1 THEN first ELSE t[i])])
  IN IF \/ \E c \in {t[i] : i \in DOMAIN t} : c.unit # "h"
        \/ minus /\ negative
        \/ \E c \in {t[i] : i \in 2..Len(t)} : c.whole < 0
        \/ d > Hour * MaxHours
     THEN Error
     ELSE IF negative \/ minus THEN -d ELSE d

ParseTTL(negative, t) ==
  IF t = <<>> THEN Error
  ELSE LET d == ParseDuration(negative, [i \in DOMAIN t |-> Expand(t[i])])
       IN IF d = Error \/ d <= 0 THEN Error ELSE d

-----------------------------------------------------------------------------
\* Somebody writes a TTL.
VARIABLES sign, text

vars == <<sign, text>>

Init == sign \in BOOLEAN /\ text = <<>>

Write ==
  /\ Len(text) < MaxComponents
  /\ \E c \in Component : text' = Append(text, c)
  /\ UNCHANGED sign

Written == Len(text) = MaxComponents /\ UNCHANGED vars

Next == Write \/ Written

Spec == Init /\ [][Next]_vars

-----------------------------------------------------------------------------
\* What a text says: so many hours, days and weeks.
Said(c) ==
  HoursIn(c.unit) * (Hour * c.whole + (IF c.frac = None THEN 0 ELSE 100 * c.frac.value))

Meant(negative, t) ==
  LET d == Total([i \in DOMAIN t |-> Said(t[i])]) IN
    IF negative \/ d = 0 \/ d > Hour * MaxHours THEN Error ELSE d

\* The product in hours of a number that is an int is none.
Wraps(c) ==
  c.unit # "h" /\ c.whole <= MaxInt /\ c.whole * HoursIn(c.unit) > MaxInt

\* Whole numbers of weeks, days and hours, in any order and number, add up to
\* what the text says, or are refused for being zero, negative or too long, if
\* no product leaves the width of an int.
WholeTTLsAreExact ==
  (\A i \in DOMAIN text : text[i].frac = None /\ ~Wraps(text[i]))
    => ParseTTL(sign, text) = Meant(sign, text)

\* ttl.go: "accepting `d` (24h) and `w` (168h) on top of everything
\* time.ParseDuration accepts", which accepts fractions.
FractionsAreExact ==
  (\A i \in DOMAIN text : ~Wraps(text[i])) => ParseTTL(sign, text) = Meant(sign, text)
=============================================================================
