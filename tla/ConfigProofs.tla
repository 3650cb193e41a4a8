---------------------------- MODULE ConfigProofs ----------------------------
(***************************************************************************)
(* Proofs about TTL and Config: texts of any number of components are read *)
(* as they are meant, and the lifetimes that come of them keep their       *)
(* limits, for any width of an int and any texts an operator may write.    *)
(***************************************************************************)
EXTENDS Config, WellFoundedInduction, TLAPS

-----------------------------------------------------------------------------
\* Sums.  What is said of all of them is proved from the least counterexample.

Less == {p \in Nat \X Nat : p[1] < p[2]}

\* A set of numbers that is not empty has a least one.
LEMMA Smallest ==
  ASSUME NEW T \in SUBSET Nat, T # {}
  PROVE  \E n \in T : \A m \in T : n <= m
<1>1. IsWellFoundedOn(Less, Nat)
  BY NatLessThanWellFounded, Zenon DEF OpToRel, Less
<1>2. PICK n \in T : \A m \in T : <<m, n>> \notin Less
  <2>1. T \subseteq Nat
    OBVIOUS
  <2> QED BY <1>1, <2>1, WFMin, Zenon
<1>3. n \in Nat /\ \A m \in T : m \in Nat /\ ~(m < n)
  BY <1>2 DEF Less
<1>4. \A m \in T : n <= m
  BY <1>3
<1> QED BY <1>2, <1>4

\* There are partial sums of any sequence: the function that Sums chooses exists.
LEMMA SumsExist ==
  ASSUME NEW n \in Nat, NEW ns \in [1..n -> Int]
  PROVE  \E g \in [0..n -> Int] : g[0] = 0 /\ \A i \in 1..n : g[i] = g[i - 1] + ns[i]
<1> DEFINE P(k) == \E g \in [0..k -> Int] : g[0] = 0 /\ \A i \in 1..k : g[i] = g[i - 1] + ns[i]
           T == {k \in 0..n : ~P(k)}
<1>1. SUFFICES ASSUME T # {} PROVE FALSE
  <2>1. n \in 0..n
    OBVIOUS
  <2> QED BY <1>1, <2>1
<1>2. T \in SUBSET Nat
  OBVIOUS
<1>3. PICK k \in T : \A m \in T : k <= m
  BY <1>1, <1>2, Smallest
<1>4. CASE k = 0
  <2> DEFINE g == [i \in 0..0 |-> 0]
  <2>1. g \in [0..0 -> Int] /\ g[0] = 0 /\ \A i \in 1..0 : g[i] = g[i - 1] + ns[i]
    OBVIOUS
  <2>2. P(0)
    BY <2>1
  <2> QED BY <1>3, <1>4, <2>2
<1>5. CASE k # 0
  <2>1. k - 1 \in 0..n /\ k \in 1..n /\ ~(k <= k - 1) /\ k - 1 \in Nat
    BY <1>3, <1>5
  <2>2. P(k - 1)
    <3>1. k - 1 \notin T
      BY <1>3, <2>1
    <3> QED BY <2>1, <3>1
  <2>3. PICK g \in [0..(k - 1) -> Int] :
          g[0] = 0 /\ \A i \in 1..(k - 1) : g[i] = g[i - 1] + ns[i]
    BY <2>2
  <2> DEFINE h == [i \in 0..k |-> IF i = k THEN g[k - 1] + ns[k] ELSE g[i]]
  <2>4. ns[k] \in Int /\ g[k - 1] \in Int
    BY <2>1, <2>3
  <2>5. h \in [0..k -> Int]
    BY <2>1, <2>3, <2>4
  <2>6. h[0] = 0
    BY <2>1, <2>3
  <2>7. \A i \in 1..k : h[i] = h[i - 1] + ns[i]
    <3>1. TAKE i \in 1..k
    <3>2. CASE i = k
      BY <2>1, <3>2
    <3>3. CASE i # k
      <4>1. i \in 1..(k - 1) /\ i \in 0..k /\ i - 1 \in 0..k /\ i - 1 # k
        BY <2>1, <3>3
      <4> QED BY <2>3, <3>3, <4>1
    <3> QED BY <3>2, <3>3
  <2>8. P(k)
    BY <2>5, <2>6, <2>7
  <2> QED BY <1>3, <2>8
<1> QED BY <1>4, <1>5

\* Sums are the partial sums.
LEMMA SumsAre ==
  ASSUME NEW ns, NEW n \in Nat, ns \in [1..n -> Int], Len(ns) = n
  PROVE  /\ Sums(ns) \in [0..n -> Int]
         /\ Sums(ns)[0] = 0
         /\ \A i \in 1..n : Sums(ns)[i] = Sums(ns)[i - 1] + ns[i]
<1> DEFINE F(g) == [i \in 0..n |-> IF i = 0 THEN 0 ELSE g[i - 1] + ns[i]]
<1>1. PICK g \in [0..n -> Int] : g[0] = 0 /\ \A i \in 1..n : g[i] = g[i - 1] + ns[i]
  BY SumsExist
<1>2. g = F(g)
  <2>1. \A i \in 0..n : g[i] = IF i = 0 THEN 0 ELSE g[i - 1] + ns[i]
    BY <1>1
  <2> QED BY <1>1, <2>1
<1>3. Sums(ns) = CHOOSE f : f = F(f)
  BY DEF Sums
<1>4. Sums(ns) = F(Sums(ns))
  BY <1>2, <1>3, Zenon
<1>5. /\ DOMAIN Sums(ns) = 0..n
      /\ \A i \in 0..n : Sums(ns)[i] = IF i = 0 THEN 0 ELSE Sums(ns)[i - 1] + ns[i]
  BY <1>4
<1> DEFINE T == {i \in 0..n : Sums(ns)[i] \notin Int}
<1>6. T = {}
  <2>1. SUFFICES ASSUME T # {} PROVE FALSE
    OBVIOUS
  <2>2. T \in SUBSET Nat
    OBVIOUS
  <2>3. PICK i \in T : \A m \in T : i <= m
    BY <2>1, <2>2, Smallest
  <2>4. i # 0
    BY <1>5, <2>3
  <2>5. i \in 1..n /\ i - 1 \in 0..n /\ ~(i <= i - 1)
    BY <2>3, <2>4
  <2>6. Sums(ns)[i - 1] \in Int /\ ns[i] \in Int
    BY <2>3, <2>5
  <2>7. Sums(ns)[i] = Sums(ns)[i - 1] + ns[i]
    BY <1>5, <2>4, <2>5
  <2> QED BY <2>3, <2>6, <2>7
<1>7. \A i \in 0..n : Sums(ns)[i] \in Int
  BY <1>6
<1>8. Sums(ns) \in [0..n -> Int]
  <2>1. Sums(ns) = [i \in 0..n |-> IF i = 0 THEN 0 ELSE Sums(ns)[i - 1] + ns[i]]
    BY <1>4
  <2>2. \A i \in 0..n : (IF i = 0 THEN 0 ELSE Sums(ns)[i - 1] + ns[i]) \in Int
    BY <1>5, <1>7
  <2> QED BY <2>1, <2>2
<1>9. Sums(ns)[0] = 0
  BY <1>5
<1>10. \A i \in 1..n : Sums(ns)[i] = Sums(ns)[i - 1] + ns[i]
  BY <1>5
<1> QED BY <1>8, <1>9, <1>10

\* A total is a number.
LEMMA TotalIsInt ==
  ASSUME NEW n \in Nat, NEW ns \in [1..n -> Int], Len(ns) = n
  PROVE  Total(ns) \in Int
BY SumsAre DEF Total

\* A total of lengths, none negative, is no less than any of them, and not negative.
LEMMA TotalBounds ==
  ASSUME NEW n \in Nat, NEW ns \in [1..n -> Nat], Len(ns) = n
  PROVE  Total(ns) \in Nat /\ \A i \in 1..n : ns[i] <= Total(ns)
<1>1. ns \in [1..n -> Int]
  OBVIOUS
<1>2. /\ Sums(ns) \in [0..n -> Int] /\ Sums(ns)[0] = 0
      /\ \A i \in 1..n : Sums(ns)[i] = Sums(ns)[i - 1] + ns[i]
  BY <1>1, SumsAre
<1> DEFINE T == {k \in 0..n : ~(Sums(ns)[k] >= 0 /\ \A i \in 1..k : ns[i] <= Sums(ns)[k])}
<1>3. T = {}
  <2>1. SUFFICES ASSUME T # {} PROVE FALSE
    OBVIOUS
  <2>2. T \in SUBSET Nat
    OBVIOUS
  <2>3. PICK k \in T : \A m \in T : k <= m
    BY <2>1, <2>2, Smallest
  <2>4. k # 0
    BY <1>2, <2>3
  <2>5. k \in 1..n /\ k - 1 \in 0..n /\ ~(k <= k - 1)
    BY <2>3, <2>4
  <2>6. Sums(ns)[k - 1] >= 0 /\ \A i \in 1..(k - 1) : ns[i] <= Sums(ns)[k - 1]
    BY <2>3, <2>5
  <2>7. /\ Sums(ns)[k] = Sums(ns)[k - 1] + ns[k]
        /\ Sums(ns)[k - 1] \in Int /\ ns[k] \in Nat
    BY <1>2, <2>5
  <2>8. \A i \in 1..k : ns[i] <= Sums(ns)[k]
    <3>1. TAKE i \in 1..k
    <3>2. CASE i = k
      BY <2>6, <2>7, <3>2
    <3>3. CASE i # k
      <4>1. i \in 1..(k - 1) /\ ns[i] \in Nat
        BY <2>5, <3>3
      <4> QED BY <2>6, <2>7, <4>1
    <3> QED BY <3>2, <3>3
  <2> QED BY <2>3, <2>6, <2>7, <2>8
<1>4. n \notin T /\ n \in 0..n
  BY <1>3
<1>5. Sums(ns)[n] >= 0 /\ \A i \in 1..n : ns[i] <= Sums(ns)[n]
  BY <1>4
<1> QED BY <1>2, <1>5 DEF Total

-----------------------------------------------------------------------------
\* Numbers of a width.

\* A number that is an int stays what it is.
LEMMA AsIntExact ==
  ASSUME NEW x \in Nat, x <= MaxInt
  PROVE  AsInt(x) = x
<1> DEFINE h == Word \div 2
<1>1. h \in Int /\ Word \in Nat /\ 0 < h /\ h + h <= Word
  BY TTLLimits
<1>2. x + h \in Nat /\ x + h < Word
  BY <1>1 DEF MaxInt
<1>3. (x + h) % Word = x + h
  BY <1>1, <1>2
<1> QED BY <1>1, <1>3 DEF AsInt

\* What has wrapped is a number.
LEMMA AsIntIsInt ==
  ASSUME NEW x \in Int
  PROVE  AsInt(x) \in Int
<1> DEFINE h == Word \div 2
<1>1. h \in Int /\ Word \in Nat /\ 0 < Word
  BY TTLLimits
<1>2. (x + h) % Word \in Int
  BY <1>1
<1> QED BY <1>1, <1>2 DEF AsInt


-----------------------------------------------------------------------------
\* Components.

\* The shape of a component, before and after the rewriting.
Shaped(c) ==
  /\ c.whole \in Int /\ c.unit \in {"h", "d", "w"}
  /\ c.frac = None \/ (c.frac.value \in Nat /\ c.frac.scale \in Scales)

\* A component of a text, and what it says.
LEMMA ComponentIs ==
  ASSUME NEW c \in Component
  PROVE  /\ c.whole \in Nat /\ c.unit \in {"h", "d", "w"}
         /\ c = [whole |-> c.whole, frac |-> c.frac, unit |-> c.unit]
         /\ c.frac # None => c.frac.value \in 0..5 /\ c.frac.scale = 10
         /\ HoursIn(c.unit) \in {1, 24, 168}
         /\ (HoursIn(c.unit) = 1) <=> (c.unit = "h")
BY TTLLimits DEF Component, Fraction, HoursIn

\* The rewriting keeps the shape.
LEMMA ExpandShapes ==
  ASSUME NEW c \in Component
  PROVE  Shaped(Expand(c))
<1> DEFINE digits == IF c.frac = None THEN c.whole ELSE c.frac.value
           hours == AsInt(digits * HoursIn(c.unit))
<1>1. /\ c.whole \in Nat /\ c.unit \in {"h", "d", "w"} /\ HoursIn(c.unit) \in {1, 24, 168}
      /\ c.frac # None => c.frac.value \in 0..5 /\ c.frac.scale = 10
      /\ c = [whole |-> c.whole, frac |-> c.frac, unit |-> c.unit]
  BY ComponentIs
<1>2. CASE c.unit = "h" \/ digits > MaxInt
  <2>1. Expand(c) = c
    BY <1>2 DEF Expand
  <2> QED BY <1>1, <2>1 DEF Shaped, Scales
<1>3. CASE ~(c.unit = "h" \/ digits > MaxInt) /\ c.frac = None
  <2>1. Expand(c) = [whole |-> hours, frac |-> None, unit |-> "h"]
    BY <1>3 DEF Expand
  <2>2. hours \in Int
    <3>1. digits * HoursIn(c.unit) \in Int
      BY <1>1, <1>3
    <3> QED BY <3>1, AsIntIsInt
  <2> HIDE DEF hours
  <2> QED BY <1>3, <2>1, <2>2 DEF Shaped
<1>4. CASE ~(c.unit = "h" \/ digits > MaxInt) /\ c.frac # None
  <2>1. Expand(c) = [whole |-> c.whole, frac |-> [value |-> hours, scale |-> ScaleOf(hours)],
                     unit |-> "h"]
    BY <1>4 DEF Expand
  <2>2. hours \in Nat /\ hours < 1000
    <3>1. digits * HoursIn(c.unit) \in 0..840
      BY <1>1, <1>4
    <3>2. digits * HoursIn(c.unit) <= MaxInt
      BY <3>1, TTLLimits DEF MaxInt
    <3>3. AsInt(digits * HoursIn(c.unit)) = digits * HoursIn(c.unit)
      BY <3>1, <3>2, AsIntExact
    <3> QED BY <3>1, <3>3
  <2> HIDE DEF hours
  <2>3. ScaleOf(hours) \in Scales
    <3>1. \E s \in Scales : hours < s /\ \A r \in Scales : hours < r => s <= r
      BY <2>2 DEF Scales
    <3> QED BY <3>1 DEF ScaleOf
  <2> QED BY <1>1, <2>1, <2>2, <2>3 DEF Shaped
<1> QED BY <1>2, <1>3, <1>4

\* A component of the shape has a length, and so it has with its sign turned.
LEMMA LengthIsInt ==
  ASSUME NEW c, Shaped(c)
  PROVE  Length(c) \in Int
<1>1. CASE c.frac = None
  BY <1>1 DEF Shaped, Length, Hour
<1>2. CASE c.frac # None
  <2>1. (Hour * c.frac.value) \div c.frac.scale \in Int
    BY <1>2 DEF Shaped, Scales, Hour
  <2> QED BY <1>2, <2>1 DEF Shaped, Length, Hour
<1> QED BY <1>1, <1>2

\* Turning the sign of a component keeps its shape.
LEMMA TurnedIsShaped ==
  ASSUME NEW w, NEW f, NEW u, NEW c, c = [whole |-> w, frac |-> f, unit |-> u], Shaped(c)
  PROVE  Shaped([c EXCEPT !.whole = -@])
<1>1. [c EXCEPT !.whole = -@] = [whole |-> -w, frac |-> f, unit |-> u]
  OBVIOUS
<1> QED BY <1>1 DEF Shaped

\* A whole number of hours, days or weeks that does not wrap is rewritten to as
\* many hours as it says, unless it is no int.
LEMMA ExpandIsExact ==
  ASSUME NEW c \in Component, c.frac = None, ~Wraps(c)
  PROVE  /\ Said(c) \in Nat
         /\ c.unit = "h" \/ c.whole <= MaxInt =>
              /\ Expand(c).unit = "h" /\ Expand(c).whole \in Nat
              /\ Length(Expand(c)) = Said(c)
         /\ c.unit # "h" /\ c.whole > MaxInt =>
              /\ Expand(c).unit # "h"
              /\ Said(c) > Hour * MaxHours
<1>1. /\ c.whole \in Nat /\ c.unit \in {"h", "d", "w"} /\ HoursIn(c.unit) \in {1, 24, 168}
      /\ c = [whole |-> c.whole, frac |-> c.frac, unit |-> c.unit]
      /\ (HoursIn(c.unit) = 1) <=> (c.unit = "h")
  BY ComponentIs
<1>2. Said(c) = HoursIn(c.unit) * (1000 * c.whole) /\ Said(c) \in Nat
  BY <1>1 DEF Said, Hour
<1>3. MaxInt \in Int
  BY TTLLimits DEF MaxInt
<1>4. CASE c.unit = "h"
  <2>1. Expand(c) = c
    BY <1>4 DEF Expand
  <2> QED BY <1>1, <1>2, <1>4, <2>1 DEF Length, Hour
<1>5. CASE c.unit # "h" /\ c.whole <= MaxInt
  <2>1. c.whole * HoursIn(c.unit) \in Nat /\ c.whole * HoursIn(c.unit) <= MaxInt
    BY <1>1, <1>5, TTLLimits DEF Wraps, MaxInt
  <2>2. Expand(c) = [whole |-> AsInt(c.whole * HoursIn(c.unit)), frac |-> None, unit |-> "h"]
    BY <1>1, <1>5, TTLLimits DEF Expand, MaxInt
  <2>3. Expand(c) = [whole |-> c.whole * HoursIn(c.unit), frac |-> None, unit |-> "h"]
    BY <2>1, <2>2, AsIntExact
  <2>4. /\ Expand(c).unit = "h" /\ Expand(c).whole = c.whole * HoursIn(c.unit)
        /\ Length(Expand(c)) = 1000 * (c.whole * HoursIn(c.unit)) + 0
    BY <2>3 DEF Length, Hour
  <2>5. Length(Expand(c)) = Said(c)
    BY <1>1, <1>2, <2>4
  <2> QED BY <1>1, <1>2, <1>5, <1>3, <2>1, <2>4, <2>5
<1>6. CASE c.unit # "h" /\ c.whole > MaxInt
  <2>1. Expand(c) = c
    BY <1>6 DEF Expand
  <2>2. Said(c) > Hour * MaxHours
    BY <1>1, <1>2, <1>6, TTLLimits DEF MaxInt, Hour
  <2> QED BY <1>1, <1>2, <1>6, <1>3, <2>1, <2>2
<1> QED BY <1>1, <1>4, <1>5, <1>6, <1>3


-----------------------------------------------------------------------------
\* Texts.

\* What comes of a text is an error or a length above zero: also of one with
\* fractions, or with products that wrap.
LEMMA TTLIsPositive ==
  ASSUME NEW negative \in BOOLEAN, NEW t \in Seq(Component)
  PROVE  ParseTTL(negative, t) = Error
         \/ (ParseTTL(negative, t) \in Int /\ 0 < ParseTTL(negative, t))
<1>1. CASE t = <<>>
  BY <1>1 DEF ParseTTL
<1>2. CASE t # <<>>
  <2> DEFINE n == Len(t)
             e == [i \in DOMAIN t |-> Expand(t[i])]
             first == IF e[1].whole < 0 THEN [e[1] EXCEPT !.whole = -@] ELSE e[1]
             ls == [i \in DOMAIN e |-> Length(IF i = 1 THEN first ELSE e[i])]
             d == ParseDuration(negative, e)
  <2>1. n \in Nat /\ 1 \in 1..n /\ DOMAIN t = 1..n /\ \A i \in 1..n : t[i] \in Component
    BY <1>2
  <2>2. DOMAIN e = 1..n /\ \A i \in 1..n : e[i] = Expand(t[i]) /\ Shaped(e[i])
    BY <2>1, ExpandShapes
  <2>3. Shaped(first)
    <3>1. Expand(t[1]) = [whole |-> Expand(t[1]).whole, frac |-> Expand(t[1]).frac,
                          unit |-> Expand(t[1]).unit]
      <4>1. t[1] = [whole |-> t[1].whole, frac |-> t[1].frac, unit |-> t[1].unit]
        BY <2>1, ComponentIs
      <4> QED BY <4>1 DEF Expand
    <3>2. Shaped([e[1] EXCEPT !.whole = -@])
      BY <2>1, <2>2, <3>1, TurnedIsShaped
    <3> QED BY <2>1, <2>2, <3>2
  <2>4. ls \in [1..n -> Int] /\ Len(ls) = n
    <3> HIDE DEF first, e
    <3>1. \A i \in 1..n : Length(IF i = 1 THEN first ELSE e[i]) \in Int
      BY <2>2, <2>3, LengthIsInt
    <3> QED BY <2>1, <2>2, <3>1
  <2>5. Total(ls) \in Int
    BY <2>1, <2>4, TotalIsInt
  <2>6. d \in Int \/ d = Error
    <3>1. d = Error \/ d = Total(ls) \/ d = -Total(ls)
      BY Zenon DEF ParseDuration
    <3> QED BY <2>5, <3>1
  <2>7. ParseTTL(negative, t) = IF d = Error \/ d <= 0 THEN Error ELSE d
    BY <1>2 DEF ParseTTL
  <2> QED BY <2>6, <2>7
<1> QED BY <1>1, <1>2

\* A text of whole numbers, none of which wraps, is read as it is meant.
LEMMA WholeTTLIsExact ==
  ASSUME NEW negative \in BOOLEAN, NEW t \in Seq(Component), Plain(t)
  PROVE  ParseTTL(negative, t) = Meant(negative, t)
<1> DEFINE n == Len(t)
           e == [i \in DOMAIN t |-> Expand(t[i])]
           said == [i \in DOMAIN t |-> Said(t[i])]
           Read(c) == c.unit = "h" \/ c.whole <= MaxInt
<1>1. n \in Nat /\ DOMAIN t = 1..n /\ \A i \in 1..n : t[i] \in Component
  OBVIOUS
<1>2. \A i \in 1..n : /\ Said(t[i]) \in Nat
                      /\ Read(t[i]) => /\ e[i].unit = "h" /\ e[i].whole \in Nat
                                       /\ Length(e[i]) = Said(t[i])
                      /\ ~Read(t[i]) => e[i].unit # "h" /\ Said(t[i]) > Hour * MaxHours
  <2>1. TAKE i \in 1..n
  <2>2. t[i] \in Component /\ t[i].frac = None /\ ~Wraps(t[i]) /\ e[i] = Expand(t[i])
    BY <1>1 DEF Plain
  <2>3. t[i].whole \in Nat /\ MaxInt \in Int
    BY <2>2, ComponentIs, TTLLimits DEF MaxInt
  <2> HIDE DEF e
  <2> QED BY <2>2, <2>3, ExpandIsExact
<1>3. said \in [1..n -> Nat] /\ Len(said) = n
  BY <1>1, <1>2
<1>4. Total(said) \in Nat /\ \A i \in 1..n : said[i] <= Total(said)
  BY <1>1, <1>3, TotalBounds
<1>5. Hour * MaxHours \in Nat
  BY TTLLimits DEF Hour
<1>6. Meant(negative, t) =
        IF negative \/ Total(said) = 0 \/ Total(said) > Hour * MaxHours
        THEN Error ELSE Total(said)
  BY DEF Meant
<1> HIDE DEF said
<1>7. CASE t = <<>>
  <2>1. Total(said) = 0
    <3>1. n = 0 /\ said \in [1..n -> Int] /\ Len(said) = 0
      BY <1>3, <1>7
    <3> QED BY <3>1, SumsAre DEF Total
  <2> QED BY <1>6, <1>7, <2>1 DEF ParseTTL
<1>8. CASE t # <<>> /\ \E i \in 1..n : ~Read(t[i])
  <2>1. PICK i \in 1..n : ~Read(t[i])
    BY <1>8
  <2>2. e[i].unit # "h" /\ said[i] > Hour * MaxHours
    BY <1>1, <1>2, <2>1 DEF said
  <2>3. ParseDuration(negative, e) = Error
    BY <1>1, <2>2 DEF ParseDuration
  <2>4. ParseTTL(negative, t) = Error
    BY <1>8, <2>3 DEF ParseTTL
  <2>5. Total(said) > Hour * MaxHours
    BY <1>3, <1>4, <1>5, <2>2
  <2> QED BY <1>6, <2>4, <2>5
<1>9. CASE t # <<>> /\ \A i \in 1..n : Read(t[i])
  <2> DEFINE d == ParseDuration(negative, e)
  <2>1. DOMAIN e = 1..n /\ Len(e) = n /\ 1 \in 1..n
    BY <1>1, <1>9
  <2> HIDE DEF e, Read
  <2>2. \A i \in 1..n : e[i].unit = "h" /\ ~(e[i].whole < 0) /\ Length(e[i]) = Said(t[i])
    <3>1. \A i \in 1..n : e[i].whole \in Nat /\ e[i].unit = "h" /\ Length(e[i]) = Said(t[i])
      BY <1>2, <1>9
    <3> QED BY <3>1
  <2>3. [i \in DOMAIN e |-> Length(IF i = 1 THEN e[1] ELSE e[i])] = said
    BY <1>1, <2>1, <2>2 DEF said
  <2>4. d = IF Total(said) > Hour * MaxHours THEN Error
            ELSE IF negative THEN -Total(said) ELSE Total(said)
    BY <2>1, <2>2, <2>3 DEF ParseDuration
  <2>5. ParseTTL(negative, t) = IF d = Error \/ d <= 0 THEN Error ELSE d
    BY <1>9 DEF ParseTTL, e
  <2> HIDE DEF d
  <2> QED BY <1>4, <1>5, <1>6, <2>4, <2>5
<1> QED BY <1>7, <1>8, <1>9


-----------------------------------------------------------------------------
\* Who has written what so far: the configuration is what loadConfig makes of
\* the environment, and the row's lifetime what an upload makes of the header.
ConfigInv ==
  /\ sign \in BOOLEAN /\ text \in Seq(Component)
  /\ env \in [Keys -> EnvTexts \cup {None}]
  /\ cfg # None => cfg = LoadConfig
  /\ ttl # None => Booted /\ ttl = Lifetime

\* The invariant holds before the boot.
LEMMA ConfigInvInit == ConfigInit => ConfigInv
BY DEF ConfigInit, Init, ConfigInv

\* Booting, writing a header and uploading keep the invariant.
LEMMA ConfigInvStep == ConfigInv /\ [ConfigNext]_configVars => ConfigInv'
<1> SUFFICES ASSUME ConfigInv, [ConfigNext]_configVars PROVE ConfigInv'
  OBVIOUS
<1>1. CASE Boot
  <2>1. UNCHANGED <<sign, text, env, ttl>> /\ cfg = None /\ cfg' = LoadConfig
    BY <1>1 DEF Boot, vars
  <2>2. ttl = None
    BY <2>1 DEF ConfigInv, Booted
  <2>3. LoadConfig' = LoadConfig
    BY <2>1 DEF LoadConfig, EnvTTL
  <2> QED BY <2>1, <2>2, <2>3 DEF ConfigInv
<1>2. CASE Ask
  <2>1. /\ UNCHANGED <<sign, env, cfg, ttl>> /\ ttl = None
        /\ \E c \in Component : text' = Append(text, c)
    BY <1>2 DEF Ask, Write
  <2>2. text' \in Seq(Component)
    BY <2>1 DEF ConfigInv
  <2>3. LoadConfig' = LoadConfig
    BY <2>1 DEF LoadConfig, EnvTTL
  <2> QED BY <2>1, <2>2, <2>3 DEF ConfigInv
<1>3. CASE Upload
  <2>1. UNCHANGED <<sign, text, env, cfg>> /\ Booted /\ ttl' = Lifetime
    BY <1>3 DEF Upload, vars
  <2>2. LoadConfig' = LoadConfig /\ Lifetime' = Lifetime /\ Booted' = Booted
    BY <2>1 DEF LoadConfig, EnvTTL, Lifetime, Asked, NoHeader, Booted
  <2> QED BY <2>1, <2>2 DEF ConfigInv
<1>4. CASE UNCHANGED configVars
  <2>1. UNCHANGED <<sign, text, env, cfg, ttl>>
    BY <1>4 DEF configVars, vars
  <2>2. LoadConfig' = LoadConfig /\ Lifetime' = Lifetime /\ Booted' = Booted
    BY <2>1 DEF LoadConfig, EnvTTL, Lifetime, Asked, NoHeader, Booted
  <2> QED BY <2>1, <2>2 DEF ConfigInv
<1> QED BY <1>1, <1>2, <1>3, <1>4 DEF ConfigNext, Settled

\* The configuration and the row stay what loadConfig (cmd/server/main.go) and
\* parseUploadRequest (wire.go) make of the texts.
LEMMA ConfigHolds == ConfigSpec => []ConfigInv
<1>1. ConfigInit => ConfigInv
  BY ConfigInvInit
<1>2. ConfigInv /\ [ConfigNext]_configVars => ConfigInv'
  BY ConfigInvStep
<1> QED BY <1>1, <1>2, PTL DEF ConfigSpec

\* ParseTTL of ttl.go reads a text of any number of whole weeks, days and hours
\* as it is meant, for any width of an int, unless a product wraps.
THEOREM WholeTTLsExact == ConfigSpec => []WholeTTLsAreExact
<1>1. ConfigInv => WholeTTLsAreExact
  BY WholeTTLIsExact DEF ConfigInv, WholeTTLsAreExact, Plain
<1> QED BY <1>1, ConfigHolds, PTL

\* The three lifetimes of a server that has booted: each is what EnvTTL reads,
\* and above zero, and the default is between the others.
LEMMA BootedConfig ==
  ASSUME ConfigInv, Booted
  PROVE  /\ \A k \in Keys : cfg[k] = EnvTTL(k) /\ cfg[k] \in Int /\ 0 < cfg[k]
         /\ cfg.min <= cfg.default /\ cfg.default <= cfg.max
         /\ cfg.default # Error
<1> DEFINE c == [k \in Keys |-> EnvTTL(k)]
<1>1. /\ cfg = c /\ \A k \in Keys : c[k] # Error
      /\ ~(c.min > c.max) /\ ~(c.default < c.min) /\ ~(c.default > c.max)
  BY DEF ConfigInv, Booted, LoadConfig
<1>2. \A k \in Keys : EnvTTL(k) # Error
  BY <1>1
<1>3. \A k \in Keys : EnvTTL(k) \in Int /\ 0 < EnvTTL(k)
  <2>1. TAKE k \in Keys
  <2>2. CASE env[k] = None
    BY <2>2, BuiltInFits DEF EnvTTL, Keys
  <2>3. CASE env[k] # None
    <3>1. env[k].negative \in BOOLEAN /\ env[k].text \in Seq(Component)
      BY <2>3, EnvTextsAreTexts DEF ConfigInv
    <3>2. EnvTTL(k) = ParseTTL(env[k].negative, env[k].text)
      BY <2>3 DEF EnvTTL
    <3> QED BY <1>2, <3>1, <3>2, TTLIsPositive
  <2> QED BY <2>2, <2>3
<1>4. "min" \in Keys /\ "default" \in Keys /\ "max" \in Keys
  BY DEF Keys
<1> HIDE DEF Keys
<1>5. \A k \in Keys : cfg[k] = EnvTTL(k) /\ cfg[k] \in Int /\ 0 < cfg[k] /\ cfg[k] # Error
  BY <1>1, <1>2, <1>3
<1>6. ~(cfg.default < cfg.min) /\ ~(cfg.default > cfg.max)
  BY <1>1
<1> QED BY <1>4, <1>5, <1>6

\* A text of an operator who wrote only whole numbers is read as it says.
LEMMA EnvIsExact ==
  ASSUME ConfigInv, PlainEnv, NEW k \in Keys
  PROVE  EnvTTL(k) = Says(k)
<1>1. CASE env[k] = None
  BY <1>1 DEF EnvTTL, Says
<1>2. CASE env[k] # None
  <2>1. env[k].negative \in BOOLEAN /\ env[k].text \in Seq(Component) /\ Plain(env[k].text)
    BY <1>2, EnvTextsAreTexts DEF ConfigInv, PlainEnv
  <2> QED BY <1>2, <2>1, WholeTTLIsExact DEF EnvTTL, Says
<1> QED BY <1>1, <1>2

\* A row that is accepted lives as long as its sender, or else the operator's
\* default, says, and within the operator's limits.
THEOREM LimitsHold == ConfigSpec => []LimitsAsMeant
<1>1. ASSUME ConfigInv, ttl \notin {None, Error}, Plain(text), PlainEnv
      PROVE  /\ ttl = IF NoHeader THEN Says("default") ELSE Meant(sign, text)
             /\ Says("min") <= ttl /\ ttl <= Says("max")
  <2>1. Booted /\ ttl = Asked /\ Asked # Error /\ ~(Asked < cfg.min) /\ ~(Asked > cfg.max)
    BY <1>1 DEF ConfigInv, Lifetime
  <2>2. /\ \A k \in Keys : cfg[k] = EnvTTL(k) /\ cfg[k] \in Int
        /\ "min" \in Keys /\ "default" \in Keys /\ "max" \in Keys
    BY <1>1, <2>1, BootedConfig DEF Keys
  <2>3. \A k \in Keys : EnvTTL(k) = Says(k)
    BY <1>1, EnvIsExact
  <2>4. cfg.min = Says("min") /\ cfg.default = Says("default") /\ cfg.max = Says("max")
    BY <2>2, <2>3
  <2>5. cfg.min \in Int /\ cfg.default \in Int /\ cfg.max \in Int
    BY <2>2
  <2>6. sign \in BOOLEAN /\ text \in Seq(Component)
    BY <1>1 DEF ConfigInv
  <2>7. Asked \in Int
    BY <2>1, <2>5, <2>6, TTLIsPositive DEF Asked
  <2>8. Asked = IF NoHeader THEN Says("default") ELSE Meant(sign, text)
    BY <1>1, <2>4, <2>6, WholeTTLIsExact DEF Asked
  <2> QED BY <2>1, <2>4, <2>5, <2>7, <2>8
<1>2. ConfigInv => LimitsAsMeant
  BY <1>1 DEF LimitsAsMeant
<1> QED BY <1>2, ConfigHolds, PTL

\* A server that boots has a period for its sweeper and does not refuse an
\* upload that names no lifetime, whatever texts its operator wrote.
THEOREM BootedServers == ConfigSpec => []BootedServes
<1>1. ASSUME ConfigInv, Booted PROVE cfg.min > 0 /\ (NoHeader => ttl # Error)
  <2>1. /\ cfg.min \in Int /\ cfg.default \in Int /\ cfg.max \in Int /\ 0 < cfg.min
        /\ cfg.min <= cfg.default /\ cfg.default <= cfg.max /\ cfg.default # Error
    BY <1>1, BootedConfig DEF Keys
  <2>2. NoHeader => Lifetime = cfg.default
    BY <2>1 DEF Lifetime, Asked
  <2>3. NoHeader => ttl # Error
    BY <1>1, <2>1, <2>2, NoneIsNoError DEF ConfigInv
  <2> QED BY <2>1, <2>3
<1>2. ConfigInv => BootedServes
  BY <1>1 DEF BootedServes
<1> QED BY <1>2, ConfigHolds, PTL

=============================================================================
