------------------------- MODULE OrderPricingProofs -------------------------
(***************************************************************************)
(* Theorems about OrderPricing, for any width, any items, prices and       *)
(* quantities within it, and requests of any length.                       *)
(***************************************************************************)
EXTENDS OrderPricing, FiniteSetTheorems, TLAPS

-----------------------------------------------------------------------------
(* Integers of a width. *)

\* Division with remainder.
LEMMA Division ==
  ASSUME NEW a \in Int, NEW m \in Nat \ {0}
  PROVE  a \div m \in Int /\ a % m \in 0 .. m - 1 /\ a = (a \div m) * m + (a % m)
  OBVIOUS

LEMMA MultipleOfModulus ==
  ASSUME NEW d \in Int, -2 * Half < d * (2 * Half), d * (2 * Half) < 2 * Half
  PROVE  d = 0
  <1>1. CASE d >= 1
    <2>1. d * (2 * Half) >= 2 * Half
      BY <1>1, WidthAssumption
    <2> QED BY <2>1, WidthAssumption
  <1>2. CASE d <= -1
    <2>1. d * (2 * Half) <= -2 * Half
      BY <1>2, WidthAssumption
    <2> QED BY <2>1, WidthAssumption
  <1> QED BY <1>1, <1>2, WidthAssumption

LEMMA WrapQuotient ==
  ASSUME NEW x \in Int PROVE \E d \in Int : x = Wrap(x) + d * (2 * Half)
  <1> DEFINE m == 2 * Half
             q == (x + Half) \div m
  <1>1. m \in Nat \ {0} /\ x + Half \in Int
    BY WidthAssumption
  <1>2. q \in Int /\ (x + Half) % m \in 0 .. m - 1 /\ x + Half = q * m + ((x + Half) % m)
    BY <1>1, Division
  <1>3. x = Wrap(x) + q * m
    <2> HIDE DEF q
    <2>1. q * m \in Int
      BY <1>1, <1>2
    <2> QED BY <1>1, <1>2, <2>1, WidthAssumption DEF Wrap
  <1> QED BY <1>2, <1>3

LEMMA WrapType ==
  ASSUME NEW x \in Int PROVE Wrap(x) \in -Half .. Half - 1
  BY WidthAssumption DEF Wrap

\* The only number of the width that differs from x by a multiple of the modulus.
LEMMA WrapUnique ==
  ASSUME NEW x \in Int, NEW y \in -Half .. Half - 1, NEW d \in Int, x = y + d * (2 * Half)
  PROVE  Wrap(x) = y
  <1>1. PICK q \in Int : x = Wrap(x) + q * (2 * Half)
    BY WrapQuotient
  <1>2. (d - q) * (2 * Half) = d * (2 * Half) - q * (2 * Half)
    BY WidthAssumption
  <1>3. -2 * Half < (d - q) * (2 * Half) /\ (d - q) * (2 * Half) < 2 * Half
    BY <1>1, <1>2, WrapType, WidthAssumption
  <1>4. d - q = 0
    BY <1>3, MultipleOfModulus
  <1> QED BY <1>4, <1>1, WrapType, WidthAssumption

LEMMA WrapCongruent ==
  ASSUME NEW x \in Int, NEW y \in Int, NEW d \in Int, x = y + d * (2 * Half)
  PROVE  Wrap(x) = Wrap(y)
  <1>1. PICK e \in Int : y = Wrap(y) + e * (2 * Half)
    BY WrapQuotient
  <1>2. (e + d) * (2 * Half) = e * (2 * Half) + d * (2 * Half)
    BY WidthAssumption
  <1>3. Wrap(y) \in -Half .. Half - 1
    BY WrapType
  <1>4. x = Wrap(y) + (e + d) * (2 * Half)
    BY <1>1, <1>2, <1>3, WidthAssumption
  <1> QED BY <1>3, <1>4, WrapUnique

\* Wrapping the operands of a sum or a product makes no difference to what
\* wrapping its result leaves.
LEMMA WrapSum ==
  ASSUME NEW x \in Int, NEW y \in Int PROVE Wrap(Wrap(x) + y) = Wrap(x + y)
  <1>1. PICK d \in Int : x = Wrap(x) + d * (2 * Half)
    BY WrapQuotient
  <1>2. Wrap(x) \in Int
    BY WrapType
  <1>3. x + y = (Wrap(x) + y) + d * (2 * Half)
    BY <1>1, <1>2, WidthAssumption
  <1> QED BY <1>2, <1>3, WrapCongruent

LEMMA WrapProduct ==
  ASSUME NEW x \in Int, NEW p \in Int PROVE Wrap(p * Wrap(x)) = Wrap(p * x)
  <1>1. PICK d \in Int : x = Wrap(x) + d * (2 * Half)
    BY WrapQuotient
  <1>2. Wrap(x) \in Int
    BY WrapType
  <1>3. p * x = p * Wrap(x) + (p * d) * (2 * Half)
    <2>1. \A w, h \in Int : p * (w + d * h) = p * w + (p * d) * h
      OBVIOUS
    <2>2. 2 * Half \in Int
      BY WidthAssumption
    <2>3. p * (Wrap(x) + d * (2 * Half)) = p * Wrap(x) + (p * d) * (2 * Half)
      BY <1>2, <2>1, <2>2
    <2> QED BY <1>1, <2>3
  <1> QED BY <1>2, <1>3, WrapCongruent

LEMMA WrapSmall ==
  ASSUME NEW x \in -Half .. Half - 1 PROVE Wrap(x) = x
  <1>1. x \in Int /\ x = x + 0 * (2 * Half)
    BY WidthAssumption
  <1> QED BY <1>1, WrapUnique

\* What overflows by less than the modulus comes out negative.
LEMMA WrapOverflow ==
  ASSUME NEW x \in Half .. 2 * Half - 1 PROVE Wrap(x) < 0
  <1>1. x \in Int /\ x - 2 * Half \in -Half .. Half - 1 /\ x = (x - 2 * Half) + 1 * (2 * Half)
    BY WidthAssumption
  <1>2. Wrap(x) = x - 2 * Half
    BY <1>1, WrapUnique
  <1> QED BY <1>2, WidthAssumption

-----------------------------------------------------------------------------
(* Sums, by induction over the length of their prefixes. *)

\* A set with 0 and every successor has every natural number: the library's
\* induction without its operator parameter.
LEMMA NatByInduction ==
  ASSUME NEW S, 0 \in S, \A n \in Nat : n \in S => n + 1 \in S
  PROVE  Nat \subseteq S
  <1> DEFINE T == Nat \ S
  <1>1. SUFFICES ASSUME T # {} PROVE FALSE
    OBVIOUS
  <1>2. PICK n \in T : \A m \in T : ~ (<<m, n>> \in OpToRel(<, Nat))
    BY <1>1, NatLessThanWellFounded, WFMin
  <1>3. n \in Nat /\ n \notin S /\ n # 0
    OBVIOUS
  <1>4. n - 1 \in Nat /\ n - 1 < n /\ (n - 1) + 1 = n
    BY <1>3
  <1>5. <<n - 1, n>> \in OpToRel(<, Nat)
    BY <1>3, <1>4 DEF OpToRel
  <1>6. n - 1 \in S
    BY <1>2, <1>4, <1>5
  <1> QED BY <1>3, <1>4, <1>6

\* f holds the sums of the prefixes of s.
Running(f, s) ==
  f \in [0 .. Len(s) -> Int] /\ f[0] = 0 /\ \A n \in 1 .. Len(s) : f[n] = f[n - 1] + s[n]

\* There is one such f, and Sum looks up its last value.
LEMMA SumIs ==
  ASSUME NEW s \in Seq(Int), NEW f, Running(f, s)
  PROVE  Sum(s) = f[Len(s)]
  <1> DEFINE Def(g) == g = [n \in 0 .. Len(s) |-> IF n = 0 THEN 0 ELSE g[n - 1] + s[n]]
             upTo == CHOOSE g : Def(g)
  <1>1. f = [n \in 0 .. Len(s) |-> f[n]]
    BY DEF Running
  <1>2. Def(f)
    <2>1. ASSUME NEW n \in 0 .. Len(s) PROVE f[n] = IF n = 0 THEN 0 ELSE f[n - 1] + s[n]
      BY DEF Running
    <2> QED BY <1>1, <2>1
  <1>3. Def(upTo)
    BY <1>2
  <1>4. Sum(s) = upTo[Len(s)]
    BY DEF Sum
  <1>5. Nat \subseteq {n \in Nat : n <= Len(s) => upTo[n] = f[n]}
    <2> HIDE DEF upTo
    <2>1. upTo[0] = f[0]
      BY <1>3 DEF Running
    <2>2. ASSUME NEW n \in Nat, n <= Len(s) => upTo[n] = f[n], n + 1 <= Len(s)
          PROVE  upTo[n + 1] = f[n + 1]
      <3>1. n + 1 \in 0 .. Len(s) /\ n + 1 # 0 /\ (n + 1) - 1 = n
        BY <2>2
      <3>2. upTo[n + 1] = upTo[n] + s[n + 1]
        BY <1>3, <3>1
      <3> QED BY <3>1, <3>2, <2>2 DEF Running
    <2> DEFINE S == {n \in Nat : n <= Len(s) => upTo[n] = f[n]}
    <2>3. 0 \in S
      BY <2>1
    <2>4. ASSUME NEW n \in Nat, n \in S PROVE n + 1 \in S
      <3>1. n + 1 \in Nat /\ (n + 1 <= Len(s) => n <= Len(s))
        OBVIOUS
      <3> QED BY <2>2, <2>4, <3>1
    <2> HIDE DEF S
    <2> QED BY <2>3, <2>4, NatByInduction DEF S
  <1> QED BY <1>4, <1>5

LEMMA RunningExists ==
  ASSUME NEW s \in Seq(Int) PROVE \E f : Running(f, s)
  <1> DEFINE Step(f, m) == /\ f \in [0 .. m -> Int] /\ f[0] = 0
                           /\ \A n \in 1 .. m : f[n] = f[n - 1] + s[n]
  <1>1. \E f : Step(f, 0)
    <2>1. Step([n \in 0 .. 0 |-> 0], 0) OBVIOUS
    <2> QED BY <2>1
  <1>2. ASSUME NEW m \in Nat, m + 1 <= Len(s), NEW f, Step(f, m)
        PROVE  \E g : Step(g, m + 1)
    <2> DEFINE g == [n \in 0 .. m + 1 |-> IF n = m + 1 THEN f[m] + s[m + 1] ELSE f[n]]
    <2>1. s[m + 1] \in Int /\ f[m] \in Int
      BY <1>2
    <2>2. g \in [0 .. m + 1 -> Int] /\ g[0] = 0
      BY <1>2, <2>1
    <2>3. ASSUME NEW n \in 1 .. m + 1 PROVE g[n] = g[n - 1] + s[n]
      BY <1>2, <2>3
    <2>4. Step(g, m + 1)
      BY <2>2, <2>3
    <2> QED BY <2>4
  <1>3. Nat \subseteq {m \in Nat : m <= Len(s) => \E f : Step(f, m)}
    <2> HIDE DEF Step
    <2> DEFINE S == {m \in Nat : m <= Len(s) => \E f : Step(f, m)}
    <2>1. 0 \in S BY <1>1
    <2>2. ASSUME NEW n \in Nat, n \in S PROVE n + 1 \in S
      BY <1>2, <2>2
    <2> HIDE DEF S
    <2> QED BY <2>1, <2>2, NatByInduction DEF S
  <1>4. Len(s) \in Nat /\ Len(s) <= Len(s)
    OBVIOUS
  <1>5. \E f : Step(f, Len(s))
    <2> HIDE DEF Step
    <2> QED BY <1>3, <1>4
  <1> QED BY <1>5 DEF Running

LEMMA SumType == ASSUME NEW s \in Seq(Int) PROVE Sum(s) \in Int
  BY RunningExists, SumIs DEF Running

LEMMA SumEmpty == Sum(<<>>) = 0
  <1>1. <<>> \in Seq(Int) /\ Len(<<>>) = 0
    OBVIOUS
  <1>2. PICK f : Running(f, <<>>)
    BY <1>1, RunningExists
  <1>3. f[0] = 0
    BY <1>2 DEF Running
  <1> QED BY <1>1, <1>2, <1>3, SumIs

\* One more element.
LEMMA SumNext ==
  ASSUME NEW s \in Seq(Int), NEW t \in Seq(Int), Len(t) = Len(s) + 1,
         \A k \in 1 .. Len(s) : t[k] = s[k]
  PROVE  Sum(t) = Sum(s) + t[Len(t)]
  <1>1. PICK f : Running(f, t)
    BY RunningExists
  <1> DEFINE g == [n \in 0 .. Len(s) |-> f[n]]
  <1>2. Running(g, s)
    BY <1>1 DEF Running
  <1>3. Sum(s) = g[Len(s)] /\ Sum(t) = f[Len(t)]
    BY <1>1, <1>2, SumIs
  <1>4. Len(t) \in 1 .. Len(t) /\ Len(t) - 1 = Len(s) /\ Len(s) \in 0 .. Len(s)
    OBVIOUS
  <1>5. f[Len(t)] = f[Len(s)] + t[Len(t)]
    BY <1>1, <1>4 DEF Running
  <1> QED BY <1>3, <1>4, <1>5

\* One element raised by d.
LEMMA SumRaised ==
  ASSUME NEW s \in Seq(Int), NEW t \in Seq(Int), Len(t) = Len(s),
         NEW j \in 1 .. Len(s), NEW d \in Int, t[j] = s[j] + d,
         \A k \in 1 .. Len(s) : k # j => t[k] = s[k]
  PROVE  Sum(t) = Sum(s) + d
  <1>1. PICK f : Running(f, s)
    BY RunningExists
  <1> DEFINE g == [n \in 0 .. Len(s) |-> IF n < j THEN f[n] ELSE f[n] + d]
  <1>2. Running(g, t)
    <2>1. g \in [0 .. Len(t) -> Int] /\ g[0] = 0
      BY <1>1 DEF Running
    <2>2. ASSUME NEW n \in 1 .. Len(t) PROVE g[n] = g[n - 1] + t[n]
      <3>1. f[n] = f[n - 1] + s[n] /\ f[n] \in Int /\ f[n - 1] \in Int /\ s[n] \in Int
        <4>1. n \in 1 .. Len(s) /\ n \in 0 .. Len(s) /\ n - 1 \in 0 .. Len(s)
          OBVIOUS
        <4>2. s \in [1 .. Len(s) -> Int]
          OBVIOUS
        <4> QED BY <4>1, <4>2, <1>1 DEF Running
      <3>2. n \in 0 .. Len(s) /\ n - 1 \in 0 .. Len(s) /\ n \in 1 .. Len(s)
        OBVIOUS
      <3>3. CASE n < j BY <3>1, <3>2, <3>3
      <3>4. CASE n = j BY <3>1, <3>2, <3>4
      <3>5. CASE n > j
        <4>1. t[n] = s[n] /\ ~ (n < j) /\ ~ (n - 1 < j)
          BY <3>2, <3>5
        <4>2. g[n] = f[n] + d /\ g[n - 1] = f[n - 1] + d
          BY <3>2, <4>1
        <4>3. f[n] + d = (f[n - 1] + d) + s[n]
          BY <3>1
        <4> HIDE DEF g
        <4> QED BY <4>1, <4>2, <4>3
      <3> QED BY <3>3, <3>4, <3>5
    <2> QED BY <2>1, <2>2 DEF Running
  <1>3. Sum(s) = f[Len(s)] /\ Sum(t) = g[Len(t)]
    BY <1>1, <1>2, SumIs
  <1> QED BY <1>1, <1>3 DEF Running
-----------------------------------------------------------------------------
(* The request, line by line and item by item: ls are lines, mn is a menu, *)
(* is are distinct items.                                                  *)

OfItem(ls, n, i) == [k \in 1 .. n |-> IF ls[k].item = i THEN ls[k].qty ELSE 0]

\* How much of item i the first n lines ask for.
Taken(ls, n, i) == Sum(OfItem(ls, n, i))

PriceOf(mn, i) == IF mn[i] \in Price THEN mn[i] ELSE 0

ByLine(ls, mn, n) == [k \in 1 .. n |-> ls[k].qty * PriceOf(mn, ls[k].item)]
ByItem(ls, mn, n, is, m) == [k \in 1 .. m |-> PriceOf(mn, is[k]) * Taken(ls, n, is[k])]

\* What the first n lines cost, and what the first m items cost.
Cost(ls, mn, n) == Sum(ByLine(ls, mn, n))
Bill(ls, mn, n, is, m) == Sum(ByItem(ls, mn, n, is, m))

\* The items is are those of the first n lines, each once.
OnceEach(is, ls, n) ==
  /\ \A j, k \in 1 .. Len(is) : is[j] = is[k] => j = k
  /\ \A j \in 1 .. Len(is) : \E k \in 1 .. n : is[j] = ls[k].item
  /\ \A k \in 1 .. n : \E j \in 1 .. Len(is) : is[j] = ls[k].item

LEMMA Inputs == Quantity \subseteq Int /\ Price \subseteq Nat /\ Price \subseteq Int
  <1>1. ASSUME NEW q \in Quantity PROVE q \in Int
    <2>1. q \in -Half .. Half - 1
      BY InputAssumption
    <2> QED BY <2>1
  <1>2. ASSUME NEW p \in Price PROVE p \in Nat
    <2>1. p \in 0 .. Half - 1
      BY InputAssumption
    <2> QED BY <2>1
  <1> QED BY <1>1, <1>2

LEMMA LineType ==
  ASSUME NEW ls \in Seq(Line), NEW k \in 1 .. Len(ls)
  PROVE  ls[k].item \in Item /\ ls[k].qty \in Int
  <1>1. ls[k] \in Line
    OBVIOUS
  <1>2. ls[k].item \in Item /\ ls[k].qty \in Quantity
    BY <1>1 DEF Line
  <1> QED BY <1>2, Inputs

LEMMA PriceType ==
  ASSUME NEW mn, NEW i PROVE PriceOf(mn, i) \in Nat
  BY Inputs DEF PriceOf

LEMMA OfItemType ==
  ASSUME NEW ls \in Seq(Line), NEW n \in 0 .. Len(ls), NEW i
  PROVE  OfItem(ls, n, i) \in Seq(Int) /\ Len(OfItem(ls, n, i)) = n
  <1>1. \A k \in 1 .. n : (IF ls[k].item = i THEN ls[k].qty ELSE 0) \in Int
    BY LineType
  <1>2. n \in Nat
    OBVIOUS
  <1>3. OfItem(ls, n, i) \in [1 .. n -> Int]
    BY <1>1 DEF OfItem
  <1> QED BY <1>2, <1>3

LEMMA TakenType ==
  ASSUME NEW ls \in Seq(Line), NEW n \in 0 .. Len(ls), NEW i
  PROVE  Taken(ls, n, i) \in Int
  BY OfItemType, SumType DEF Taken

LEMMA TakenNone ==
  ASSUME NEW ls, NEW i PROVE Taken(ls, 0, i) = 0
  <1>1. OfItem(ls, 0, i) = <<>>
    BY DEF OfItem
  <1> QED BY <1>1, SumEmpty DEF Taken

\* The next line adds its quantity to its item and nothing to the others.
LEMMA TakenNext ==
  ASSUME NEW ls \in Seq(Line), NEW n \in 0 .. Len(ls) - 1, NEW i
  PROVE  Taken(ls, n + 1, i)
           = Taken(ls, n, i) + (IF ls[n + 1].item = i THEN ls[n + 1].qty ELSE 0)
  <1> DEFINE s == OfItem(ls, n, i)
             t == OfItem(ls, n + 1, i)
  <1>1. n \in 0 .. Len(ls) /\ n + 1 \in 0 .. Len(ls)
    OBVIOUS
  <1>2. s \in Seq(Int) /\ Len(s) = n /\ t \in Seq(Int) /\ Len(t) = n + 1
    BY <1>1, OfItemType
  <1>3. \A k \in 1 .. n : t[k] = s[k]
    BY DEF OfItem
  <1>4. t[n + 1] = IF ls[n + 1].item = i THEN ls[n + 1].qty ELSE 0
    BY DEF OfItem
  <1>5. Sum(t) = Sum(s) + t[n + 1]
    <2> HIDE DEF s, t
    <2> QED BY <1>2, <1>3, SumNext
  <1> QED BY <1>4, <1>5 DEF Taken

LEMMA ByLineType ==
  ASSUME NEW ls \in Seq(Line), NEW mn, NEW n \in 0 .. Len(ls)
  PROVE  ByLine(ls, mn, n) \in Seq(Int) /\ Len(ByLine(ls, mn, n)) = n
  <1>1. \A k \in 1 .. n : ls[k].qty * PriceOf(mn, ls[k].item) \in Int
    BY LineType, PriceType
  <1>2. ByLine(ls, mn, n) \in [1 .. n -> Int] /\ n \in Nat
    BY <1>1 DEF ByLine
  <1> QED BY <1>2

LEMMA CostType ==
  ASSUME NEW ls \in Seq(Line), NEW mn, NEW n \in 0 .. Len(ls)
  PROVE  Cost(ls, mn, n) \in Int
  BY ByLineType, SumType DEF Cost

LEMMA CostNone ==
  ASSUME NEW ls, NEW mn PROVE Cost(ls, mn, 0) = 0
  <1>1. ByLine(ls, mn, 0) = <<>>
    BY DEF ByLine
  <1> QED BY <1>1, SumEmpty DEF Cost

LEMMA CostNext ==
  ASSUME NEW ls \in Seq(Line), NEW mn, NEW n \in 0 .. Len(ls) - 1
  PROVE  Cost(ls, mn, n + 1)
           = Cost(ls, mn, n) + ls[n + 1].qty * PriceOf(mn, ls[n + 1].item)
  <1> DEFINE s == ByLine(ls, mn, n)
             t == ByLine(ls, mn, n + 1)
  <1>1. n \in 0 .. Len(ls) /\ n + 1 \in 0 .. Len(ls)
    OBVIOUS
  <1>2. s \in Seq(Int) /\ Len(s) = n /\ t \in Seq(Int) /\ Len(t) = n + 1
    BY <1>1, ByLineType
  <1>3. \A k \in 1 .. n : t[k] = s[k]
    BY DEF ByLine
  <1>4. t[n + 1] = ls[n + 1].qty * PriceOf(mn, ls[n + 1].item)
    BY DEF ByLine
  <1>5. Sum(t) = Sum(s) + t[n + 1]
    <2> HIDE DEF s, t
    <2> QED BY <1>2, <1>3, SumNext
  <1> QED BY <1>4, <1>5 DEF Cost

LEMMA ByItemType ==
  ASSUME NEW ls \in Seq(Line), NEW mn, NEW n \in 0 .. Len(ls), NEW is, NEW m \in Nat
  PROVE  ByItem(ls, mn, n, is, m) \in Seq(Int) /\ Len(ByItem(ls, mn, n, is, m)) = m
  <1>1. \A k \in 1 .. m : PriceOf(mn, is[k]) * Taken(ls, n, is[k]) \in Int
    BY TakenType, PriceType
  <1>2. ByItem(ls, mn, n, is, m) \in [1 .. m -> Int]
    BY <1>1 DEF ByItem
  <1> QED BY <1>2

LEMMA BillType ==
  ASSUME NEW ls \in Seq(Line), NEW mn, NEW n \in 0 .. Len(ls), NEW is, NEW m \in Nat
  PROVE  Bill(ls, mn, n, is, m) \in Int
  BY ByItemType, SumType DEF Bill

LEMMA BillNone ==
  ASSUME NEW ls, NEW mn, NEW n, NEW is PROVE Bill(ls, mn, n, is, 0) = 0
  <1>1. ByItem(ls, mn, n, is, 0) = <<>>
    BY DEF ByItem
  <1> QED BY <1>1, SumEmpty DEF Bill

\* One more item priced.
LEMMA BillNext ==
  ASSUME NEW ls \in Seq(Line), NEW mn, NEW n \in 0 .. Len(ls), NEW is, NEW m \in Nat
  PROVE  Bill(ls, mn, n, is, m + 1)
           = Bill(ls, mn, n, is, m) + PriceOf(mn, is[m + 1]) * Taken(ls, n, is[m + 1])
  <1> DEFINE s == ByItem(ls, mn, n, is, m)
             t == ByItem(ls, mn, n, is, m + 1)
  <1>1. s \in Seq(Int) /\ Len(s) = m /\ t \in Seq(Int) /\ Len(t) = m + 1
    BY ByItemType
  <1>2. \A k \in 1 .. m : t[k] = s[k]
    BY DEF ByItem
  <1>3. t[m + 1] = PriceOf(mn, is[m + 1]) * Taken(ls, n, is[m + 1])
    BY DEF ByItem
  <1>4. Sum(t) = Sum(s) + t[m + 1]
    <2> HIDE DEF s, t
    <2> QED BY <1>1, <1>2, SumNext
  <1> QED BY <1>3, <1>4 DEF Bill

\* A line of a new item: an item more on the bill.
LEMMA BillNewItem ==
  ASSUME NEW ls \in Seq(Line), NEW mn, NEW n \in 0 .. Len(ls) - 1, NEW is \in Seq(Item),
         \A k \in 1 .. Len(is) : is[k] # ls[n + 1].item,
         Taken(ls, n, ls[n + 1].item) = 0
  PROVE  LET i == ls[n + 1].item
         IN  Bill(ls, mn, n + 1, Append(is, i), Len(is) + 1)
               = Bill(ls, mn, n, is, Len(is)) + ls[n + 1].qty * PriceOf(mn, i)
  <1> DEFINE i == ls[n + 1].item
             js == Append(is, i)
             s == ByItem(ls, mn, n, is, Len(is))
             t == ByItem(ls, mn, n + 1, js, Len(is) + 1)
  <1>1. n \in 0 .. Len(ls) /\ n + 1 \in 1 .. Len(ls) /\ n + 1 \in 0 .. Len(ls)
        /\ Len(is) \in Nat /\ Len(is) + 1 \in Nat
    OBVIOUS
  <1>2. s \in Seq(Int) /\ Len(s) = Len(is) /\ t \in Seq(Int) /\ Len(t) = Len(is) + 1
    BY <1>1, ByItemType
  <1>3. ASSUME NEW k \in 1 .. Len(is) PROVE t[k] = s[k]
    <2>1. js[k] = is[k] /\ is[k] # i
      BY <1>1, LineType
    <2>2. Taken(ls, n + 1, is[k]) = Taken(ls, n, is[k])
      BY <2>1, <1>1, TakenNext, TakenType
    <2>3. s[k] = PriceOf(mn, is[k]) * Taken(ls, n, is[k])
      BY DEF ByItem
    <2>4. t[k] = PriceOf(mn, js[k]) * Taken(ls, n + 1, js[k])
      BY <1>1 DEF ByItem
    <2> QED BY <2>1, <2>2, <2>3, <2>4
  <1>4. t[Len(is) + 1] = ls[n + 1].qty * PriceOf(mn, i)
    <2>1. js[Len(is) + 1] = i
      BY <1>1, LineType
    <2>2. Taken(ls, n + 1, i) = ls[n + 1].qty
      BY <1>1, TakenNext, LineType
    <2>3. t[Len(is) + 1] = PriceOf(mn, i) * ls[n + 1].qty
      BY <1>1, <2>1, <2>2 DEF ByItem
    <2> QED BY <1>1, <2>3, LineType, PriceType
  <1>5. Sum(t) = Sum(s) + t[Len(is) + 1]
    <2> HIDE DEF s, t
    <2> QED BY <1>2, <1>3, SumNext
  <1> QED BY <1>4, <1>5 DEF Bill

\* A line of an item already on the bill: that item's share grows.
LEMMA BillSameItem ==
  ASSUME NEW ls \in Seq(Line), NEW mn, NEW n \in 0 .. Len(ls) - 1, NEW is \in Seq(Item),
         \A j, k \in 1 .. Len(is) : is[j] = is[k] => j = k,
         NEW j \in 1 .. Len(is), is[j] = ls[n + 1].item
  PROVE  Bill(ls, mn, n + 1, is, Len(is))
           = Bill(ls, mn, n, is, Len(is)) + ls[n + 1].qty * PriceOf(mn, ls[n + 1].item)
  <1> DEFINE i == ls[n + 1].item
             q == ls[n + 1].qty
             s == ByItem(ls, mn, n, is, Len(is))
             t == ByItem(ls, mn, n + 1, is, Len(is))
             d == q * PriceOf(mn, i)
  <1>1. n \in 0 .. Len(ls) /\ n + 1 \in 1 .. Len(ls) /\ n + 1 \in 0 .. Len(ls) /\ Len(is) \in Nat
    OBVIOUS
  <1>2. s \in Seq(Int) /\ Len(s) = Len(is) /\ t \in Seq(Int) /\ Len(t) = Len(is)
    BY <1>1, ByItemType
  <1>3. ASSUME NEW k \in 1 .. Len(is), k # j PROVE t[k] = s[k]
    <2>1. Taken(ls, n + 1, is[k]) = Taken(ls, n, is[k])
      BY <1>3, <1>1, TakenNext, TakenType
    <2> QED BY <2>1 DEF ByItem
  <1>4. d \in Int /\ q \in Int
    BY <1>1, LineType, PriceType
  <1>5. t[j] = s[j] + d
    <2>1. Taken(ls, n + 1, i) = Taken(ls, n, i) + q
      BY <1>1, TakenNext
    <2>2. s[j] = PriceOf(mn, i) * Taken(ls, n, i) /\ t[j] = PriceOf(mn, i) * (Taken(ls, n, i) + q)
      BY <2>1 DEF ByItem
    <2>3. PriceOf(mn, i) \in Int /\ Taken(ls, n, i) \in Int
      BY <1>1, PriceType, TakenType
    <2> HIDE DEF i, q, s, t
    <2> QED BY <2>2, <2>3, <1>4
  <1>6. Sum(t) = Sum(s) + d
    <2> HIDE DEF s, t, d
    <2> QED BY <1>2, <1>3, <1>4, <1>5, SumRaised
  <1> QED BY <1>6 DEF Bill

LEMMA OnceEachSame ==
  ASSUME NEW ls, NEW n \in Nat, NEW is, OnceEach(is, ls, n),
         NEW j \in 1 .. Len(is), is[j] = ls[n + 1].item
  PROVE  OnceEach(is, ls, n + 1)
  <1>1. \A k \in 1 .. n + 1 : k \in 1 .. n \/ k = n + 1
    OBVIOUS
  <1>2. \A k \in 1 .. n : k \in 1 .. n + 1
    OBVIOUS
  <1> QED BY <1>1, <1>2 DEF OnceEach

LEMMA OnceEachNew ==
  ASSUME NEW ls, NEW n \in Nat, NEW is \in Seq(Item), OnceEach(is, ls, n),
         ls[n + 1].item \in Item, \A j \in 1 .. Len(is) : is[j] # ls[n + 1].item
  PROVE  OnceEach(Append(is, ls[n + 1].item), ls, n + 1)
  <1> DEFINE js == Append(is, ls[n + 1].item)
  <1>1. /\ Len(is) \in Nat /\ Len(js) = Len(is) + 1 /\ js[Len(is) + 1] = ls[n + 1].item
        /\ \A j \in 1 .. Len(is) : js[j] = is[j]
    OBVIOUS
  <1> HIDE DEF js
  <1>2. \A k \in 1 .. n + 1 : k \in 1 .. n \/ k = n + 1
    OBVIOUS
  <1>3. \A j \in 1 .. Len(js) : j \in 1 .. Len(is) \/ j = Len(is) + 1
    BY <1>1
  <1>4. ASSUME NEW j \in 1 .. Len(js), NEW k \in 1 .. Len(js), js[j] = js[k]
        PROVE  j = k
    <2>1. CASE j \in 1 .. Len(is) /\ k \in 1 .. Len(is)
      BY <1>1, <1>4, <2>1 DEF OnceEach
    <2>2. CASE j = Len(is) + 1 /\ k \in 1 .. Len(is)
      BY <1>1, <1>4, <2>2
    <2>3. CASE k = Len(is) + 1 /\ j \in 1 .. Len(is)
      BY <1>1, <1>4, <2>3
    <2> QED BY <1>3, <2>1, <2>2, <2>3
  <1>5. ASSUME NEW j \in 1 .. Len(js) PROVE \E k \in 1 .. n + 1 : js[j] = ls[k].item
    <2>1. CASE j \in 1 .. Len(is)
      <3>1. PICK k \in 1 .. n : is[j] = ls[k].item
        BY <2>1 DEF OnceEach
      <3> QED BY <1>1, <2>1, <3>1
    <2>2. CASE j = Len(is) + 1
      BY <1>1, <2>2
    <2> QED BY <1>3, <2>1, <2>2
  <1>6. ASSUME NEW k \in 1 .. n + 1 PROVE \E j \in 1 .. Len(js) : js[j] = ls[k].item
    <2>1. CASE k \in 1 .. n
      <3>1. PICK j \in 1 .. Len(is) : is[j] = ls[k].item
        BY <2>1 DEF OnceEach
      <3> QED BY <1>1, <3>1
    <2>2. CASE k = n + 1
      BY <1>1, <2>2
    <2> QED BY <1>2, <2>1, <2>2
  <1> QED BY <1>4, <1>5, <1>6 DEF OnceEach, js

-----------------------------------------------------------------------------
(* The inductive invariant. *)

\* Pricing starts when every line is merged, inserting when every item is priced.
Phases ==
  /\ added > 0 => done = Len(lines)
  /\ reply \in {"created", "internal_error"} => done = Len(lines) /\ added = Len(ids)

\* What was the case when the reply was given.
Cause(why) ==
  /\ why = "invalid_quantity" => \E k \in DOMAIN lines : lines[k].qty <= 0
  /\ why = "item_not_found" => \E i \in Requested : menu[i] = Absent
  /\ why = "item_unavailable" => \E i \in Requested : menu[i] = Stopped
  /\ why = "internal_error" => ~ Storable
  /\ why = "created" => Storable

\* The items of the lines merged so far, each once.
Items == OnceEach(ids, lines, done)

\* What is counted for an item is what its lines ask for, modulo the width.
Counted ==
  /\ \A k \in 1 .. done : lines[k].qty > 0
  /\ \A i \in Item : Taken(lines, done, i) >= 0 /\ qty[i] = Wrap(Taken(lines, done, i))
  /\ \A i \in Item : (\A j \in 1 .. Len(ids) : ids[j] # i) => Taken(lines, done, i) = 0
  /\ \A j \in 1 .. Len(ids) : Taken(lines, done, ids[j]) > 0

\* Merging regroups the cost of the lines and loses nothing.
Regrouped ==
  /\ Cost(lines, menu, done) >= 0
  /\ Bill(lines, menu, done, ids, Len(ids)) = Cost(lines, menu, done)

\* The total is what the items priced so far cost, modulo the width.
Priced ==
  /\ total = Wrap(Bill(lines, menu, done, ids, added))
  /\ \A j \in 1 .. added : menu[ids[j]] \in Price

IInv == TypeOK /\ Phases /\ Cause(reply) /\ Items /\ Counted /\ Regrouped /\ Priced

-----------------------------------------------------------------------------
(* It holds in every initial state and every step keeps it. *)

LEMMA InitInv == Init => IInv
  <1> SUFFICES ASSUME Init PROVE IInv
    OBVIOUS
  <1>1. lines \in Seq(Line) /\ Len(lines) \in 1 .. MaxLines
    <2>1. PICK n \in 1 .. MaxLines : lines \in [1 .. n -> Line]
      BY DEF Init
    <2>2. n \in Nat
      OBVIOUS
    <2> QED BY <2>1, <2>2
  <1>2. TypeOK
    BY <1>1, WidthAssumption DEF Init, TypeOK
  <1>3. Phases /\ Cause(reply) /\ Items
    BY <1>1 DEF Init, Phases, Cause, Items, OnceEach
  <1>4. Wrap(0) = 0
    BY WrapSmall, WidthAssumption
  <1>5. Counted
    BY <1>4, TakenNone DEF Init, Counted
  <1>6. Regrouped /\ Priced
    BY <1>4, CostNone, BillNone DEF Init, Regrouped, Priced
  <1> QED BY <1>2, <1>3, <1>5, <1>6 DEF IInv

\* A step that only gives the outcome.
LEMMA OutcomeInv ==
  ASSUME IInv, UNCHANGED <<lines, menu, done, qty, ids, added, total>>,
         reply' \in {"none", "created", "invalid_quantity", "item_not_found",
                     "item_unavailable", "internal_error"},
         reply' \in {"created", "internal_error"} => done = Len(lines) /\ added = Len(ids),
         Cause(reply')
  PROVE  IInv'
  <1>1. TypeOK'
    BY DEF IInv, TypeOK
  <1>2. Phases' /\ Items'
    BY DEF IInv, Phases, Items
  <1>4. Cause(reply)'
    BY DEF Cause, Storable, Requested
  <1>3. Counted' /\ Regrouped' /\ Priced'
    BY DEF IInv, Counted, Regrouped, Priced
  <1> QED BY <1>1, <1>2, <1>3, <1>4 DEF IInv

LEMMA MergeLineInv == IInv /\ MergeLine => IInv'
  <1> SUFFICES ASSUME IInv, MergeLine PROVE IInv'
    OBVIOUS
  <1> DEFINE l == lines[done + 1]
             i == l.item
             q == l.qty
  <1>1. CASE q <= 0
    <2>1. reply' = "invalid_quantity" /\ UNCHANGED <<lines, menu, done, qty, ids, added, total>>
      BY <1>1 DEF MergeLine, Refuse, request
    <2>2. done + 1 \in DOMAIN lines
      BY DEF IInv, TypeOK, MergeLine
    <2>3. Cause(reply')
      BY <1>1, <2>1, <2>2 DEF Cause
    <2> QED BY <2>1, <2>3, OutcomeInv
  <1>2. CASE ~ (q <= 0)
    <2>1. /\ reply = "none" /\ done < Len(lines) /\ done' = done + 1
          /\ ids' = IF \E k \in DOMAIN ids : ids[k] = i THEN ids ELSE Append(ids, i)
          /\ qty' = [qty EXCEPT ![i] = Merged(i, q)]
          /\ UNCHANGED <<lines, menu, added, total, reply>>
      BY <1>2 DEF MergeLine, request
    <2>2. /\ lines \in Seq(Line) /\ Len(lines) \in 1 .. MaxLines /\ done \in 0 .. Len(lines)
          /\ ids \in Seq(Item) /\ Len(ids) \in Nat /\ DOMAIN ids = 1 .. Len(ids)
          /\ qty \in [Item -> -Half .. Half - 1]
      BY DEF IInv, TypeOK
    <2>3. /\ done \in 0 .. Len(lines) - 1 /\ done + 1 \in 1 .. Len(lines) /\ done \in Nat
          /\ done + 1 \in 0 .. Len(lines)
      BY <2>1, <2>2
    <2>4. i \in Item /\ q \in Int /\ q > 0
      BY <1>2, <2>2, <2>3, LineType
    <2>5. added = 0
      BY <2>1, <2>2 DEF IInv, Phases, TypeOK
    <2>6. \A x \in Item : Taken(lines, done + 1, x)
                            = Taken(lines, done, x) + (IF i = x THEN q ELSE 0)
      BY <2>2, <2>3, TakenNext
    <2>7. \A x \in Item : Taken(lines, done, x) \in Int
      BY <2>2, TakenType
    <2>8. Taken(lines, done + 1, i) = Taken(lines, done, i) + q
      BY <2>4, <2>6
    <2>9. \A x \in Item : x # i => Taken(lines, done + 1, x) = Taken(lines, done, x)
      BY <2>4, <2>6, <2>7
    <2>10. Merged(i, q) = Wrap(Taken(lines, done + 1, i))
      <3>1. qty[i] = Wrap(Taken(lines, done, i)) /\ Taken(lines, done, i) \in Int
        BY <2>4, <2>7 DEF IInv, Counted
      <3>2. Wrap(Wrap(Taken(lines, done, i)) + q) = Wrap(Taken(lines, done, i) + q)
        BY <2>4, <3>1, WrapSum
      <3> QED BY <2>8, <3>1, <3>2 DEF Merged
    <2>11. qty' \in [Item -> -Half .. Half - 1]
      <3>1. Merged(i, q) \in -Half .. Half - 1
        BY <2>4, <2>8, <2>7, <2>10, WrapType
      <3> QED BY <2>1, <2>2, <3>1
    <2>12. /\ ids' \in Seq(Item) /\ Len(ids') \in Nat /\ Len(ids) <= Len(ids')
           /\ \A j \in 1 .. Len(ids) : ids'[j] = ids[j]
      BY <2>1, <2>2, <2>4
    <2>13. OnceEach(ids', lines, done + 1)
      <3>1. CASE \E k \in DOMAIN ids : ids[k] = i
        BY <2>1, <2>2, <2>3, <3>1, OnceEachSame DEF IInv, Items
      <3>2. CASE ~ \E k \in DOMAIN ids : ids[k] = i
        <4>1. ids' = Append(ids, i) /\ \A j \in 1 .. Len(ids) : ids[j] # i
          BY <2>1, <2>2, <3>2
        <4>2. OnceEach(ids, lines, done)
          BY DEF IInv, Items
        <4> QED BY <2>2, <2>3, <2>4, <4>1, <4>2, OnceEachNew
      <3> QED BY <3>1, <3>2
    <2>14. Counted'
      <3>1. \A k \in 1 .. done' : lines'[k].qty > 0
        BY <2>1, <2>2, <2>4 DEF IInv, Counted
      <3>2. \A x \in Item : /\ Taken(lines, done + 1, x) >= 0
                            /\ qty'[x] = Wrap(Taken(lines, done + 1, x))
        BY <2>1, <2>2, <2>4, <2>7, <2>8, <2>9, <2>10 DEF IInv, Counted
      <3>3. ASSUME NEW x \in Item, \A j \in 1 .. Len(ids') : ids'[j] # x
            PROVE  Taken(lines, done + 1, x) = 0
        <4>1. PICK j \in 1 .. Len(ids') : ids'[j] = i
          <5>1. done + 1 \in 1 .. done + 1
            BY <2>3
          <5> QED BY <2>13, <5>1 DEF OnceEach
        <4>2. \A k \in 1 .. Len(ids) : ids[k] # x
          BY <2>2, <2>12, <3>3
        <4> QED BY <2>9, <3>3, <4>1, <4>2 DEF IInv, Counted
      <3>4. ASSUME NEW j \in 1 .. Len(ids') PROVE Taken(lines, done + 1, ids'[j]) > 0
        <4>1. CASE ids'[j] = i
          BY <2>4, <2>7, <2>8, <4>1 DEF IInv, Counted
        <4>2. CASE ids'[j] # i
          <5>1. j \in 1 .. Len(ids)
            BY <2>1, <2>2, <2>4, <3>4, <4>2
          <5>2. ids'[j] = ids[j] /\ ids[j] \in Item
            BY <2>2, <2>12, <5>1
          <5> QED BY <2>9, <4>2, <5>1, <5>2 DEF IInv, Counted
        <4> QED BY <4>1, <4>2
      <3> QED BY <2>1, <3>1, <3>2, <3>3, <3>4 DEF Counted
    <2>15. Regrouped'
      <3> DEFINE d == q * PriceOf(menu, i)
      <3>1. Cost(lines, menu, done + 1) = Cost(lines, menu, done) + d
        BY <2>2, <2>3, CostNext
      <3>2. d \in Nat
        <4>1. PriceOf(menu, i) \in Nat /\ q \in Nat
          BY <2>4, PriceType
        <4> QED BY <4>1
      <3>3. Bill(lines, menu, done + 1, ids', Len(ids'))
              = Bill(lines, menu, done, ids, Len(ids)) + d
        <4>1. CASE \E k \in DOMAIN ids : ids[k] = i
          <5>1. ids' = ids
            BY <2>1, <4>1
          <5>2. PICK j \in 1 .. Len(ids) : ids[j] = i
            BY <2>2, <4>1
          <5>3. \A j1, k1 \in 1 .. Len(ids) : ids[j1] = ids[k1] => j1 = k1
            BY DEF IInv, Items, OnceEach
          <5> QED BY <2>2, <2>3, <5>1, <5>2, <5>3, BillSameItem
        <4>2. CASE ~ \E k \in DOMAIN ids : ids[k] = i
          <5>1. ids' = Append(ids, i) /\ Len(ids') = Len(ids) + 1
            BY <2>1, <2>2, <2>4, <4>2
          <5>2. \A k \in 1 .. Len(ids) : ids[k] # i
            BY <2>2, <4>2
          <5>3. Taken(lines, done, i) = 0
            BY <2>4, <5>2 DEF IInv, Counted
          <5> QED BY <2>2, <2>3, <5>1, <5>2, <5>3, BillNewItem
        <4> QED BY <4>1, <4>2
      <3>4. Cost(lines, menu, done) \in Int
        BY <2>2, CostType
      <3> HIDE DEF d
      <3> QED BY <2>1, <3>1, <3>2, <3>3, <3>4 DEF IInv, Regrouped
    <2>16. Priced'
      <3>1. total = Wrap(0)
        BY <2>5, BillNone DEF IInv, Priced
      <3> QED BY <2>1, <2>5, <3>1, BillNone DEF Priced
    <2>17. TypeOK'
      BY <2>1, <2>2, <2>3, <2>5, <2>11, <2>12 DEF IInv, TypeOK
    <2>18. Phases' /\ Cause(reply)'
      BY <2>1, <2>5 DEF Phases, Cause
    <2>19. Items'
      BY <2>1, <2>13 DEF Items
    <2> QED BY <2>19, <2>14, <2>15, <2>16, <2>17, <2>18 DEF IInv
  <1>3. q <= 0 \/ ~ (q <= 0)
    OBVIOUS
  <1> QED BY <1>1, <1>2, <1>3

LEMMA PriceItemInv == IInv /\ PriceItem => IInv'
  <1> SUFFICES ASSUME IInv, PriceItem PROVE IInv'
    OBVIOUS
  <1> DEFINE i == ids[added + 1]
  <1>1. CASE /\ UNCHANGED <<lines, menu, done, qty, ids, added, total>>
             /\ \/ reply' = "item_not_found" /\ menu[i] = Absent
                \/ reply' = "item_unavailable" /\ menu[i] = Stopped
    <2>1. i \in Requested
      <3>1. /\ done = Len(lines) /\ added + 1 \in 1 .. Len(ids)
            /\ DOMAIN lines = 1 .. Len(lines)
        BY DEF PriceItem, IInv, TypeOK
      <3>2. PICK k \in 1 .. done : i = lines[k].item
        BY <3>1 DEF IInv, Items, OnceEach
      <3> QED BY <3>1, <3>2 DEF Requested
    <2>2. Cause(reply')
      BY <1>1, <2>1 DEF Cause
    <2> QED BY <1>1, <2>2, OutcomeInv
  <1>2. ASSUME /\ reply = "none" /\ done = Len(lines) /\ added < Len(ids)
               /\ menu[i] \in Price /\ added' = added + 1
               /\ total' = Wrap(total + Wrap(menu[i] * qty[i]))
               /\ UNCHANGED <<lines, menu, done, qty, ids, reply>>
        PROVE  IInv'
    <2> DEFINE b == Bill(lines, menu, done, ids, added)
               t == Taken(lines, done, i)
    <2>1. /\ lines \in Seq(Line) /\ done \in 0 .. Len(lines) /\ ids \in Seq(Item)
          /\ added \in Nat /\ added + 1 \in 1 .. Len(ids) /\ i \in Item
      BY <1>2 DEF IInv, TypeOK
    <2>2. b \in Int /\ t \in Int /\ menu[i] \in Int
      BY <1>2, <2>1, BillType, TakenType, Inputs
    <2>3. Bill(lines, menu, done, ids, added + 1) = b + menu[i] * t
      BY <1>2, <2>1, BillNext DEF PriceOf
    <2>4. total = Wrap(b) /\ qty[i] = Wrap(t)
      BY <2>1 DEF IInv, Priced, Counted
    <2>5. Wrap(total + Wrap(menu[i] * qty[i])) = Wrap(b + menu[i] * t)
      <3> HIDE DEF b, t, i
      <3>1. menu[i] * t \in Int
        BY <2>2
      <3>2. Wrap(menu[i] * qty[i]) = Wrap(menu[i] * t)
        BY <2>2, <2>4, WrapProduct
      <3>3. Wrap(b) \in Int /\ Wrap(menu[i] * t) \in Int
        BY <2>2, <3>1, WrapType
      <3>4. Wrap(Wrap(b) + Wrap(menu[i] * t)) = Wrap(b + Wrap(menu[i] * t))
        BY <2>2, <3>3, WrapSum
      <3>5. Wrap(Wrap(menu[i] * t) + b) = Wrap(menu[i] * t + b)
        BY <2>2, <3>1, WrapSum
      <3>6. /\ b + Wrap(menu[i] * t) = Wrap(menu[i] * t) + b
            /\ b + menu[i] * t = menu[i] * t + b
        BY <2>2, <3>1, <3>3
      <3> QED BY <2>4, <3>2, <3>4, <3>5, <3>6
    <2>6. Priced'
      <3>1. total' = Wrap(Bill(lines, menu, done, ids, added + 1))
        BY <1>2, <2>3, <2>5
      <3>2. ASSUME NEW j \in 1 .. added + 1 PROVE menu[ids[j]] \in Price
        <4>1. j \in 1 .. added \/ j = added + 1
          BY <2>1
        <4> QED BY <1>2, <4>1 DEF IInv, Priced
      <3> QED BY <1>2, <3>1, <3>2 DEF Priced
    <2>7. TypeOK'
      <3>1. b + menu[i] * t \in Int
        BY <2>2
      <3>2. total' \in -Half .. Half - 1
        BY <1>2, <2>5, <3>1, WrapType
      <3> QED BY <1>2, <2>1, <3>2 DEF IInv, TypeOK
    <2>8. Phases' /\ Cause(reply)' /\ Items' /\ Counted' /\ Regrouped'
      BY <1>2 DEF IInv, Phases, Cause, Items, Counted, Regrouped
    <2> QED BY <2>6, <2>7, <2>8 DEF IInv
  <1>3. i \in Item /\ menu[i] \in Price \cup {Stopped, Absent}
    <2>1. ids \in Seq(Item) /\ added + 1 \in 1 .. Len(ids)
      BY DEF IInv, TypeOK, PriceItem
    <2> QED BY <2>1 DEF IInv, TypeOK
  <1> QED BY <1>1, <1>2, <1>3, OutcomeInv DEF PriceItem, Refuse, request

LEMMA InsertInv == IInv /\ Insert => IInv'
  <1> SUFFICES ASSUME IInv, Insert PROVE IInv'
    OBVIOUS
  <1>1. /\ done = Len(lines) /\ added = Len(ids) /\ reply' \in {"created", "internal_error"}
        /\ UNCHANGED <<lines, menu, done, qty, ids, added, total>>
        /\ reply' = "internal_error" => ~ Storable
        /\ reply' = "created" => Storable
    BY DEF Insert, Refuse, request
  <1>2. Cause(reply')
    BY <1>1 DEF Cause
  <1> QED BY <1>1, <1>2, OutcomeInv

\* The inductive invariant holds throughout.
LEMMA Invariance == Spec => []IInv
  <1>1. IInv /\ [Next]_vars => IInv'
    <2> SUFFICES ASSUME IInv, [Next]_vars PROVE IInv'
      OBVIOUS
    <2>1. CASE MergeLine
      BY <2>1, MergeLineInv
    <2>2. CASE PriceItem
      BY <2>2, PriceItemInv
    <2>3. CASE Insert
      BY <2>3, InsertInv
    <2>4. CASE UNCHANGED vars
      <3>1. UNCHANGED <<lines, menu, done, qty, ids, added, total>> /\ reply' = reply
        BY <2>4 DEF vars
      <3>2. reply \in {"none", "created", "invalid_quantity", "item_not_found",
                       "item_unavailable", "internal_error"}
        BY DEF IInv, TypeOK
      <3>3. /\ reply \in {"created", "internal_error"} => done = Len(lines) /\ added = Len(ids)
            /\ Cause(reply')
        BY <3>1 DEF IInv, Phases
      <3> QED BY <3>1, <3>2, <3>3, OutcomeInv
    <2> QED BY <2>1, <2>2, <2>3, <2>4 DEF Next
  <1> QED BY <1>1, InitInv, PTL DEF Spec

-----------------------------------------------------------------------------
(* The results. *)

\* Type correctness: no quantity and no total leaves the width.
THEOREM TypeCorrectness == Spec => []TypeOK
  <1>1. IInv => TypeOK
    BY DEF IInv
  <1> QED BY <1>1, Invariance, PTL

\* The merged items are those asked for, each once; quantities and total are what
\* was asked for and what is due, both modulo the width.
Computed ==
  /\ total = Wrap(Due)
  /\ {ids[k] : k \in DOMAIN ids} = Requested /\ Len(ids) = Cardinality(Requested)
  /\ \A i \in Requested : qty[i] = Wrap(Asked(i))

\* What the loops compute, with no condition on the numbers.
ExactModuloWidth == reply = "created" => Computed

\* When both loops are done they have computed what the request asks for, and
\* these numbers are not negative.
LEMMA AtTheEnd ==
  ASSUME IInv, reply \in {"created", "internal_error"}
  PROVE  /\ Computed
         /\ Due \in Nat /\ \A i \in Requested : Asked(i) \in Nat \ {0}
  <1>1. /\ lines \in Seq(Line) /\ DOMAIN lines = 1 .. Len(lines) /\ done = Len(lines)
        /\ ids \in Seq(Item) /\ DOMAIN ids = 1 .. Len(ids) /\ added = Len(ids)
    BY DEF IInv, TypeOK, Phases
  <1>2. Requested = {ids[k] : k \in DOMAIN ids}
    <2>1. \A j \in 1 .. Len(ids) : \E k \in 1 .. Len(lines) : ids[j] = lines[k].item
      BY <1>1 DEF IInv, Items, OnceEach
    <2>2. \A k \in 1 .. Len(lines) : \E j \in 1 .. Len(ids) : ids[j] = lines[k].item
      BY <1>1 DEF IInv, Items, OnceEach
    <2>3. \A x \in Requested : \E j \in DOMAIN ids : x = ids[j]
      BY <1>1, <2>2 DEF Requested
    <2>4. \A j \in DOMAIN ids : ids[j] \in Requested
      BY <1>1, <2>1 DEF Requested
    <2> QED BY <2>3, <2>4
  <1>3. Requested \subseteq Item
    BY <1>1, <1>2
  <1>4. \A i : Asked(i) = Taken(lines, done, i)
    BY <1>1 DEF Asked, Taken, OfItem
  <1>5. \A i \in Requested : menu[i] \in Price
    BY <1>1, <1>2 DEF IInv, Priced
  <1>6. Due = Cost(lines, menu, done)
    <2>1. \A k \in DOMAIN lines : PriceOf(menu, lines[k].item) = menu[lines[k].item]
      BY <1>5 DEF PriceOf, Requested
    <2>2. [k \in DOMAIN lines |-> lines[k].qty * menu[lines[k].item]] = ByLine(lines, menu, done)
      BY <1>1, <2>1 DEF ByLine
    <2> QED BY <2>2 DEF Due, Cost
  <1>7. Len(ids) = Cardinality(Requested)
    <2>1. ids \in Bijection(1 .. Len(ids), Requested)
      BY <1>1, <1>2 DEF Bijection, Injection, Surjection, IsInjective, IInv, Items, OnceEach
    <2>2. Len(ids) \in Nat
      BY <1>1
    <2> QED BY <2>1, <2>2, FS_CountingElements DEF ExistsBijection
  <1>8. total = Wrap(Due) /\ Due \in Nat
    <2>1. Cost(lines, menu, done) \in Int
      BY <1>1, CostType
    <2> QED BY <1>1, <1>6, <2>1 DEF IInv, Priced, Regrouped
  <1>9. \A i \in Requested : qty[i] = Wrap(Asked(i)) /\ Asked(i) \in Nat \ {0}
    <2>1. \A i \in Requested : Taken(lines, done, i) \in Int
      BY <1>1, TakenType
    <2>2. \A i \in Requested : Taken(lines, done, i) > 0
      BY <1>1, <1>2 DEF IInv, Counted
    <2> QED BY <1>3, <1>4, <2>1, <2>2 DEF IInv, Counted
  <1> QED BY <1>2, <1>7, <1>8, <1>9 DEF Computed

\* The merge loop and the pricing loop compute what the request asks for modulo
\* the width, whatever overflows on the way.
THEOREM ExactModuloWidthHolds == Spec => []ExactModuloWidth
  <1>1. IInv => ExactModuloWidth
    BY AtTheEnd DEF ExactModuloWidth
  <1> QED BY <1>1, Invariance, PTL

\* A number that did not wrap round is exact if it comes out not negative.
LEMMA WrapExact ==
  ASSUME NEW x \in Nat, x < 2 * Half, Wrap(x) >= 0 PROVE Wrap(x) = x
  <1>1. CASE x < Half
    BY <1>1, WrapSmall, WidthAssumption
  <1>2. CASE x >= Half
    <2>1. x \in Half .. 2 * Half - 1
      BY <1>2, WidthAssumption
    <2>2. Wrap(x) < 0 /\ Wrap(x) \in Int
      BY <2>1, WrapOverflow, WrapType
    <2> QED BY <2>2
  <1> QED BY <1>1, <1>2, WidthAssumption

\* What CreateOrder records is exact unless a number reaches 2^64: from the theorem
\* above, from quantities and prices never being negative, and from the columns
\* refusing what is.
THEOREM ExactUnlessWrappedRoundHolds == Spec => []ExactUnlessWrappedRound
  <1>1. IInv => ExactUnlessWrappedRound
    <2> SUFFICES ASSUME IInv, reply = "created", Due < 2 * Half,
                        \A i \in Requested : Asked(i) < 2 * Half
                 PROVE  /\ total = Due
                        /\ {ids[k] : k \in DOMAIN ids} = Requested
                        /\ Len(ids) = Cardinality(Requested)
                        /\ \A i \in Requested : qty[i] = Asked(i)
      BY DEF ExactUnlessWrappedRound
    <2>1. Computed /\ Due \in Nat /\ \A i \in Requested : Asked(i) \in Nat \ {0}
      BY AtTheEnd
    <2>2. total >= 0 /\ \A k \in DOMAIN ids : qty[ids[k]] \in 1 .. ColumnMax
      BY DEF IInv, Cause, Storable
    <2>3. Wrap(Due) = Due
      BY <2>1, <2>2, WrapExact DEF Computed
    <2>4. \A i \in Requested : Wrap(Asked(i)) = Asked(i)
      <3>1. SUFFICES ASSUME NEW i \in Requested PROVE Wrap(Asked(i)) = Asked(i)
        OBVIOUS
      <3>2. qty[i] \in 1 .. ColumnMax
        BY <2>1, <2>2 DEF Computed
      <3>3. Wrap(Asked(i)) >= 0
        BY <2>1, <3>2, WidthAssumption DEF Computed
      <3> QED BY <2>1, <3>3, WrapExact
    <2> QED BY <2>1, <2>3, <2>4 DEF Computed
  <1> QED BY <1>1, Invariance, PTL

\* A refusal is true of the request and the menu, and an order whose numbers
\* fit the columns is never refused by them: its total and its quantities are
\* then exact, so the CHECKs accept them.
THEOREM RefusedForCauseHolds == Spec => []RefusedForCause
  <1>1. IInv => RefusedForCause
    <2>1. SUFFICES ASSUME IInv, reply = "internal_error", ~ (Due >= Half),
                          \A i \in Requested : ~ (Asked(i) > ColumnMax)
                   PROVE  FALSE
      BY DEF IInv, Cause, RefusedForCause
    <2>2. ~ Storable
      BY <2>1 DEF IInv, Cause
    <2>3. Computed /\ Due \in Nat /\ \A i \in Requested : Asked(i) \in Nat \ {0}
      BY <2>1, AtTheEnd
    <2>4. total >= 0
      BY <2>1, <2>3, WrapSmall, WidthAssumption DEF Computed
    <2>5. \A i \in Requested : qty[i] \in 1 .. ColumnMax
      <3>1. SUFFICES ASSUME NEW i \in Requested PROVE qty[i] \in 1 .. ColumnMax
        OBVIOUS
      <3>2. Asked(i) \in 1 .. ColumnMax /\ Asked(i) \in -Half .. Half - 1
        BY <2>1, <2>3, WidthAssumption
      <3>3. qty[i] = Asked(i)
        BY <2>3, <3>2, WrapSmall DEF Computed
      <3> QED BY <3>2, <3>3
    <2>6. \A k \in DOMAIN ids : ids[k] \in Requested
      BY <2>3 DEF Computed
    <2> QED BY <2>2, <2>4, <2>5, <2>6 DEF Storable
  <1> QED BY <1>1, Invariance, PTL
=============================================================================
