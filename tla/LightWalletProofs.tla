------------------------- MODULE LightWalletProofs -------------------------
(* The light wallet, for every chain a node may serve and every bound.       *)
EXTENDS LightWallet, NaturalsInduction, WellFoundedInduction, TLAPS

(* A leaf goes to the SMT solver with this limit, unless it names Zenon.     *)
USE SMTT(30)

-----------------------------------------------------------------------------
(* Induction: a nonempty set of naturals has a least element ...             *)
LEMMA LeastNat ==
    ASSUME NEW T \in SUBSET Nat, T # {}
    PROVE  \E x \in T : \A y \in T : x <= y
<1> DEFINE R == OpToRel(<, Nat)
<1>1. IsWellFoundedOn(R, Nat)
  BY NatLessThanWellFounded, Zenon
<1>2. ASSUME NEW x \in Nat, NEW y \in Nat, y < x PROVE <<y, x>> \in R
  BY <1>2 DEF OpToRel
<1> HIDE DEF R
<1>3. PICK x \in T : \A y \in T : ~(<<y, x>> \in R)
  BY <1>1, WFMin, Zenon
<1>4. ASSUME NEW y \in T PROVE x <= y
  <2>1. x \in Nat /\ y \in Nat
    OBVIOUS
  <2>2. ~(y < x)
    BY <1>2, <1>3, <2>1, Zenon
  <2> QED
    BY <2>1, <2>2
<1> QED
  BY <1>4

(* ... so a set with 0 that is closed under successor has every natural.     *)
LEMMA SetInduction ==
    ASSUME NEW S, 0 \in S, \A n \in Nat : n \in S => n + 1 \in S
    PROVE  Nat \subseteq S
<1> SUFFICES ASSUME Nat \ S # {} PROVE FALSE
  OBVIOUS
<1>1. PICK m \in Nat \ S : \A k \in Nat \ S : m <= k
  BY LeastNat, Zenon
<1>2. m - 1 \in Nat /\ m = (m - 1) + 1
  OBVIOUS
<1> QED
  BY <1>1, <1>2

-----------------------------------------------------------------------------
(* Lengths and heights: the arithmetic the proofs below keep needing.        *)

LEMMA StepBack ==
    ASSUME NEW h \in Nat
    PROVE  (h - 1) + 1 = h /\ (h + 1) - 1 = h
  OBVIOUS

LEMMA LastBelow ==
    ASSUME NEW S, NEW s \in Seq(S), NEW k \in Nat, Len(s) <= k
    PROVE  Len(s) - 1 < k /\ (Len(s) - 1) + 1 = Len(s)
  OBVIOUS

LEMMA LastIndex ==
    ASSUME NEW S, NEW s \in Seq(S), Len(s) # 0
    PROVE  s # <<>> /\ Len(s) \in 1..Len(s)
  OBVIOUS

-----------------------------------------------------------------------------
(* Prefixes of a chain.                                                      *)

(* A prefix has the length and the headers that SubSeq says.                 *)
LEMMA Prefix ==
    ASSUME NEW S, NEW c \in Seq(S), NEW n \in 0..Len(c)
    PROVE  /\ SubSeq(c, 1, n) \in Seq(S) /\ Len(SubSeq(c, 1, n)) = n
           /\ \A i \in 1..n : SubSeq(c, 1, n)[i] = c[i]
           /\ SubSeq(c, 1, Len(c)) = c
  OBVIOUS

(* A prefix of a prefix is a prefix.                                         *)
LEMMA PrefixOfPrefix ==
    ASSUME NEW S, NEW c \in Seq(S), NEW n \in 0..Len(c), NEW m \in 0..n
    PROVE  SubSeq(SubSeq(c, 1, n), 1, m) = SubSeq(c, 1, m)
  OBVIOUS

-----------------------------------------------------------------------------
(* The work of a chain.                                                      *)

Adds(w, chain, n) ==
    w = [i \in 0..n |-> IF i = 0 THEN 0 ELSE w[i - 1] + WorkForTarget(chain[i].target)]

(* There is a function that adds up the work of every prefix.                *)
LEMMA AddsExists ==
    ASSUME NEW chain, NEW n \in Nat
    PROVE  \E w : Adds(w, chain, n)
<1> DEFINE S == {k \in Nat : \E w : Adds(w, chain, k)}
<1>1. 0 \in S
  <2>1. Adds([i \in 0..0 |-> 0], chain, 0)
    BY DEF Adds
  <2> QED
    BY <2>1
<1>2. ASSUME NEW k \in Nat, k \in S PROVE k + 1 \in S
  <2>1. PICK w : Adds(w, chain, k)
    BY <1>2
  <2> DEFINE v == [i \in 0..(k + 1) |->
                    IF i = k + 1 THEN w[k] + WorkForTarget(chain[i].target) ELSE w[i]]
  <2>2. \A i \in 0..k : w[i] = IF i = 0 THEN 0 ELSE w[i - 1] + WorkForTarget(chain[i].target)
    BY <2>1 DEF Adds
  <2>3. \A i \in 0..(k + 1) : v[i] = IF i = 0 THEN 0 ELSE v[i - 1] + WorkForTarget(chain[i].target)
    <3> SUFFICES ASSUME NEW i \in 0..(k + 1)
                 PROVE  v[i] = IF i = 0 THEN 0 ELSE v[i - 1] + WorkForTarget(chain[i].target)
      OBVIOUS
    <3>1. CASE i = 0
      BY <2>2, <3>1
    <3>2. CASE i = k + 1
      BY <3>2
    <3>3. CASE i \in 1..k
      BY <2>2, <3>3
    <3> QED
      BY <3>1, <3>2, <3>3
  <2>4. Adds(v, chain, k + 1)
    BY <2>3 DEF Adds
  <2> QED
    BY <2>4
<1> HIDE DEF S
<1>3. Nat \subseteq S
  BY <1>1, <1>2, SetInduction
<1> QED
  BY <1>3 DEF S

(* What it is at a height.                                                   *)
LEMMA AddsAt ==
    ASSUME NEW w, NEW chain, NEW n, Adds(w, chain, n), NEW i \in 0..n, i # 0
    PROVE  w[i] = w[i - 1] + WorkForTarget(chain[i].target)
<1>1. w[i] = IF i = 0 THEN 0 ELSE w[i - 1] + WorkForTarget(chain[i].target)
  BY Zenon DEF Adds
<1> QED
  BY <1>1

(* Chains with the same headers have the same work up to there.              *)
LEMMA AddsAgree ==
    ASSUME NEW c, NEW d, NEW m \in Nat, NEW n \in Nat, NEW v, NEW w, Adds(v, c, m), Adds(w, d, n),
           NEW k \in Nat, k <= m, k <= n, \A i \in 1..k : c[i] = d[i]
    PROVE  v[k] = w[k]
<1> DEFINE S == {i \in Nat : i <= k => v[i] = w[i]}
<1>1. 0 \in S
  BY DEF Adds
<1>2. ASSUME NEW i \in Nat, i \in S PROVE i + 1 \in S
  <2> SUFFICES ASSUME i + 1 <= k PROVE v[i + 1] = w[i + 1]
    OBVIOUS
  <2>1. i + 1 \in 0..m /\ i + 1 \in 0..n /\ i + 1 \in 1..k /\ i + 1 # 0 /\ (i + 1) - 1 = i
    OBVIOUS
  <2>2. v[i + 1] = v[i] + WorkForTarget(c[i + 1].target)
    BY <2>1 DEF Adds
  <2>3. w[i + 1] = w[i] + WorkForTarget(d[i + 1].target)
    BY <2>1 DEF Adds
  <2>4. c[i + 1] = d[i + 1]
    BY <2>1
  <2> QED
    BY <1>2, <2>2, <2>3, <2>4
<1> HIDE DEF S
<1>3. Nat \subseteq S
  BY <1>1, <1>2, SetInduction
<1> QED
  BY <1>3 DEF S

(* What the last header adds to the work.                                    *)
LEMMA WorkStep ==
    ASSUME NEW S, NEW c \in Seq(S), c # <<>>
    PROVE  ChainWork(c) = ChainWork(PreviousHash(c)) + WorkForTarget(HeaderOf(c).target)
<1> DEFINE p == PreviousHash(c)
           v == CHOOSE w : Adds(w, c, Len(c))
           u == CHOOSE w : Adds(w, p, Len(p))
<1>1. Len(c) \in Nat \ {0} /\ Len(p) = Len(c) - 1 /\ \A i \in 1..Len(p) : p[i] = c[i]
  <2>1. Len(c) \in Nat \ {0} /\ Len(c) - 1 \in 0..Len(c)
    OBVIOUS
  <2> QED
    BY <2>1, Prefix, Zenon DEF PreviousHash
<1>2. ChainWork(c) = v[Len(c)] /\ ChainWork(p) = u[Len(p)]
  BY Zenon DEF ChainWork, Adds
<1>3. Len(p) \in Nat
  BY <1>1
<1> HIDE DEF p
<1>4. Adds(v, c, Len(c)) /\ Adds(u, p, Len(p))
  BY <1>1, <1>3, AddsExists, Zenon
<1> HIDE DEF u, v
<1>5. v[Len(p)] = u[Len(p)]
  <2>1. /\ Len(p) <= Len(c) /\ Len(p) <= Len(p) /\ Len(c) \in Nat
        /\ \A i \in 1..Len(p) : c[i] = p[i]
    BY <1>1
  <2> QED
    BY ONLY <1>3, <1>4, <2>1, AddsAgree
<1>6. v[Len(c)] = v[Len(c) - 1] + WorkForTarget(c[Len(c)].target)
  <2>1. Len(c) \in 0..Len(c) /\ Len(c) # 0
    BY <1>1
  <2> QED
    BY <1>4, <2>1, AddsAt
<1> QED
  BY <1>1, <1>2, <1>5, <1>6 DEF HeaderOf, p

(* No headers, no work.                                                      *)
LEMMA NoWork == ChainWork(<<>>) = 0
<1> DEFINE v == CHOOSE w : Adds(w, <<>>, Len(<<>>))
<1>1. ChainWork(<<>>) = v[Len(<<>>)]
  BY Zenon DEF ChainWork, Adds
<1>2. Len(<<>>) = 0 /\ Len(<<>>) \in Nat
  OBVIOUS
<1>3. Adds(v, <<>>, Len(<<>>))
  BY <1>2, AddsExists, Zenon
<1> HIDE DEF v
<1> QED
  BY <1>1, <1>2, <1>3 DEF Adds

-----------------------------------------------------------------------------
(* Difficulty.                                                               *)

(* The larger of two numbers.                                                *)
LEMMA MaxOfTwo ==
    ASSUME NEW a \in Int, NEW b \in Int
    PROVE  Max({a, b}) = IF a >= b THEN a ELSE b
  BY DEF Max

(* The smaller of two numbers.                                               *)
LEMMA MinOfTwo ==
    ASSUME NEW a \in Int, NEW b \in Int
    PROVE  Min({a, b}) = IF a <= b THEN a ELSE b
  BY DEF Min

(* clampBigInt stays between its bounds, and keeps what is between them.     *)
LEMMA Clamped ==
    ASSUME NEW x \in Int, NEW low \in Int, NEW high \in Int, low <= high
    PROVE  Clamp(x, low, high) \in low..high /\ (x \in low..high => Clamp(x, low, high) = x)
<1> DEFINE m == Max({low, x})
<1>1. m = (IF low >= x THEN low ELSE x) /\ m \in Int
  BY MaxOfTwo
<1> HIDE DEF m
<1>2. Min({high, m}) = IF high <= m THEN high ELSE m
  BY <1>1, MinOfTwo
<1> QED
  BY <1>1, <1>2 DEF Clamp, m

(* The bounds that the timespan is clamped to lie around the expected one.   *)
LEMMA ClampBounds ==
    ASSUME NEW e \in Nat, e > 0, NEW f \in Nat, f > 0
    PROVE  /\ Rounded(e, f) \in Int /\ Rounded(e, f) <= e /\ e <= e * f
           /\ e \in Int /\ e * f \in Int
<1>1. e * f >= e /\ e * f \in Nat
  OBVIOUS
<1>2. 2 * f \in Nat /\ 2 * f > 0 /\ 2 * e + f \in Nat
  OBVIOUS
<1>3. 2 * e + f < (2 * f) * (e + 1)
  <2>1. (2 * f) * (e + 1) = 2 * (e * f) + 2 * f
    OBVIOUS
  <2> QED
    BY <1>1, <2>1
<1>4. \A a, b, q \in Nat : b > 0 /\ a < b * (q + 1) => a \div b <= q /\ a \div b \in Int
  OBVIOUS
<1> QED
  BY <1>1, <1>2, <1>3, <1>4 DEF Rounded

(* A retarget stays in range, and blocks on time change nothing.             *)
LEMMA RetargetRange ==
    ASSUME NEW current \in Nat, NEW actual \in Int, NEW expected \in Nat, expected > 0
    PROVE  /\ RetargetDifficulty(current, actual, expected) \in 1..MaxTarget
           /\ current \in 1..MaxTarget =>
                RetargetDifficulty(current, expected, expected) = current
<1> DEFINE e == expected * PRECISION
           low == Rounded(e, Factor)
           high == expected * Factor * PRECISION
           scaled(a) == Clamp(a * PRECISION, low, high)
           target(a) == (current * (scaled(a) \div expected)) \div PRECISION
<1>1. Factor \in Nat /\ Factor > 0 /\ MaxTarget \in Nat /\ MaxTarget >= 1
  BY RulesAssumption
<1>2. PRECISION \in Nat /\ PRECISION > 0
  BY DEF PRECISION
<1>3. e \in Nat /\ e > 0 /\ high = e * Factor
  BY <1>1 DEF PRECISION
<1>4. low \in Int /\ high \in Int /\ low <= high /\ e \in low..high
  <2> HIDE DEF e
  <2>1. /\ Rounded(e, Factor) \in Int /\ Rounded(e, Factor) <= e /\ e <= e * Factor
        /\ e \in Int /\ e * Factor \in Int
    BY <1>1, <1>3, ClampBounds, Zenon
  <2> HIDE DEF high
  <2> QED
    BY <1>3, <2>1
<1> HIDE DEF e, low, high
<1>5. \A a \in Int : a * PRECISION \in Int /\ scaled(a) \in Int
  BY <1>2, <1>4, Clamped
<1>6. \A a \in Int : target(a) \in Int
  <2> SUFFICES ASSUME NEW a \in Int PROVE target(a) \in Int
    OBVIOUS
  <2>1. scaled(a) \in Int
    BY <1>5
  <2> HIDE DEF scaled
  <2>2. scaled(a) \div expected \in Int
    BY <2>1
  <2>3. current * (scaled(a) \div expected) \in Int
    BY <2>2
  <2> QED
    BY <1>2, <2>3
<1>7. \A a : RetargetDifficulty(current, a, expected) = Clamp(target(a), 1, MaxTarget)
  BY Zenon DEF RetargetDifficulty, e, low, high
<1>8. target(expected) = current
  <2>1. scaled(expected) = e
    BY <1>4, Clamped DEF e
  <2> HIDE DEF scaled
  <2>2. e \div expected = PRECISION
    <3>1. \A a, b \in Nat : b > 0 => (b * a) \div b = a
      OBVIOUS
    <3> QED
      BY <1>2, <3>1 DEF e
  <2>3. (current * PRECISION) \div PRECISION = current
    BY <1>2
  <2> QED
    BY <2>1, <2>2, <2>3
<1> HIDE DEF target, scaled
<1>9. RetargetDifficulty(current, actual, expected) \in 1..MaxTarget
  <2>1. target(actual) \in Int /\ 1 \in Int /\ MaxTarget \in Int /\ 1 <= MaxTarget
    BY <1>1, <1>6
  <2>2. Clamp(target(actual), 1, MaxTarget) \in 1..MaxTarget
    BY <2>1, Clamped, Zenon
  <2> QED
    BY <1>7, <2>2, Zenon
<1>10. ASSUME current \in 1..MaxTarget PROVE RetargetDifficulty(current, expected, expected) = current
  BY <1>1, <1>7, <1>8, <1>10, Clamped
<1> QED
  BY <1>9, <1>10

-----------------------------------------------------------------------------
(* Chains that obey the rules.                                               *)

Header == UNION {Range(c) : c \in Served}

Obeys(c, latest) ==
    /\ c # <<>> /\ c[1] = Genesis
    /\ \A n \in 2..Len(c) : HeaderValid(SubSeq(c, 1, n), latest)

(* The parts of a header.                                                    *)
LEMMA HeaderTypes ==
    \A h \in Header : h.time \in Nat /\ h.target \in Nat /\ h.txs \in Seq(Range(h.txs))
  BY WalletAssumption DEF Header

(* What a node serves is a nonempty chain.                                   *)
LEMMA ServedTypes ==
    \A c \in Served : c \in Seq(Header) /\ c # <<>> /\ Len(c) \in Nat \ {0}
<1> SUFFICES ASSUME NEW c \in Served PROVE c \in Seq(Header) /\ c # <<>> /\ Len(c) \in Nat \ {0}
  OBVIOUS
<1>1. c # <<>> /\ c \in Seq(Range(c))
  BY WalletAssumption
<1>2. Range(c) \subseteq Header
  BY DEF Header
<1> QED
  BY <1>1, <1>2

(* Where a period of a chain starts.                                         *)
LEMMA Window ==
    ASSUME NEW height \in Nat, height >= 1, height % Interval = 0
    PROVE  LET start == RetargetWindow(height).startHeight
           IN  /\ start \in Nat /\ height - 1 - start \in Nat /\ height - 1 - start > 0
               /\ RetargetWindow(height).gaps = height - 1 - start
<1> DEFINE start == RetargetWindow(height).startHeight
<1>1. Interval \in Nat /\ Interval > 1
  BY RulesAssumption
<1>2. start = Max({0, height - Interval - 1}) /\ RetargetWindow(height).gaps = height - 1 - start
  BY DEF RetargetWindow
<1>3. height - Interval - 1 \in Int
  BY <1>1
<1>4. start = IF 0 >= height - Interval - 1 THEN 0 ELSE height - Interval - 1
  BY <1>2, <1>3, MaxOfTwo
<1> HIDE DEF start
<1>5. height # 1
  BY <1>1
<1> QED
  BY <1>1, <1>2, <1>4, <1>5 DEF start

(* The wallet's rule is the node's.                                          *)
LEMMA SameRule ==
    ASSUME NEW S, NEW c \in Seq(S), Len(c) >= 2
    PROVE  ExpectedTarget(c) = ExpectedTargetFor(PreviousHash(c))
<1> DEFINE p == PreviousHash(c)
           height == Len(c) - 1
<1>1. Len(c) \in Nat /\ height \in 0..Len(c) /\ height \in Nat /\ height >= 1
  OBVIOUS
<1>2. Len(p) = height /\ p[height] = c[height]
  BY <1>1, Prefix DEF PreviousHash
<1>3. HeightOf(c) = height
  BY DEF HeightOf
<1>4. HeaderOf(p) = c[height]
  BY <1>2 DEF HeaderOf
<1> HIDE DEF p, height
<1>5. CASE height % Interval # 0
  BY <1>2, <1>3, <1>4, <1>5 DEF ExpectedTarget, ExpectedTargetFor, p
<1>6. CASE height % Interval = 0
  <2>1. RetargetWindow(height).gaps = height - 1 - RetargetWindow(height).startHeight
    BY <1>1, <1>6, Window
  <2>2. ExpectedTarget(c) = NextTarget(p, height - 1 - RetargetWindow(height).startHeight)
    BY <1>3, <1>6 DEF ExpectedTarget, p
  <2>3. ExpectedTargetFor(p) = NextTarget(p, RetargetWindow(height).gaps)
    BY <1>2, <1>6 DEF ExpectedTargetFor
  <2> QED
    BY <2>1, <2>2, <2>3 DEF p
<1> QED
  BY <1>5, <1>6

(* Blocks on time are one block time apart, from one end of a period to the  *)
(* other.                                                                    *)
LEMMA TimesOnTime ==
    ASSUME NEW c \in Seq(Header), OnTime(c), NEW i \in Nat, i >= 1, NEW g \in Nat, i + g <= Len(c)
    PROVE  c[i + g].time - c[i].time = g * BlockTime
<1> DEFINE S == {k \in Nat : i + k <= Len(c) => c[i + k].time = c[i].time + k * BlockTime}
<1>1. BlockTime \in Nat
  BY RulesAssumption
<1>2. \A k \in 1..Len(c) : c[k].time \in Nat
  BY HeaderTypes
<1>3. c[i].time \in Nat
  BY <1>2
<1>4. 0 \in S
  BY <1>1, <1>3
<1>5. ASSUME NEW k \in Nat, k \in S PROVE k + 1 \in S
  <2> SUFFICES ASSUME i + (k + 1) <= Len(c)
               PROVE  c[i + (k + 1)].time = c[i].time + (k + 1) * BlockTime
    OBVIOUS
  <2>1. i + (k + 1) \in 2..Len(c) /\ (i + (k + 1)) - 1 = i + k /\ i + k <= Len(c)
    OBVIOUS
  <2>2. c[i + (k + 1)].time = c[i + k].time + BlockTime
    BY <2>1 DEF OnTime
  <2>3. c[i + k].time = c[i].time + k * BlockTime
    BY <1>5, <2>1
  <2>4. (k + 1) * BlockTime = k * BlockTime + BlockTime /\ k * BlockTime \in Nat
    BY <1>1
  <2> QED
    BY <1>1, <1>3, <2>2, <2>3, <2>4
<1> HIDE DEF S
<1>6. Nat \subseteq S
  BY <1>4, <1>5, SetInduction
<1>7. c[i + g].time = c[i].time + g * BlockTime
  BY <1>6 DEF S
<1>8. g * BlockTime \in Nat
  BY <1>1
<1> QED
  BY <1>3, <1>7, <1>8

(* The target of the next header, from that of the one before.               *)
LEMMA TargetStep ==
    ASSUME NEW c \in Seq(Header), Len(c) >= 2, c[Len(c) - 1].target \in 1..MaxTarget
    PROVE  /\ ExpectedTarget(c) \in 1..MaxTarget
           /\ OnTime(c) => ExpectedTarget(c) = c[Len(c) - 1].target
<1> DEFINE p == PreviousHash(c)
           height == Len(c) - 1
           start == RetargetWindow(height).startHeight
           gaps == height - 1 - start
<1>1. Len(c) \in Nat /\ height \in 0..Len(c) /\ height \in Nat /\ height >= 1
  OBVIOUS
<1>2. Len(p) = height /\ \A i \in 1..height : p[i] = c[i]
  BY <1>1, Prefix DEF PreviousHash
<1>3. HeightOf(c) = height
  BY DEF HeightOf
<1>4. CASE height % Interval # 0
  BY <1>3, <1>4 DEF ExpectedTarget
<1>5. CASE height % Interval = 0
  <2>1. start \in Nat /\ gaps \in Nat /\ gaps > 0
    BY <1>1, <1>5, Window
  <2>2. start + 1 \in 1..height /\ height - gaps = start + 1 /\ height = (start + 1) + gaps
    <3> HIDE DEF start, height
    <3> QED
      BY <1>1, <2>1
  <2>3. ExpectedTarget(c) = NextTarget(p, gaps)
    BY <1>3, <1>5 DEF ExpectedTarget
  <2> HIDE DEF p, start, gaps
  <2>4. p[Len(p)] = c[height] /\ p[Len(p) - gaps] = c[start + 1]
    BY <1>1, <1>2, <2>2
  <2> DEFINE actual == c[height].time - c[start + 1].time
             expected == gaps * BlockTime
  <2>5. ExpectedTarget(c) = RetargetDifficulty(c[height].target, actual, expected)
    BY <2>3, <2>4 DEF NextTarget, HeaderOf
  <2>6. c[height].target \in Nat /\ actual \in Int /\ c[height].target \in 1..MaxTarget
    <3>1. c[height] \in Header /\ c[start + 1] \in Header
      BY <1>1, <2>2
    <3> QED
      BY <3>1, HeaderTypes
  <2>7. expected \in Nat /\ expected > 0
    BY <2>1, RulesAssumption
  <2>8. OnTime(c) => actual = expected
    <3> SUFFICES ASSUME OnTime(c) PROVE actual = expected
      OBVIOUS
    <3>1. /\ start + 1 \in Nat /\ start + 1 >= 1 /\ gaps \in Nat
          /\ (start + 1) + gaps <= Len(c)
      BY <1>1, <2>1, <2>2
    <3>2. c[(start + 1) + gaps].time - c[start + 1].time = gaps * BlockTime
      BY <3>1, TimesOnTime
    <3> QED
      BY <2>2, <3>2
  <2> HIDE DEF actual, expected, height
  <2>9. /\ RetargetDifficulty(c[height].target, actual, expected) \in 1..MaxTarget
        /\ RetargetDifficulty(c[height].target, expected, expected) = c[height].target
    BY <2>6, <2>7, RetargetRange, Zenon
  <2> QED
    BY <2>5, <2>8, <2>9 DEF height
<1> QED
  BY <1>4, <1>5

(* Every target of a chain that obeys the rules is in range, and the first   *)
(* one for ever when the blocks are on time.                                 *)
LEMMA ObeysTargets ==
    ASSUME NEW c \in Seq(Header), NEW latest, Obeys(c, latest)
    PROVE  \A i \in 1..Len(c) :
             c[i].target \in 1..MaxTarget /\ (OnTime(c) => c[i].target = Genesis.target)
<1> DEFINE Good(i) == c[i].target \in 1..MaxTarget /\ (OnTime(c) => c[i].target = Genesis.target)
           S == {k \in Nat : k + 1 <= Len(c) => Good(k + 1)}
<1>1. 0 \in S
  BY WalletAssumption DEF Obeys
<1>2. ASSUME NEW k \in Nat, k \in S PROVE k + 1 \in S
  <2> SUFFICES ASSUME k + 2 <= Len(c) PROVE Good(k + 2)
    OBVIOUS
  <2> DEFINE d == SubSeq(c, 1, k + 2)
  <2>1. k + 2 \in 0..Len(c) /\ k + 2 \in 2..Len(c) /\ k + 1 <= Len(c)
    OBVIOUS
  <2>2. d \in Seq(Header) /\ Len(d) = k + 2 /\ \A i \in 1..(k + 2) : d[i] = c[i]
    BY <2>1, Prefix
  <2>3. HeaderValid(d, latest)
    BY <2>1 DEF Obeys
  <2> HIDE DEF d
  <2>4. d[k + 2] = c[k + 2] /\ d[k + 1] = c[k + 1] /\ Len(d) - 1 = k + 1
    BY <2>2
  <2>5. c[k + 2].target = ExpectedTarget(d)
    BY <2>2, <2>3, <2>4 DEF HeaderValid, ValidateHeader, HeaderOf
  <2>6. Good(k + 1)
    BY <1>2, <2>1, Zenon
  <2>7. Len(d) >= 2 /\ d[Len(d) - 1].target \in 1..MaxTarget
    BY <2>2, <2>4, <2>6
  <2>8. OnTime(c) => OnTime(d)
    BY <2>1, <2>2 DEF OnTime
  <2>9. /\ ExpectedTarget(d) \in 1..MaxTarget
        /\ OnTime(d) => ExpectedTarget(d) = d[Len(d) - 1].target
    BY <2>2, <2>7, TargetStep, Zenon
  <2> QED
    BY <2>4, <2>5, <2>6, <2>8, <2>9
<1> HIDE DEF S, Good
<1>3. Nat \subseteq S
  BY <1>1, <1>2, SetInduction
<1>4. ASSUME NEW i \in 1..Len(c) PROVE Good(i)
  <2>1. i - 1 \in S /\ (i - 1) + 1 = i
    BY <1>3
  <2> QED
    BY <2>1 DEF S
<1> QED
  BY <1>4 DEF Good

(* Every block adds work.                                                    *)
LEMMA WorkPositive ==
    ASSUME NEW t \in 1..MaxTarget
    PROVE  WorkForTarget(t) \in Nat /\ WorkForTarget(t) >= 1
<1>1. MaxTarget \in Nat /\ t + 1 \in Nat /\ t + 1 > 0 /\ t + 1 <= MaxTarget + 1
  BY RulesAssumption
<1>2. \A a, b \in Nat : b > 0 /\ b <= a => a \div b \in Nat /\ a \div b >= 1
  OBVIOUS
<1>3. MaxTarget + 1 \in Nat
  BY <1>1
<1> QED
  BY <1>1, <1>2, <1>3 DEF WorkForTarget

(* The work of such a chain is a number.                                     *)
LEMMA ObeysWork ==
    ASSUME NEW c \in Seq(Header), NEW latest, Obeys(c, latest)
    PROVE  ChainWork(c) \in Nat
<1> DEFINE S == {k \in Nat : k <= Len(c) => ChainWork(SubSeq(c, 1, k)) \in Nat}
<1>1. 0 \in S
  <2>1. SubSeq(c, 1, 0) = <<>>
    OBVIOUS
  <2>2. ChainWork(SubSeq(c, 1, 0)) = 0
    BY <2>1, NoWork, Zenon
  <2> QED
    BY <2>2
<1>2. ASSUME NEW k \in Nat, k \in S PROVE k + 1 \in S
  <2> SUFFICES ASSUME k + 1 <= Len(c) PROVE ChainWork(SubSeq(c, 1, k + 1)) \in Nat
    OBVIOUS
  <2> DEFINE d == SubSeq(c, 1, k + 1)
  <2>1. k + 1 \in 0..Len(c) /\ k \in 0..(k + 1) /\ k + 1 \in 1..Len(c) /\ k <= Len(c)
    OBVIOUS
  <2>2. d \in Seq(Header) /\ Len(d) = k + 1 /\ d[k + 1] = c[k + 1]
    BY <2>1, Prefix
  <2>3. PreviousHash(d) = SubSeq(c, 1, k)
    <3>1. SubSeq(d, 1, k) = SubSeq(c, 1, k)
      BY <2>1, PrefixOfPrefix
    <3>2. Len(d) - 1 = k
      BY <2>2
    <3> QED
      BY <3>1, <3>2 DEF PreviousHash
  <2> HIDE DEF d
  <2>4. ChainWork(d) = ChainWork(SubSeq(c, 1, k)) + WorkForTarget(c[k + 1].target)
    <3>1. d # <<>>
      BY <2>2
    <3>2. ChainWork(d) = ChainWork(PreviousHash(d)) + WorkForTarget(HeaderOf(d).target)
      BY <2>2, <3>1, WorkStep, Zenon
    <3> QED
      BY <2>2, <2>3, <3>2 DEF HeaderOf
  <2>5. WorkForTarget(c[k + 1].target) \in Nat
    BY <2>1, ObeysTargets, WorkPositive
  <2> QED
    BY <1>2, <2>1, <2>4, <2>5 DEF d
<1> HIDE DEF S
<1>3. Nat \subseteq S
  BY <1>1, <1>2, SetInduction
<1>4. ChainWork(SubSeq(c, 1, Len(c))) \in Nat
  BY <1>3 DEF S
<1>5. SubSeq(c, 1, Len(c)) = c
  OBVIOUS
<1> QED
  BY <1>4, <1>5, Zenon

(* A header that is not too far ahead now is not later.                      *)
LEMMA ValidLater ==
    ASSUME NEW c \in Seq(Header), c # <<>>, NEW latest \in Int, NEW later \in Int, latest <= later,
           HeaderValid(c, latest)
    PROVE  HeaderValid(c, later)
<1>1. HeaderOf(c).time \in Nat
  BY HeaderTypes DEF HeaderOf
<1> QED
  BY <1>1 DEF HeaderValid, ValidateHeader

(* One more header, and a page of them.                                      *)
LEMMA ExtendOne ==
    ASSUME NEW p \in Seq(Header), NEW c \in Seq(Header), NEW latest,
           Obeys(p, latest), PreviousHash(c) = p, HeaderValid(c, latest)
    PROVE  Obeys(c, latest) /\ ChainWork(c) > ChainWork(p)
<1>1. Len(p) \in Nat /\ Len(p) >= 1
  BY DEF Obeys
<1>2. Len(c) = Len(p) + 1 /\ Len(p) \in 0..Len(c)
  <2>1. Len(c) # 0
    BY <1>1 DEF PreviousHash
  <2>2. Len(c) - 1 \in 0..Len(c) /\ Len(c) \in Nat
    BY <2>1
  <2>3. Len(p) = Len(c) - 1
    BY <2>2, Prefix DEF PreviousHash
  <2> QED
    BY <2>2, <2>3
<1>3. SubSeq(c, 1, Len(p)) = p
  BY <1>2 DEF PreviousHash
<1>4. Obeys(c, latest)
  <2>1. c # <<>>
    BY <1>1, <1>2
  <2>2. c[1] = Genesis
    <3>1. SubSeq(c, 1, Len(p))[1] = c[1]
      BY <1>1, <1>2, Prefix
    <3> QED
      BY <1>3, <3>1 DEF Obeys
  <2>3. ASSUME NEW n \in 2..Len(c) PROVE HeaderValid(SubSeq(c, 1, n), latest)
    <3>1. CASE n = Len(c)
      <4>1. SubSeq(c, 1, n) = c
        BY <3>1
      <4> QED
        BY <4>1, Zenon
    <3>2. CASE n # Len(c)
      <4>1. n \in 2..Len(p) /\ n \in 0..Len(p)
        BY <1>1, <1>2, <3>2
      <4>2. SubSeq(p, 1, n) = SubSeq(c, 1, n)
        BY <1>2, <1>3, <4>1, PrefixOfPrefix
      <4>3. HeaderValid(SubSeq(p, 1, n), latest)
        BY <4>1 DEF Obeys
      <4> QED
        BY <4>2, <4>3, Zenon
    <3> QED
      BY <3>1, <3>2
  <2> QED
    BY <2>1, <2>2, <2>3 DEF Obeys
<1>5. ChainWork(c) = ChainWork(p) + WorkForTarget(HeaderOf(c).target)
  BY <1>1, <1>2, WorkStep
<1>6. ChainWork(p) \in Nat
  BY ObeysWork
<1>7. WorkForTarget(HeaderOf(c).target) \in Nat /\ WorkForTarget(HeaderOf(c).target) >= 1
  <2>1. Len(c) \in 1..Len(c)
    BY <1>1, <1>2
  <2>2. HeaderOf(c).target \in 1..MaxTarget
    BY <1>4, <2>1, ObeysTargets DEF HeaderOf
  <2> QED
    BY <2>2, WorkPositive
<1>8. ChainWork(c) > ChainWork(p)
  BY <1>5, <1>6, <1>7
<1> QED
  BY <1>4, <1>8

(* So a page of valid headers extends it, and adds work.                     *)
LEMMA ExtendPage ==
    ASSUME NEW p \in Seq(Header), NEW hs \in Seq(Seq(Header)), hs # <<>>,
           NEW latest \in Int, NEW later \in Int, latest <= later,
           Obeys(p, later), VerifyFrom(p, hs, latest)
    PROVE  Obeys(hs[Len(hs)], later) /\ ChainWork(hs[Len(hs)]) > ChainWork(p)
<1> DEFINE Good(i) == Obeys(hs[i], later) /\ ChainWork(hs[i]) > ChainWork(p)
           S == {k \in Nat : k + 1 <= Len(hs) => Good(k + 1)}
<1>1. ASSUME NEW i \in 1..Len(hs), NEW q \in Seq(Header), Obeys(q, later),
             q = IF i = 1 THEN p ELSE hs[i - 1]
      PROVE  Obeys(hs[i], later) /\ ChainWork(hs[i]) > ChainWork(q)
  <2>1. hs[i] \in Seq(Header) /\ PreviousHash(hs[i]) = q /\ HeaderValid(hs[i], latest)
    BY <1>1 DEF VerifyFrom
  <2>2. hs[i] # <<>>
    BY <1>1, <2>1, SMTT(30) DEF PreviousHash, Obeys
  <2>3. HeaderValid(hs[i], later)
    BY <2>1, <2>2, ValidLater, Zenon
  <2> QED
    BY <1>1, <2>1, <2>3, ExtendOne, Zenon
<1>2. 0 \in S
  <2> SUFFICES ASSUME 1 <= Len(hs) PROVE Good(1)
    OBVIOUS
  <2> QED
    BY <1>1
<1>3. ASSUME NEW k \in Nat, k \in S PROVE k + 1 \in S
  <2> SUFFICES ASSUME k + 2 <= Len(hs) PROVE Good(k + 2)
    OBVIOUS
  <2>1. k + 2 \in 1..Len(hs) /\ k + 2 # 1 /\ (k + 2) - 1 = k + 1 /\ k + 1 \in 1..Len(hs)
    OBVIOUS
  <2>2. Good(k + 1) /\ hs[k + 1] \in Seq(Header)
    BY <1>3, <2>1
  <2>3. Obeys(hs[k + 2], later) /\ ChainWork(hs[k + 2]) > ChainWork(hs[k + 1])
    BY <1>1, <2>1, <2>2, Zenon
  <2>4. ChainWork(p) \in Nat /\ ChainWork(hs[k + 1]) \in Nat /\ ChainWork(hs[k + 2]) \in Nat
    BY <2>1, <2>2, <2>3, ObeysWork, SMTT(30)
  <2> QED
    BY <2>2, <2>3, <2>4
<1> HIDE DEF S, Good
<1>4. Nat \subseteq S
  BY <1>2, <1>3, SetInduction, Zenon
<1>5. Len(hs) - 1 \in Nat /\ (Len(hs) - 1) + 1 = Len(hs) /\ Len(hs) <= Len(hs)
  OBVIOUS
<1>6. Good(Len(hs))
  BY <1>4, <1>5, Zenon DEF S
<1> QED
  BY <1>6 DEF Good

(* The headers of a chain from a height on verify exactly when they obey.    *)
LEMMA PageVerifies ==
    ASSUME NEW c \in Seq(Header), NEW latest, NEW k \in Nat, k >= 1, NEW m \in Nat, k + m <= Len(c)
    PROVE  VerifyFrom(SubSeq(c, 1, k), [i \in 1..m |-> SubSeq(c, 1, k + i)], latest)
             <=> \A i \in 1..m : HeaderValid(SubSeq(c, 1, k + i), latest)
<1> DEFINE hs == [i \in 1..m |-> SubSeq(c, 1, k + i)]
<1>1. DOMAIN hs = 1..m /\ \A i \in 1..m : hs[i] = SubSeq(c, 1, k + i)
  OBVIOUS
<1>2. ASSUME NEW i \in 1..m
      PROVE  PreviousHash(hs[i]) = IF i = 1 THEN SubSeq(c, 1, k) ELSE hs[i - 1]
  <2>1. k + i \in 0..Len(c) /\ (k + i) - 1 \in 0..(k + i)
    OBVIOUS
  <2>2. Len(SubSeq(c, 1, k + i)) = k + i
    BY <2>1, Prefix
  <2>3. SubSeq(SubSeq(c, 1, k + i), 1, (k + i) - 1) = SubSeq(c, 1, (k + i) - 1)
    BY <2>1, PrefixOfPrefix
  <2>4. PreviousHash(hs[i]) = SubSeq(c, 1, (k + i) - 1)
    BY <2>2, <2>3 DEF PreviousHash
  <2>5. CASE i = 1
    <3>1. (k + i) - 1 = k
      BY <2>5
    <3> QED
      BY <2>4, <2>5, <3>1
  <2>6. CASE i # 1
    <3>1. i - 1 \in 1..m /\ (k + i) - 1 = k + (i - 1)
      BY <2>6
    <3>2. hs[i - 1] = SubSeq(c, 1, k + (i - 1))
      BY <3>1
    <3> QED
      BY <2>4, <2>6, <3>1, <3>2
  <2> QED
    BY <2>5, <2>6
<1> HIDE DEF hs
<1>3. VerifyFrom(SubSeq(c, 1, k), hs, latest) <=> \A i \in 1..m : HeaderValid(hs[i], latest)
  BY <1>1, <1>2, Zenon DEF VerifyFrom
<1>4. (\A i \in 1..m : HeaderValid(hs[i], latest))
        <=> \A i \in 1..m : HeaderValid(SubSeq(c, 1, k + i), latest)
  BY <1>1, Zenon
<1> QED
  BY <1>3, <1>4 DEF hs

(* A file loads exactly when it obeys the rules.                             *)
LEMMA LoadsIs ==
    ASSUME NEW c \in Seq(Header), NEW latest
    PROVE  LoadsAt(c, latest) <=> Obeys(c, latest)
<1> DEFINE hs == AllHeaders(c)
           m == Len(c) - 1
           page == [i \in 1..m |-> SubSeq(c, 1, 1 + i)]
<1>1. CASE c = <<>>
  <2>1. AllHeaders(c) = <<>>
    BY <1>1 DEF AllHeaders
  <2> QED
    BY <1>1, <2>1 DEF LoadsAt, VerifyHeaderChain, Obeys
<1>2. CASE c # <<>>
  <2>1. Len(c) \in Nat /\ Len(c) >= 1 /\ m \in Nat /\ 1 + m <= Len(c) /\ 1 \in 0..Len(c)
    BY <1>2
  <2>2. \A i \in 1..Len(c) : SubSeq(c, 1, i) \in Seq(Header)
    BY Prefix
  <2>3. /\ hs = [i \in 1..Len(c) |-> SubSeq(c, 1, i)] /\ hs \in Seq(Seq(Header))
        /\ Len(hs) = Len(c) /\ hs # <<>> /\ hs[1] = SubSeq(c, 1, 1)
    <3>1. hs = [i \in 1..Len(c) |-> SubSeq(c, 1, i)]
      BY DEF AllHeaders
    <3> HIDE DEF hs
    <3>2. hs \in Seq(Seq(Header)) /\ Len(hs) = Len(c)
      BY <2>1, <2>2, <3>1
    <3>3. hs # <<>>
      BY <2>1, <3>2
    <3> QED
      BY <2>1, <3>1, <3>2, <3>3
  <2> HIDE DEF hs
  <2>4. Tail(hs) = page
    <3>1. Tail(hs) = [i \in 1..(Len(hs) - 1) |-> hs[i + 1]]
      BY <2>3
    <3>2. \A i \in 1..m : hs[i + 1] = SubSeq(c, 1, 1 + i)
      BY <2>1, <2>3
    <3> QED
      BY <2>3, <3>1, <3>2
  <2>5. SubSeq(c, 1, 1) = <<Genesis>> <=> c[1] = Genesis
    <3> DEFINE d == SubSeq(c, 1, 1)
    <3>1. d \in Seq(Header) /\ Len(d) = 1 /\ d[1] = c[1]
      BY <2>1, Prefix
    <3> HIDE DEF d
    <3>2. d = <<d[1]>>
      BY <3>1
    <3> QED
      BY <3>1, <3>2 DEF d
  <2>9. VerifyFrom(SubSeq(c, 1, 1), page, latest)
          <=> \A i \in 1..m : HeaderValid(SubSeq(c, 1, 1 + i), latest)
    <3>1. 1 \in Nat /\ 1 >= 1
      OBVIOUS
    <3> HIDE DEF m
    <3> QED
      BY ONLY <2>1, <3>1, c \in Seq(Header), PageVerifies, Zenon
  <2>6. (\A i \in 1..m : HeaderValid(SubSeq(c, 1, 1 + i), latest))
          <=> \A n \in 2..Len(c) : HeaderValid(SubSeq(c, 1, n), latest)
    <3>1. ASSUME \A i \in 1..m : HeaderValid(SubSeq(c, 1, 1 + i), latest), NEW n \in 2..Len(c)
          PROVE  HeaderValid(SubSeq(c, 1, n), latest)
      <4>1. n - 1 \in 1..m /\ 1 + (n - 1) = n
        BY <2>1
      <4> QED
        BY <3>1, <4>1, Zenon
    <3>2. ASSUME \A n \in 2..Len(c) : HeaderValid(SubSeq(c, 1, n), latest), NEW i \in 1..m
          PROVE  HeaderValid(SubSeq(c, 1, 1 + i), latest)
      <4>1. 1 + i \in 2..Len(c)
        BY <2>1
      <4> QED
        BY <3>2, <4>1
    <3> QED
      BY <3>1, <3>2
  <2> HIDE DEF hs, page, m
  <2>7. LoadsAt(c, latest) <=> hs[1] = <<Genesis>> /\ VerifyFrom(<<Genesis>>, page, latest)
    BY <2>3, <2>4, Zenon DEF LoadsAt, VerifyHeaderChain, hs
  <2>8. LoadsAt(c, latest) <=>
          SubSeq(c, 1, 1) = <<Genesis>> /\ VerifyFrom(SubSeq(c, 1, 1), page, latest)
    BY <2>3, <2>5, <2>7, Zenon
  <2> QED
    BY <1>2, <2>5, <2>6, <2>8, <2>9 DEF Obeys
<1> QED
  BY <1>1, <1>2

-----------------------------------------------------------------------------
(* Merkle trees: the recursions have solutions.                              *)

Climbs(up, leaves, n) == up = [i \in 0..n |-> IF i = 0 THEN leaves ELSE NextLevel(up[i - 1])]
Halves(up, p, n) == up = [i \in 0..n |-> IF i = 0 THEN p ELSE up[i - 1] \div 2]
UpFrom(x, sibling) ==
    IF sibling.position = "right" THEN Hash(x, sibling.hash) ELSE Hash(sibling.hash, x)
Folds(c, leaf, path, n) == c = [k \in 0..n |-> IF k = 0 THEN leaf ELSE UpFrom(c[k - 1], path[k])]

(* There is a function that gives every level of a tree.                     *)
LEMMA ClimbsExists ==
    ASSUME NEW leaves, NEW n \in Nat
    PROVE  \E up : Climbs(up, leaves, n)
<1> DEFINE S == {k \in Nat : \E up : Climbs(up, leaves, k)}
<1>1. 0 \in S
  <2>1. Climbs([i \in 0..0 |-> leaves], leaves, 0)
    BY DEF Climbs
  <2> QED
    BY <2>1
<1>2. ASSUME NEW k \in Nat, k \in S PROVE k + 1 \in S
  <2>1. PICK up : Climbs(up, leaves, k)
    BY <1>2
  <2> DEFINE v == [i \in 0..(k + 1) |-> IF i = k + 1 THEN NextLevel(up[k]) ELSE up[i]]
  <2>2. \A i \in 0..k : up[i] = IF i = 0 THEN leaves ELSE NextLevel(up[i - 1])
    BY <2>1, Zenon DEF Climbs
  <2>3. ASSUME NEW i \in 0..(k + 1) PROVE v[i] = IF i = 0 THEN leaves ELSE NextLevel(v[i - 1])
    <3>1. CASE i = 0
      BY <2>2, <3>1
    <3>2. CASE i = k + 1
      BY <3>2
    <3>3. CASE i \in 1..k
      BY <2>2, <3>3
    <3> QED
      BY <3>1, <3>2, <3>3
  <2>4. Climbs(v, leaves, k + 1)
    BY <2>3 DEF Climbs
  <2> QED
    BY <2>4
<1> HIDE DEF S
<1>3. Nat \subseteq S
  BY <1>1, <1>2, SetInduction
<1> QED
  BY <1>3 DEF S

(* What it is at a level.                                                    *)
LEMMA ClimbsAt ==
    ASSUME NEW up, NEW leaves, NEW n \in Nat, Climbs(up, leaves, n)
    PROVE  up[0] = leaves /\ \A i \in 0..n : i # 0 => up[i] = NextLevel(up[i - 1])
<1>1. \A i \in 0..n : up[i] = IF i = 0 THEN leaves ELSE NextLevel(up[i - 1])
  BY Zenon DEF Climbs
<1> QED
  BY <1>1

(* The recursion of Level.                                                   *)
LEMMA LevelStep ==
    ASSUME NEW leaves, NEW n \in Nat
    PROVE  Level(leaves, 0) = leaves /\ Level(leaves, n + 1) = NextLevel(Level(leaves, n))
<1> DEFINE Up(k) == CHOOSE up : Climbs(up, leaves, k)
<1>1. \A k \in Nat : Level(leaves, k) = Up(k)[k]
  BY Zenon DEF Level, Climbs
<1>2. \A k \in Nat : Climbs(Up(k), leaves, k)
  BY ClimbsExists, Zenon
<1> HIDE DEF Up
<1>3. \A k \in Nat : Up(k)[0] = leaves /\ \A i \in 0..k : i # 0 => Up(k)[i] = NextLevel(Up(k)[i - 1])
  BY <1>2, ClimbsAt, Zenon
<1> DEFINE S == {i \in Nat : i <= n => Up(n + 1)[i] = Up(n)[i]}
<1>4. 0 \in S
  BY <1>3
<1>5. ASSUME NEW i \in Nat, i \in S PROVE i + 1 \in S
  <2> SUFFICES ASSUME i + 1 <= n PROVE Up(n + 1)[i + 1] = Up(n)[i + 1]
    OBVIOUS
  <2>1. /\ i + 1 \in 0..n /\ i + 1 \in 0..(n + 1) /\ i + 1 # 0 /\ (i + 1) - 1 = i /\ i <= n
        /\ n + 1 \in Nat
    OBVIOUS
  <2>2. Up(n)[i + 1] = NextLevel(Up(n)[i]) /\ Up(n + 1)[i + 1] = NextLevel(Up(n + 1)[i])
    BY <1>3, <2>1
  <2> QED
    BY <1>5, <2>1, <2>2
<1> HIDE DEF S
<1>6. n \in S
  BY <1>4, <1>5, SetInduction
<1>7. Up(n + 1)[n] = Up(n)[n]
  BY <1>6 DEF S
<1>8. Up(n + 1)[n + 1] = NextLevel(Up(n + 1)[n])
  <2>1. n + 1 \in 0..(n + 1) /\ n + 1 # 0 /\ (n + 1) - 1 = n /\ n + 1 \in Nat
    OBVIOUS
  <2> QED
    BY <1>3, <2>1
<1>9. Level(leaves, n + 1) = Up(n + 1)[n + 1] /\ Level(leaves, n) = Up(n)[n]
  BY <1>1
<1>10. Level(leaves, 0) = leaves
  BY <1>1, <1>3
<1> QED
  BY <1>7, <1>8, <1>9, <1>10

(* The same for the place of a leaf at each level.                           *)
LEMMA HalvesExists ==
    ASSUME NEW p, NEW n \in Nat
    PROVE  \E up : Halves(up, p, n)
<1> DEFINE S == {k \in Nat : \E up : Halves(up, p, k)}
<1>1. 0 \in S
  <2>1. Halves([i \in 0..0 |-> p], p, 0)
    BY DEF Halves
  <2> QED
    BY <2>1
<1>2. ASSUME NEW k \in Nat, k \in S PROVE k + 1 \in S
  <2>1. PICK up : Halves(up, p, k)
    BY <1>2
  <2> DEFINE v == [i \in 0..(k + 1) |-> IF i = k + 1 THEN up[k] \div 2 ELSE up[i]]
  <2>2. \A i \in 0..k : up[i] = IF i = 0 THEN p ELSE up[i - 1] \div 2
    BY <2>1, Zenon DEF Halves
  <2>3. ASSUME NEW i \in 0..(k + 1) PROVE v[i] = IF i = 0 THEN p ELSE v[i - 1] \div 2
    <3>1. CASE i = 0
      BY <2>2, <3>1
    <3>2. CASE i = k + 1
      BY <3>2
    <3>3. CASE i \in 1..k
      BY <2>2, <3>3
    <3> QED
      BY <3>1, <3>2, <3>3
  <2>4. Halves(v, p, k + 1)
    BY <2>3 DEF Halves
  <2> QED
    BY <2>4
<1> HIDE DEF S
<1>3. Nat \subseteq S
  BY <1>1, <1>2, SetInduction
<1> QED
  BY <1>3 DEF S

(* What it is at a level.                                                    *)
LEMMA HalvesAt ==
    ASSUME NEW up, NEW p, NEW n \in Nat, Halves(up, p, n)
    PROVE  up[0] = p /\ \A i \in 0..n : i # 0 => up[i] = up[i - 1] \div 2
<1>1. \A i \in 0..n : up[i] = IF i = 0 THEN p ELSE up[i - 1] \div 2
  BY Zenon DEF Halves
<1> QED
  BY <1>1

(* The same for the way up from a leaf along a path.                         *)
LEMMA FoldsExists ==
    ASSUME NEW leaf, NEW path, NEW n \in Nat
    PROVE  \E c : Folds(c, leaf, path, n)
<1> DEFINE S == {k \in Nat : \E c : Folds(c, leaf, path, k)}
<1>1. 0 \in S
  <2>1. Folds([i \in 0..0 |-> leaf], leaf, path, 0)
    BY DEF Folds
  <2> QED
    BY <2>1
<1>2. ASSUME NEW k \in Nat, k \in S PROVE k + 1 \in S
  <2>1. PICK c : Folds(c, leaf, path, k)
    BY <1>2
  <2> DEFINE v == [i \in 0..(k + 1) |-> IF i = k + 1 THEN UpFrom(c[k], path[k + 1]) ELSE c[i]]
  <2>2. \A i \in 0..k : c[i] = IF i = 0 THEN leaf ELSE UpFrom(c[i - 1], path[i])
    BY <2>1, Zenon DEF Folds
  <2>3. ASSUME NEW i \in 0..(k + 1) PROVE v[i] = IF i = 0 THEN leaf ELSE UpFrom(v[i - 1], path[i])
    <3>1. CASE i = 0
      BY <2>2, <3>1
    <3>2. CASE i = k + 1
      BY <3>2
    <3>3. CASE i \in 1..k
      BY <2>2, <3>3
    <3> QED
      BY <3>1, <3>2, <3>3
  <2>4. Folds(v, leaf, path, k + 1)
    BY <2>3 DEF Folds
  <2> QED
    BY <2>4
<1> HIDE DEF S
<1>3. Nat \subseteq S
  BY <1>1, <1>2, SetInduction
<1> QED
  BY <1>3 DEF S

(* The recursion of Place.                                                   *)
LEMMA PlaceStep ==
    ASSUME NEW p, NEW n \in Nat
    PROVE  Place(p, 0) = p /\ Place(p, n + 1) = Place(p, n) \div 2
<1> DEFINE Up(k) == CHOOSE up : Halves(up, p, k)
<1>1. \A k \in Nat : Place(p, k) = Up(k)[k]
  BY Zenon DEF Place, Halves
<1>2. \A k \in Nat : Halves(Up(k), p, k)
  BY HalvesExists, Zenon
<1> HIDE DEF Up
<1>3. \A k \in Nat : Up(k)[0] = p /\ \A i \in 0..k : i # 0 => Up(k)[i] = Up(k)[i - 1] \div 2
  BY <1>2, HalvesAt, Zenon
<1> DEFINE S == {i \in Nat : i <= n => Up(n + 1)[i] = Up(n)[i]}
<1>4. 0 \in S
  BY <1>3
<1>5. ASSUME NEW i \in Nat, i \in S PROVE i + 1 \in S
  <2> SUFFICES ASSUME i + 1 <= n PROVE Up(n + 1)[i + 1] = Up(n)[i + 1]
    OBVIOUS
  <2>1. /\ i + 1 \in 0..n /\ i + 1 \in 0..(n + 1) /\ i + 1 # 0 /\ (i + 1) - 1 = i /\ i <= n
        /\ n + 1 \in Nat
    OBVIOUS
  <2>2. Up(n)[i + 1] = Up(n)[i] \div 2 /\ Up(n + 1)[i + 1] = Up(n + 1)[i] \div 2
    BY <1>3, <2>1
  <2> QED
    BY <1>5, <2>1, <2>2
<1> HIDE DEF S
<1>6. n \in S
  BY <1>4, <1>5, SetInduction
<1>7. Up(n + 1)[n] = Up(n)[n]
  BY <1>6 DEF S
<1>8. Up(n + 1)[n + 1] = Up(n + 1)[n] \div 2
  <2>1. n + 1 \in 0..(n + 1) /\ n + 1 # 0 /\ (n + 1) - 1 = n /\ n + 1 \in Nat
    OBVIOUS
  <2> QED
    BY <1>3, <2>1
<1>9. Place(p, n + 1) = Up(n + 1)[n + 1] /\ Place(p, n) = Up(n)[n]
  BY <1>1
<1>10. Place(p, 0) = p
  BY <1>1, <1>3
<1> QED
  BY <1>7, <1>8, <1>9, <1>10

-----------------------------------------------------------------------------
(* ... and an inclusion proof leads to the root.                             *)

(* A function on 1..n is a sequence of length n.                             *)
LEMMA ListLen ==
    ASSUME NEW n \in Nat, NEW s, s = [i \in 1..n |-> s[i]]
    PROVE  Len(s) = n /\ DOMAIN s = 1..n
<1>1. DOMAIN s = 1..n
  BY Zenon
<1>2. s \in [1..n -> Range(s)]
  BY <1>1 DEF Range
<1> QED
  BY <1>1, <1>2

(* A level has half the nodes of the one below, rounded up.                  *)
LEMMA NextLevelLen ==
    ASSUME NEW level, Len(level) \in Nat, Len(level) >= 1
    PROVE  /\ Len(NextLevel(level)) = (Len(level) + 1) \div 2
           /\ Len(NextLevel(level)) \in Nat /\ Len(NextLevel(level)) >= 1
           /\ Len(level) > 1 => Len(NextLevel(level)) < Len(level)
           /\ Len(level) = 1 => Len(NextLevel(level)) = 1
<1> DEFINE n == (Len(level) + 1) \div 2
<1>1. /\ n \in Nat /\ n >= 1 /\ (Len(level) > 1 => n < Len(level)) /\ (Len(level) = 1 => n = 1)
  <2>1. \A m \in Nat : m >= 1 =>
          /\ (m + 1) \div 2 \in Nat /\ (m + 1) \div 2 >= 1
          /\ (m > 1 => (m + 1) \div 2 < m) /\ (m = 1 => (m + 1) \div 2 = 1)
    OBVIOUS
  <2> QED
    BY <2>1, Zenon
<1>2. NextLevel(level) = [i \in 1..n |-> NextLevel(level)[i]]
  BY DEF NextLevel
<1> HIDE DEF n
<1>3. Len(NextLevel(level)) = n
  BY <1>1, <1>2, ListLen
<1> QED
  BY <1>1, <1>3 DEF n

(* Every level has a node, and fewer than the one below until there is one.  *)
LEMMA LevelsShrink ==
    ASSUME NEW leaves, Len(leaves) \in Nat, Len(leaves) >= 1, NEW k \in Nat
    PROVE  /\ Len(Level(leaves, k)) \in Nat /\ Len(Level(leaves, k)) >= 1
           /\ Len(Level(leaves, k)) = 1 \/ Len(Level(leaves, k)) + k <= Len(leaves)
<1> DEFINE n(i) == Len(Level(leaves, i))
           S == {i \in Nat : n(i) \in Nat /\ n(i) >= 1 /\ (n(i) = 1 \/ n(i) + i <= Len(leaves))}
<1>1. 0 \in S
  BY LevelStep
<1>2. ASSUME NEW i \in Nat, i \in S PROVE i + 1 \in S
  <2>1. Level(leaves, i + 1) = NextLevel(Level(leaves, i))
    BY LevelStep
  <2>2. /\ n(i + 1) \in Nat /\ n(i + 1) >= 1
        /\ n(i) > 1 => n(i + 1) < n(i)
        /\ n(i) = 1 => n(i + 1) = 1
    BY <1>2, <2>1, NextLevelLen, Zenon
  <2> HIDE DEF n
  <2>3. n(i + 1) = 1 \/ n(i + 1) + (i + 1) <= Len(leaves)
    BY <1>2, <2>2
  <2> QED
    BY <2>2, <2>3
<1> HIDE DEF S
<1>3. k \in S
  BY <1>1, <1>2, SetInduction
<1> QED
  BY <1>3 DEF S

(* The levels end with a single node, the root.                              *)
LEMMA DepthIs ==
    ASSUME NEW leaves, Len(leaves) \in Nat, Len(leaves) >= 1
    PROVE  Depth(leaves) \in Nat /\ Len(Level(leaves, Depth(leaves))) = 1
<1> DEFINE T == {k \in Nat : Len(Level(leaves, k)) = 1}
           P(d) == /\ Len(Level(leaves, d)) = 1
                   /\ \A e \in 0..(d - 1) : Len(Level(leaves, e)) > 1
<1>1. Len(leaves) \in T
  <2>1. /\ Len(Level(leaves, Len(leaves))) \in Nat /\ Len(Level(leaves, Len(leaves))) >= 1
        /\ Len(Level(leaves, Len(leaves))) = 1
             \/ Len(Level(leaves, Len(leaves))) + Len(leaves) <= Len(leaves)
    BY LevelsShrink
  <2> QED
    BY <2>1
<1>2. PICK d \in T : \A k \in T : d <= k
  BY <1>1, LeastNat, Zenon
<1>3. d \in 0..Len(leaves)
  BY <1>1, <1>2
<1>4. P(d)
  <2>1. ASSUME NEW e \in 0..(d - 1) PROVE Len(Level(leaves, e)) > 1
    <3>1. e \in Nat /\ Len(Level(leaves, e)) # 1
      BY <1>2
    <3>2. Len(Level(leaves, e)) \in Nat /\ Len(Level(leaves, e)) >= 1
      BY <3>1, LevelsShrink
    <3>3. \A m \in Nat : m >= 1 /\ m # 1 => m > 1
      OBVIOUS
    <3> QED
      BY <3>1, <3>2, <3>3, Zenon
  <2> QED
    BY <1>2, <2>1
<1>5. Depth(leaves) = CHOOSE x \in 0..Len(leaves) : P(x)
  BY DEF Depth
<1> HIDE DEF P
<1>6. Depth(leaves) \in 0..Len(leaves) /\ P(Depth(leaves))
  BY <1>3, <1>4, <1>5, Zenon
<1> QED
  BY <1>6 DEF P

(* The node above place p, from it and its sibling.                          *)
LEMMA ParentNode ==
    ASSUME NEW level, Len(level) \in Nat, NEW p \in 0..(Len(level) - 1)
    PROVE  /\ p \div 2 \in 0..(Len(NextLevel(level)) - 1)
           /\ NextLevel(level)[(p \div 2) + 1] =
                IF p % 2 = 0 THEN Hash(level[p + 1], Sibling(level, p))
                ELSE Hash(Sibling(level, p), level[p + 1])
<1> DEFINE m == Len(level)
           n == (m + 1) \div 2
           h == p \div 2
<1>1. m \in Nat /\ m >= 1 /\ p \in Nat /\ p < m
  OBVIOUS
<1>2. Len(NextLevel(level)) = n
  BY <1>1, NextLevelLen
<1>3. /\ n \in Nat /\ h \in 0..(n - 1) /\ h + 1 \in 1..n
      /\ p % 2 = 0 => 2 * (h + 1) - 1 = p + 1 /\ 2 * (h + 1) = p + 2
      /\ p % 2 # 0 => 2 * (h + 1) - 1 = p /\ 2 * (h + 1) = p + 1
  <2> HIDE DEF m
  <2> QED
    BY <1>1
<1>4. NextLevel(level)[h + 1] = Hash(level[2 * (h + 1) - 1], OrLast(level, 2 * (h + 1)))
  <2> HIDE DEF n, h
  <2> QED
    BY <1>3 DEF NextLevel, n, m
<1>5. OrLast(level, p + 1) = level[p + 1]
  <2>1. p + 1 \in Int /\ m \in Int /\ p + 1 <= m
    BY <1>1
  <2>2. Min({p + 1, m}) = p + 1
    BY <2>1, MinOfTwo, Zenon
  <2> QED
    BY <2>2 DEF OrLast
<1> HIDE DEF h, n, m
<1>6. CASE p % 2 = 0
  BY <1>2, <1>3, <1>4, <1>6 DEF Sibling, h
<1>7. CASE p % 2 # 0
  BY <1>2, <1>3, <1>4, <1>5, <1>7, Zenon DEF Sibling, h
<1> QED
  BY <1>6, <1>7

(* Of all transactions the node's path leads only the one it is of to the    *)
(* block's merkle root, at every place and for every size of the block       *)
(* (merkleProof, verifyMerkleProof).                                         *)
LEMMA MerkleExact ==
    ASSUME NEW txs, txs \in Seq(Range(txs)), NEW i \in 0..(Len(txs) - 1), NEW u
    PROVE  VerifyMerkleProof(<<u>>, MerkleProof(txs, i), MerkleRoot(txs)) <=> u = txs[i + 1]
<1> DEFINE leaves == Leaves(txs)
           L(k) == Level(leaves, k)
           P(k) == Place(i, k)
           d == Depth(leaves)
           proofs == MerkleProof(txs, i)
           Up(c, k) == IF k = 0 THEN <<u>> ELSE UpFrom(c[k - 1], proofs[k])
           Solves(c) == Folds(c, <<u>>, proofs, Len(proofs))
<1>1. Len(leaves) \in Nat /\ Len(leaves) >= 1 /\ Len(leaves) = Len(txs) /\ leaves[i + 1] = <<txs[i + 1]>>
  <2>1. Len(txs) \in Nat /\ DOMAIN txs = 1..Len(txs) /\ i + 1 \in 1..Len(txs)
    OBVIOUS
  <2>2. leaves = [j \in 1..Len(txs) |-> leaves[j]] /\ leaves[i + 1] = <<txs[i + 1]>>
    BY <2>1 DEF Leaves
  <2> HIDE DEF leaves
  <2>3. Len(leaves) = Len(txs)
    BY <2>1, <2>2, ListLen
  <2> QED
    BY <2>1, <2>2, <2>3
<1> HIDE DEF leaves
<1>2. d \in Nat /\ Len(L(d)) = 1
  BY <1>1, DepthIs
<1>3. \A k \in Nat : Len(L(k)) \in Nat
  BY <1>1, LevelsShrink
<1>4. L(0) = leaves /\ \A k \in Nat : L(k + 1) = NextLevel(L(k))
  BY LevelStep
<1>5. P(0) = i /\ \A k \in Nat : P(k + 1) = P(k) \div 2
  BY PlaceStep, Zenon
<1>6. /\ Len(proofs) = d
      /\ \A k \in 1..d : /\ proofs[k].hash = Sibling(L(k - 1), P(k - 1))
                         /\ proofs[k].position = IF P(k - 1) % 2 = 0 THEN "right" ELSE "left"
  <2>1. proofs = [k \in 1..d |-> [hash |-> Sibling(L(k - 1), P(k - 1)),
                                  position |-> IF P(k - 1) % 2 = 0 THEN "right" ELSE "left"]]
    BY DEF MerkleProof, leaves
  <2> HIDE DEF L, P, d, proofs
  <2>2. proofs = [k \in 1..d |-> proofs[k]]
    BY <2>1
  <2> QED
    BY <1>2, <2>1, <2>2, ListLen
<1>7. MerkleRoot(txs) = L(d)[1]
  BY DEF MerkleRoot, leaves
<1> HIDE DEF L, P, d, proofs
<1>8. \A k \in Nat : P(k) \in 0..(Len(L(k)) - 1)
  <2> DEFINE S == {k \in Nat : P(k) \in 0..(Len(L(k)) - 1)}
  <2>1. 0 \in S
    BY <1>1, <1>4, <1>5, Zenon
  <2>2. ASSUME NEW k \in Nat, k \in S PROVE k + 1 \in S
    <3>1. P(k) \div 2 \in 0..(Len(NextLevel(L(k))) - 1)
      BY <1>3, <2>2, ParentNode, Zenon
    <3> QED
      BY <1>4, <1>5, <3>1, SMTT(30)
  <2> HIDE DEF S
  <2>3. Nat \subseteq S
    BY <2>1, <2>2, SetInduction, Zenon
  <2> QED
    BY <2>3, Zenon DEF S
<1>9. ASSUME NEW k \in 1..d, NEW c
      PROVE  UpFrom(c, proofs[k]) = L(k)[P(k) + 1] <=> c = L(k - 1)[P(k - 1) + 1]
  <2>1. k - 1 \in Nat /\ (k - 1) + 1 = k /\ k # 0
    OBVIOUS
  <2>2. L(k) = NextLevel(L(k - 1)) /\ P(k) = P(k - 1) \div 2
    <3>1. L((k - 1) + 1) = NextLevel(L(k - 1)) /\ P((k - 1) + 1) = P(k - 1) \div 2
      BY <1>4, <1>5, <2>1, Zenon
    <3> QED
      BY <2>1, <3>1, Zenon
  <2> DEFINE x == L(k - 1)[P(k - 1) + 1]
             y == Sibling(L(k - 1), P(k - 1))
  <2>3. L(k)[P(k) + 1] = IF P(k - 1) % 2 = 0 THEN Hash(x, y) ELSE Hash(y, x)
    BY <1>3, <1>8, <2>1, <2>2, ParentNode, Zenon
  <2>4. /\ proofs[k].hash = y
        /\ proofs[k].position = IF P(k - 1) % 2 = 0 THEN "right" ELSE "left"
    BY <1>6
  <2> HIDE DEF x, y
  <2>5. UpFrom(c, proofs[k]) = IF P(k - 1) % 2 = 0 THEN Hash(c, y) ELSE Hash(y, c)
    BY <2>4 DEF UpFrom
  <2>6. Hash(c, y) = Hash(x, y) <=> c = x
    BY DEF Hash
  <2>7. Hash(y, c) = Hash(y, x) <=> c = x
    BY DEF Hash
  <2> QED
    BY <2>3, <2>5, <2>6, <2>7 DEF x
<1>10. \E c : Solves(c)
  BY <1>2, <1>6, FoldsExists, Zenon
<1> DEFINE current == CHOOSE c : Solves(c)
<1>11. Solves(current)
  BY <1>10, Zenon
<1>12. VerifyMerkleProof(<<u>>, proofs, MerkleRoot(txs)) <=> current[Len(proofs)] = MerkleRoot(txs)
  BY Zenon DEF VerifyMerkleProof, Folds, UpFrom
<1> HIDE DEF current, Solves
<1>13. \A k \in 0..d : current[k] = Up(current, k)
  BY <1>6, <1>11, Zenon DEF Solves, Folds
<1> DEFINE S == {k \in Nat : k <= d => (current[k] = L(k)[P(k) + 1] <=> u = txs[i + 1])}
<1>14. 0 \in S
  <2>1. current[0] = <<u>>
    BY <1>2, <1>13
  <2>2. L(0)[P(0) + 1] = <<txs[i + 1]>>
    BY <1>1, <1>4, <1>5, Zenon
  <2>3. <<u>> = <<txs[i + 1]>> <=> u = txs[i + 1]
    OBVIOUS
  <2> QED
    BY <2>1, <2>2, <2>3
<1>15. ASSUME NEW k \in Nat, k \in S PROVE k + 1 \in S
  <2> SUFFICES ASSUME k + 1 <= d
               PROVE  current[k + 1] = L(k + 1)[P(k + 1) + 1] <=> u = txs[i + 1]
    OBVIOUS
  <2>1. k + 1 \in 1..d /\ k + 1 \in 0..d /\ (k + 1) - 1 = k /\ k <= d /\ k + 1 # 0
    BY <1>2
  <2>2. current[k] = L(k)[P(k) + 1] <=> u = txs[i + 1]
    BY <1>15, <2>1, Zenon
  <2>3. current[k + 1] = UpFrom(current[k], proofs[k + 1])
    <3>1. current[k + 1] = UpFrom(current[(k + 1) - 1], proofs[k + 1])
      BY <1>13, <2>1, Zenon
    <3> QED
      BY <2>1, <3>1, Zenon
  <2>4. UpFrom(current[k], proofs[k + 1]) = L(k + 1)[P(k + 1) + 1]
          <=> current[k] = L((k + 1) - 1)[P((k + 1) - 1) + 1]
    BY <1>9, <2>1, Zenon
  <2> QED
    BY <2>1, <2>2, <2>3, <2>4
<1> HIDE DEF S
<1>16. current[d] = L(d)[P(d) + 1] <=> u = txs[i + 1]
  <2>1. d \in S
    BY <1>2, <1>14, <1>15, SetInduction
  <2> QED
    BY <1>2, <2>1 DEF S
<1>17. P(d) + 1 = 1
  <2>1. P(d) \in 0..(Len(L(d)) - 1)
    BY <1>2, <1>8, Zenon
  <2> QED
    BY <1>2, <2>1
<1> QED
  BY <1>6, <1>7, <1>12, <1>16, <1>17 DEF proofs

-----------------------------------------------------------------------------
(* The inductive invariant.                                                  *)

Probe == [mismatch : Int, step : Int, match : Int]

Types ==
    /\ now \in 0..MaxNow /\ served \in Served /\ moved \in BOOLEAN
    /\ store \in Seq(Header) /\ stored \in Seq(Header) /\ tail \in Seq(Seq(Header))
    /\ probe \in Probe

(* What a command has loaded, and where it is looking for the fork.          *)
Session ==
    /\ phase \in {"idle", "info", "tail", "tip"} => probe = NoProbe
    /\ phase # "fetch" => tail = <<>>
    /\ phase \in {"tail", "tip", "back", "search"} => stored = store /\ Loads(store)
    /\ phase = "back" => probe.mismatch \in 0..StoredTip /\ probe.step >= 1
    /\ phase = "search" =>
        0 <= probe.match /\ probe.match <= probe.mismatch /\ probe.mismatch <= StoredTip
    /\ phase = "fetch" =>
        \/ stored = <<>> /\ ~Loads(store) /\ probe = NoProbe
        \/ stored = store /\ Loads(store) /\ probe.match \in 0..StoredTip

(* As long as the node has not moved, it agrees with what it said.           *)
Agrees(h) == h < Len(served) /\ HeaderAt(served, h) = HeaderAt(stored, h)

Answers ==
    ~moved =>
        /\ phase = "tip" => Len(served) <= Len(stored)
        /\ phase = "search" => Agrees(probe.match)
        /\ phase = "fetch" =>
            /\ stored # <<>> => Agrees(probe.match)
            /\ NextFrom <= Len(served)
            /\ tail = [i \in 1..Len(tail) |-> HeaderAt(served, probe.match + i)]

(* The path of the node's answer is of a block of some chain, and leads to   *)
(* its root only from a transaction of that block.                           *)
Proves ==
    /\ phase = "idle" => proof = NoProof
    /\ proof # NoProof =>
        /\ proof.chain \in Seq(Header) /\ proof.chain # <<>>
        /\ \E u \in Tx :
            /\ proof.tx = <<u>>
            /\ VerifyMerkleProof(proof.tx, proof.siblings, MerkleRoot(HeaderOf(proof.chain).txs)) =>
                u \in Range(HeaderOf(proof.chain).txs)

WalletInv ==
    /\ Types /\ Session /\ Answers /\ Proves
    /\ result.status \in {"synced", "confirmed"} => Loads(store)

-----------------------------------------------------------------------------
(* The node's answers.                                                       *)

(* A page holds the headers of the node from a height on, and a short one    *)
(* ends with its tip.                                                        *)
LEMMA PageIs ==
    ASSUME served \in Served, NEW from \in Nat, NEW count \in Nat, NEW page,
           page = GetHeaders(from, count)
    PROVE  /\ page \in Seq(Seq(Header)) /\ Len(page) \in 0..count
           /\ \A i \in 1..Len(page) : page[i] = SubSeq(served, 1, from + i)
           /\ Len(page) = 0 \/ from + Len(page) <= Len(served)
           /\ Len(page) < count => from + Len(page) >= Len(served)
<1> DEFINE m == Min({count, Len(served) - from})
           n == Max({0, m})
<1>1. served \in Seq(Header) /\ Len(served) \in Nat
  BY ServedTypes
<1>2. Len(served) - from \in Int
  BY <1>1
<1>3. m = IF count <= Len(served) - from THEN count ELSE Len(served) - from
  BY <1>2, MinOfTwo
<1>4. m \in Int
  BY <1>2, <1>3
<1> HIDE DEF m
<1>5. n = IF 0 >= m THEN 0 ELSE m
  BY <1>4, MaxOfTwo
<1>6. /\ n \in 0..count /\ (n = 0 \/ from + n <= Len(served))
      /\ n < count => from + n >= Len(served)
  BY <1>1, <1>3, <1>4, <1>5
<1>7. page = [i \in 1..n |-> SubSeq(served, 1, (from + i - 1) + 1)]
  BY DEF GetHeaders, HeaderAt, m
<1> HIDE DEF n
<1>8. \A i \in 1..n : (from + i - 1) + 1 = from + i
  OBVIOUS
<1>9. page = [i \in 1..n |-> SubSeq(served, 1, from + i)]
  BY <1>7, <1>8
<1>10. \A i \in 1..n : SubSeq(served, 1, from + i) \in Seq(Header)
  <2> SUFFICES ASSUME NEW i \in 1..n PROVE SubSeq(served, 1, from + i) \in Seq(Header)
    OBVIOUS
  <2>1. from + i \in 0..Len(served)
    BY <1>1, <1>6
  <2> QED
    BY <1>1, <2>1, Prefix
<1>11. page \in Seq(Seq(Header)) /\ Len(page) = n
  <2>1. n \in Nat
    BY <1>6
  <2>2. page \in [1..n -> Seq(Header)]
    BY ONLY <1>9, <1>10, Zenon
  <2> QED
    BY ONLY <2>1, <2>2
<1> QED
  BY <1>6, <1>9, <1>11, Zenon

(* A height agrees when the two chains are the same up to it.                *)
LEMMA AgreesIs ==
    ASSUME served \in Served, stored \in Seq(Header), NEW h \in 0..StoredTip
    PROVE  AgreesAt(h) <=> Agrees(h)
<1>1. served \in Seq(Header) /\ Len(served) \in Nat /\ h \in Nat /\ 1 \in Nat
  BY ServedTypes
<1> DEFINE page == GetHeaders(h, 1)
<1>2. /\ page \in Seq(Seq(Header)) /\ Len(page) \in 0..1
      /\ \A i \in 1..Len(page) : page[i] = SubSeq(served, 1, h + i)
      /\ Len(page) = 0 \/ h + Len(page) <= Len(served)
      /\ Len(page) < 1 => h + Len(page) >= Len(served)
  BY <1>1, PageIs, Zenon
<1>3. AgreesAt(h) <=> page = <<HeaderAt(stored, h)>>
  BY DEF AgreesAt
<1> HIDE DEF page
<1>4. CASE Len(page) = 0
  <2>1. ~(h < Len(served))
    BY <1>1, <1>2, <1>4
  <2>2. page # <<HeaderAt(stored, h)>>
    BY <1>4
  <2> QED
    BY <1>3, <2>1, <2>2 DEF Agrees
<1>5. CASE Len(page) = 1
  <2>1. h < Len(served)
    BY <1>1, <1>2, <1>5
  <2>2. page[1] = HeaderAt(served, h)
    BY <1>2, <1>5 DEF HeaderAt
  <2>3. page = <<page[1]>>
    BY <1>2, <1>5
  <2>4. page = <<HeaderAt(stored, h)>> <=> page[1] = HeaderAt(stored, h)
    BY <2>3
  <2> QED
    BY <1>3, <2>1, <2>2, <2>4 DEF Agrees
<1> QED
  BY <1>2, <1>4, <1>5

-----------------------------------------------------------------------------
(* How a command ends.                                                       *)

Bound == MaxSafeInteger + MaxFutureDrift

(* The clock stays below the time that loading a file takes for now.         *)
LEMMA Bounds ==
    ASSUME Types
    PROVE  Latest \in Int /\ Bound \in Int /\ Latest <= Bound
<1>1. {MaxFutureDrift, MaxNow, MaxSafeInteger} \subseteq Nat /\ MaxNow <= MaxSafeInteger
  BY WalletAssumption
<1>2. now \in 0..MaxNow
  BY DEF Types
<1> QED
  BY <1>1, <1>2 DEF Latest, Bound

(* A file loads when its headers obey the rules, at whatever time.           *)
LEMMA FileLoads ==
    ASSUME NEW c \in Seq(Header)
    PROVE  Loads(c) <=> Obeys(c, Bound)
  BY LoadsIs DEF Loads, Bound

(* The chain that the verified headers make.                                 *)
LEMMA FirstSync ==
    ASSUME Types, NEW headers \in Seq(Seq(Header)), VerifyHeaderChain(headers, Latest)
    PROVE  headers # <<>> /\ headers[Len(headers)] \in Seq(Header) /\ Loads(headers[Len(headers)])
<1> DEFINE g == <<Genesis>>
           hs == Tail(headers)
<1>1. headers # <<>> /\ headers[1] = g /\ VerifyFrom(g, hs, Latest)
  BY DEF VerifyHeaderChain
<1>2. Len(headers) \in Nat /\ Len(headers) >= 1 /\ hs \in Seq(Seq(Header)) /\ Len(hs) = Len(headers) - 1
  BY <1>1
<1>3. headers[Len(headers)] \in Seq(Header) /\ g \in Seq(Header)
  <2> HIDE DEF g
  <2>1. headers[Len(headers)] \in Seq(Header) /\ headers[1] \in Seq(Header)
    BY <1>2
  <2> QED
    BY <1>1, <2>1
<1>4. Obeys(g, Bound)
  <2>1. g # <<>> /\ g[1] = Genesis /\ Len(g) = 1
    BY Zenon
  <2> QED
    BY <2>1 DEF Obeys
<1>5. CASE Len(headers) = 1
  BY <1>1, <1>3, <1>4, <1>5, FileLoads
<1>6. CASE Len(headers) # 1
  <2>1. hs # <<>> /\ hs[Len(hs)] = headers[Len(headers)]
    <3>1. Len(hs) \in 1..(Len(headers) - 1) /\ Len(hs) + 1 = Len(headers)
      BY <1>2, <1>6
    <3>2. \A i \in 1..(Len(headers) - 1) : Tail(headers)[i] = headers[i + 1]
      BY <1>1
    <3>3. hs[Len(hs)] = headers[Len(hs) + 1]
      BY <3>1, <3>2
    <3> HIDE DEF hs
    <3>4. hs # <<>>
      BY <1>2, <3>1
    <3> QED
      BY <3>1, <3>3, <3>4
  <2> HIDE DEF g, hs
  <2>2. Obeys(hs[Len(hs)], Bound)
    BY <1>1, <1>2, <1>3, <1>4, <2>1, Bounds, ExtendPage, Zenon
  <2> QED
    BY <1>1, <1>3, <2>1, <2>2, FileLoads
<1> QED
  BY <1>5, <1>6

(* On a stored chain: the result loads again, and unless it is refused it    *)
(* is the stored chain or has more work.                                     *)
LEMMA FurtherSync ==
    ASSUME Types, stored = store, Loads(store), NEW fork \in 0..StoredTip,
           NEW headers \in Seq(Seq(Header)), NEW chain,
           VerifyFrom(HeaderAt(stored, fork), headers, Latest),
           chain = IF headers = <<>> THEN HeaderAt(stored, fork) ELSE headers[Len(headers)]
    PROVE  /\ chain \in Seq(Header) /\ Loads(chain)
           /\ ~TooLight(fork, chain) => chain = store \/ ChainWork(chain) > ChainWork(store)
<1> DEFINE p == HeaderAt(stored, fork)
<1>1. store \in Seq(Header) /\ Obeys(store, Bound)
  BY FileLoads, Zenon DEF Types
<1>2. Len(store) \in Nat /\ fork + 1 \in 0..Len(store) /\ fork + 1 \in 1..Len(store)
  BY <1>1 DEF StoredTip
<1>3. p \in Seq(Header) /\ p = SubSeq(store, 1, fork + 1) /\ Len(p) = fork + 1
  BY <1>1, <1>2, Prefix, Zenon DEF HeaderAt
<1>4. Obeys(p, Bound)
  <2>1. p # <<>> /\ p[1] = Genesis
    <3>1. p[1] = store[1]
      BY <1>1, <1>2, <1>3, Prefix
    <3>2. store[1] = Genesis
      BY <1>1 DEF Obeys
    <3> HIDE DEF p
    <3>3. p # <<>>
      BY <1>2, <1>3
    <3> QED
      BY <3>1, <3>2, <3>3, Zenon
  <2>2. ASSUME NEW n \in 2..Len(p) PROVE HeaderValid(SubSeq(p, 1, n), Bound)
    <3>1. n \in 0..(fork + 1) /\ n \in 2..Len(store)
      BY <1>2, <1>3
    <3>2. SubSeq(p, 1, n) = SubSeq(store, 1, n)
      BY <1>1, <1>2, <1>3, <3>1, PrefixOfPrefix
    <3> QED
      BY <1>1, <3>1, <3>2, Zenon DEF Obeys
  <2> HIDE DEF p
  <2> QED
    BY <2>1, <2>2 DEF Obeys
<1> HIDE DEF p
<1>5. CASE headers = <<>>
  <2>1. chain = p
    BY <1>5, Zenon DEF p
  <2>2. fork = StoredTip => p = store
    BY <1>1, <1>2, <1>3, Prefix DEF StoredTip
  <2>3. fork # StoredTip => fork < StoredTip
    BY <1>2 DEF StoredTip
  <2> QED
    BY <1>3, <1>4, <2>1, <2>2, <2>3, FileLoads, Zenon DEF TooLight, IsBetterChain
<1>6. CASE headers # <<>>
  <2>1. chain = headers[Len(headers)] /\ chain \in Seq(Header)
    BY <1>6
  <2>2. Obeys(chain, Bound) /\ ChainWork(chain) > ChainWork(p)
    BY <1>3, <1>4, <1>6, <2>1, Bounds, ExtendPage, Zenon DEF p
  <2>3. fork = StoredTip => p = store
    BY <1>1, <1>2, <1>3, Prefix DEF StoredTip
  <2>4. fork # StoredTip => fork < StoredTip
    BY <1>2 DEF StoredTip
  <2> QED
    BY <2>1, <2>2, <2>3, <2>4, FileLoads DEF TooLight, IsBetterChain
<1> QED
  BY <1>5, <1>6, Zenon

(* The three ways syncHeaders ends: an error, the stored chain kept, a       *)
(* verified chain saved.                                                     *)
LEMMA ConcludeEnds ==
    ASSUME Types, NEW fork \in Int, NEW headers \in Seq(Seq(Header)),
           \/ stored = <<>> /\ ~Loads(store)
           \/ stored = store /\ Loads(store) /\ fork \in 0..StoredTip,
           Conclude(fork, headers)
    PROVE  \/ Fail
           \/ stored = store /\ store' = store /\ Loads(store) /\ Return(store', "refused")
           \/ /\ store' \in Seq(Header) /\ Loads(store') /\ Return(store', "synced")
              /\ Loads(store) => store' = store \/ ChainWork(store') > ChainWork(store)
<1> DEFINE prefix == HeaderAt(stored, fork)
           chain == IF headers = <<>> THEN prefix ELSE headers[Len(headers)]
           valid == IF stored = <<>> THEN VerifyHeaderChain(headers, Latest)
                    ELSE VerifyFrom(prefix, headers, Latest)
<1>1. \/ Fail
      \/ valid /\ stored # <<>> /\ Return(stored, "refused") /\ store' = store
      \/ valid /\ (stored # <<>> => ~TooLight(fork, chain)) /\ Return(chain, "synced") /\ store' = chain
  BY DEF Conclude
<1>2. Loads(store) => store # <<>>
  BY FileLoads, Zenon DEF Obeys, Types
<1>3. CASE stored = <<>> /\ ~Loads(store)
  BY <1>1, <1>3, FirstSync
<1>4. CASE stored = store /\ Loads(store) /\ fork \in 0..StoredTip
  <2>1. ASSUME valid
        PROVE  /\ chain \in Seq(Header) /\ Loads(chain)
               /\ ~TooLight(fork, chain) => chain = store \/ ChainWork(chain) > ChainWork(store)
    BY <1>2, <1>4, <2>1, FurtherSync, Zenon
  <2> HIDE DEF chain, valid
  <2> QED
    BY <1>1, <1>2, <1>4, <2>1, Zenon
<1> QED
  BY <1>3, <1>4, Zenon

-----------------------------------------------------------------------------
(* Every step keeps the invariant.                                           *)

(* A command that ends leaves nothing in memory.                             *)
LEMMA EndKeeps ==
    ASSUME WalletInv, now' = now, served' = served, moved' = moved, NEW r, EndWith(r),
           store' \in Seq(Header), r.status \in {"synced", "confirmed"} => Loads(store')
    PROVE  WalletInv'
<1>1. phase' = "idle" /\ stored' = <<>> /\ tail' = <<>> /\ probe' = NoProbe /\ proof' = NoProof /\ result' = r
  BY Zenon DEF EndWith
<1>2. Types'
  <2>1. NoProbe \in Probe /\ <<>> \in Seq(Header) /\ <<>> \in Seq(Seq(Header))
    BY DEF NoProbe, Probe
  <2> QED
    BY <1>1, <2>1, Zenon DEF WalletInv, Types
<1>3. Session'
  BY <1>1 DEF Session
<1>4. Answers'
  BY <1>1, Zenon DEF Answers
<1>5. Proves'
  BY <1>1, Zenon DEF Proves
<1>6. (result.status \in {"synced", "confirmed"} => Loads(store))'
  BY <1>1
<1> QED
  BY <1>2, <1>3, <1>4, <1>5, <1>6 DEF WalletInv

(* So does one that ends in an error.                                        *)
LEMMA FailKeeps ==
    ASSUME WalletInv, now' = now, served' = served, moved' = moved, Fail
    PROVE  WalletInv'
<1>1. EndWith([NoResult EXCEPT !.status = "failed"]) /\ store' = store
  BY DEF Fail
<1>2. [NoResult EXCEPT !.status = "failed"].status = "failed"
  BY Zenon DEF NoResult
<1>3. store \in Seq(Header)
  BY Zenon DEF WalletInv, Types
<1> QED
  BY <1>1, <1>2, <1>3, EndKeeps, Zenon

(* So does one that ends with a chain.                                       *)
LEMMA ConcludeKeeps ==
    ASSUME WalletInv, now' = now, served' = served, moved' = moved,
           NEW fork \in Int, NEW headers \in Seq(Seq(Header)),
           \/ stored = <<>> /\ ~Loads(store)
           \/ stored = store /\ Loads(store) /\ fork \in 0..StoredTip,
           Conclude(fork, headers)
    PROVE  WalletInv'
<1>1. Types /\ store \in Seq(Header)
  BY Zenon DEF WalletInv, Types
<1>2. \/ Fail
      \/ store' = store /\ Loads(store) /\ Return(store', "refused")
      \/ store' \in Seq(Header) /\ Loads(store') /\ Return(store', "synced")
  BY <1>1, ConcludeEnds, Zenon
<1>3. ASSUME NEW status, store' \in Seq(Header), Loads(store'), Return(store', status) PROVE WalletInv'
  BY <1>3, EndKeeps, Zenon DEF Return
<1> QED
  BY <1>1, <1>2, <1>3, FailKeeps

(* Once the node has moved nothing is known of its earlier answers.          *)
LEMMA NodeMovesKeeps == ASSUME WalletInv, NodeMoves PROVE WalletInv'
<1>1. /\ served' \in Served /\ moved' = TRUE /\ now' = now /\ store' = store /\ phase' = phase
      /\ stored' = stored /\ probe' = probe /\ tail' = tail /\ proof' = proof /\ result' = result
  BY DEF NodeMoves, client
<1>2. Types'
  BY <1>1, Zenon DEF WalletInv, Types
<1>3. Session'
  BY <1>1 DEF WalletInv, Session, StoredTip
<1>4. Answers'
  BY <1>1, Zenon DEF Answers
<1>5. Proves'
  BY <1>1, Zenon DEF WalletInv, Proves
<1> QED
  BY <1>1, <1>2, <1>3, <1>4, <1>5, Zenon DEF WalletInv

(* The clock moves.                                                          *)
LEMMA TickKeeps == ASSUME WalletInv, Tick PROVE WalletInv'
<1>1. /\ served' = served /\ moved' = moved /\ store' = store /\ phase' = phase
      /\ stored' = stored /\ probe' = probe /\ tail' = tail /\ proof' = proof /\ result' = result
  BY Zenon DEF Tick, client
<1>2. now' \in 0..MaxNow
  <2>1. now \in 0..MaxNow /\ MaxNow \in Nat
    BY WalletAssumption DEF WalletInv, Types
  <2> QED
    BY <2>1 DEF Tick
<1>3. Types'
  BY <1>1, <1>2, Zenon DEF WalletInv, Types
<1>4. Session'
  BY <1>1, Zenon DEF WalletInv, Session, StoredTip
<1>5. Answers'
  BY <1>1, Zenon DEF WalletInv, Answers, Agrees, NextFrom
<1>6. Proves'
  BY <1>1, Zenon DEF WalletInv, Proves
<1> QED
  BY <1>1, <1>3, <1>4, <1>5, <1>6, Zenon DEF WalletInv

(* A command starts.                                                         *)
LEMMA SyncKeeps == ASSUME WalletInv, Sync PROVE WalletInv'
<1>1. /\ phase = "idle" /\ phase' = "info" /\ moved' = FALSE /\ result' = NoResult
      /\ now' = now /\ served' = served /\ store' = store
      /\ stored' = stored /\ probe' = probe /\ tail' = tail /\ proof' = proof
  BY DEF Sync
<1>2. Types'
  BY <1>1, Zenon DEF WalletInv, Types
<1>3. Session'
  BY <1>1 DEF WalletInv, Session
<1>4. Answers'
  BY <1>1, Zenon DEF Answers
<1>5. Proves'
  BY <1>1 DEF WalletInv, Proves
<1>6. NoResult.status = "none"
  BY Zenon DEF NoResult
<1> QED
  BY <1>1, <1>2, <1>3, <1>4, <1>5, <1>6, Zenon DEF WalletInv

(* The path that the node gives is of a block of its chain, and leads to     *)
(* that block's root from the transaction it is of.                          *)
LEMMA ProofIs ==
    ASSUME served \in Served, NEW u, NEW v, Places(v) # {}, NEW p, p = TransactionProof(u, v)
    PROVE  /\ p.chain \in Seq(Header) /\ p.chain # <<>> /\ p.tx = <<u>>
           /\ VerifyMerkleProof(p.tx, p.siblings, MerkleRoot(HeaderOf(p.chain).txs)) =>
                u \in Range(HeaderOf(p.chain).txs)
           /\ u = v => VerifyMerkleProof(p.tx, p.siblings, MerkleRoot(HeaderOf(p.chain).txs))
           /\ Len(p.chain) <= Len(served) /\ p.chain = SubSeq(served, 1, Len(p.chain))
<1> DEFINE at == CHOOSE x \in Places(v) : TRUE
           h == at[1]
           i == at[2]
           txs == served[h + 1].txs
<1>1. at \in Places(v)
  BY Zenon
<1>2. /\ h \in 0..(Len(served) - 1) /\ i \in DOMAIN served[h + 1].txs
      /\ served[h + 1].txs[i] = v
  <2>1. PICK g \in 0..(Len(served) - 1) :
          \E j \in DOMAIN served[g + 1].txs : at = <<g, j>> /\ served[g + 1].txs[j] = v
    BY <1>1, Zenon DEF Places
  <2>2. PICK j \in DOMAIN served[g + 1].txs : at = <<g, j>> /\ served[g + 1].txs[j] = v
    BY <2>1
  <2> HIDE DEF at
  <2>3. h = g /\ i = j
    BY <2>2, Zenon
  <2> HIDE DEF h, i
  <2> QED
    BY <2>2, <2>3, Zenon
<1>3. p = [tx |-> <<u>>, chain |-> HeaderAt(served, h), siblings |-> MerkleProof(txs, i - 1)]
  BY Zenon DEF TransactionProof
<1> HIDE DEF at, h, i
<1>4. served \in Seq(Header) /\ Len(served) \in Nat /\ h \in Nat /\ h + 1 \in 0..Len(served) /\ h + 1 \in 1..Len(served)
  BY <1>2, ServedTypes
<1> DEFINE c == SubSeq(served, 1, h + 1)
<1>5. c \in Seq(Header) /\ Len(c) = h + 1 /\ c[h + 1] = served[h + 1]
  <2>1. h + 1 \in 1..(h + 1)
    BY <1>4
  <2> QED
    BY <1>4, <2>1, Prefix, Zenon
<1>6. p.chain = c /\ p.tx = <<u>> /\ p.siblings = MerkleProof(txs, i - 1)
  <2>1. HeaderAt(served, h) = c
    BY Zenon DEF HeaderAt
  <2> HIDE DEF c, txs
  <2> QED
    BY <1>3, <2>1
<1> HIDE DEF c
<1>7. HeaderOf(p.chain) = served[h + 1]
  BY <1>5, <1>6, Zenon DEF HeaderOf
<1>8. txs \in Seq(Range(txs))
  BY <1>4, HeaderTypes
<1> HIDE DEF txs
<1>9. i \in 1..Len(txs) /\ txs[i] = v
  BY <1>2, <1>8 DEF txs
<1>10. v \in Range(txs)
  BY <1>8, <1>9 DEF Range
<1>11. VerifyMerkleProof(<<u>>, MerkleProof(txs, i - 1), MerkleRoot(txs)) <=> u = v
  <2>1. Len(txs) \in Nat
    BY <1>8
  <2>2. i - 1 \in 0..(Len(txs) - 1) /\ (i - 1) + 1 = i
    BY <1>9, <2>1
  <2>3. VerifyMerkleProof(<<u>>, MerkleProof(txs, i - 1), MerkleRoot(txs)) <=> u = txs[(i - 1) + 1]
    BY <1>8, <2>2, MerkleExact, Zenon
  <2> QED
    BY <1>9, <2>2, <2>3
<1>12. c # <<>> /\ Len(c) <= Len(served)
  BY <1>4, <1>5
<1> QED
  BY <1>5, <1>6, <1>7, <1>10, <1>11, <1>12 DEF c, txs

(* A verify or find-anchor command starts with the node's answer.            *)
LEMMA AskProofKeeps ==
    ASSUME WalletInv, NEW t, NEW u \in Tx, NEW v, NEW compared, AskProof(t, u, v, compared)
    PROVE  WalletInv'
<1>1. phase = "idle" /\ moved' = FALSE /\ now' = now /\ served' = served
  BY Zenon DEF AskProof
<1>2. CASE Places(v) = {}
  <2>1. Fail
    BY <1>2 DEF AskProof
  <2>2. /\ phase' = "idle" /\ stored' = <<>> /\ tail' = <<>> /\ probe' = NoProbe
        /\ proof' = NoProof /\ result'.status = "failed" /\ store' = store
    BY <2>1, Zenon DEF Fail, EndWith, NoResult
  <2>3. NoProbe \in Probe /\ <<>> \in Seq(Header) /\ <<>> \in Seq(Seq(Header))
    BY DEF NoProbe, Probe
  <2>4. Types'
    BY <1>1, <2>2, <2>3, Zenon DEF WalletInv, Types
  <2>5. Session' /\ Answers' /\ Proves'
    BY <2>2, Zenon DEF Session, Answers, Proves
  <2> QED
    BY <2>2, <2>4, <2>5, Zenon DEF WalletInv
<1>3. CASE Places(v) # {}
  <2>1. /\ phase' = "info" /\ proof' = TransactionProof(u, v) /\ result' = NoResult
        /\ store' = store /\ stored' = stored /\ probe' = probe /\ tail' = tail
    BY <1>3 DEF AskProof
  <2>2. Types'
    BY <1>1, <2>1, Zenon DEF WalletInv, Types
  <2>3. Session'
    BY <1>1, <2>1 DEF WalletInv, Session
  <2>4. Answers'
    BY <2>1, Zenon DEF Answers
  <2>5. Proves'
    <3>1. served \in Served
      BY DEF WalletInv, Types
    <3>2. /\ proof'.chain \in Seq(Header) /\ proof'.chain # <<>> /\ proof'.tx = <<u>>
          /\ VerifyMerkleProof(proof'.tx, proof'.siblings, MerkleRoot(HeaderOf(proof'.chain).txs)) =>
                u \in Range(HeaderOf(proof'.chain).txs)
      BY <1>3, <2>1, <3>1, ProofIs, Zenon
    <3> QED
      BY <1>1, <2>1, <3>2 DEF Proves
  <2>6. NoResult.status = "none"
    BY DEF NoResult
  <2> QED
    BY <2>1, <2>2, <2>3, <2>4, <2>5, <2>6, Zenon DEF WalletInv
<1> QED
  BY <1>2, <1>3, Zenon

(* The requests of a sync leave the rest of the state alone.                 *)
Quiet == UNCHANGED <<now, served, moved, moves, commands>>

(* A chain that loaded has a tip.                                            *)
LEMMA LoadedTip ==
    ASSUME Types, stored = store, Loads(store)
    PROVE  Len(stored) \in Nat /\ StoredTip \in Nat /\ Len(stored) = StoredTip + 1 /\ stored # <<>>
<1>1. store \in Seq(Header) /\ store # <<>>
  BY FileLoads DEF Types, Obeys
<1> QED
  BY <1>1 DEF StoredTip

(* The file is loaded.                                                       *)
LEMMA InfoKeeps == ASSUME WalletInv, Info, Quiet PROVE WalletInv'
<1>1. now' = now /\ served' = served /\ moved' = moved
  BY Zenon DEF Quiet
<1>2. CASE served[1] # Genesis
  BY <1>1, <1>2, FailKeeps, Zenon DEF Info
<1>3. CASE served[1] = Genesis
  <2>1. /\ stored' = (IF Loads(store) THEN store ELSE <<>>)
        /\ phase' = (IF Loads(store) THEN "tail" ELSE "fetch")
        /\ store' = store /\ proof' = proof /\ result' = result /\ probe' = probe /\ tail' = tail
    BY <1>3, Zenon DEF Info, GoesOn
  <2>2. phase = "info" /\ probe = NoProbe /\ tail = <<>>
    BY Zenon DEF Info, WalletInv, Session
  <2>3. Types'
    BY <1>1, <2>1 DEF WalletInv, Types
  <2>4. Session'
    BY <2>1, <2>2 DEF Session
  <2>5. Answers'
    <3> SUFFICES ASSUME phase' = "fetch", ~moved' PROVE Answers'
      BY <2>1, Zenon DEF Answers
    <3>1. stored' = <<>> /\ tail' = <<>> /\ probe'.match = -1
      BY <2>1, <2>2, Zenon DEF NoProbe
    <3>2. Len(served') \in Nat /\ Len(<<>>) = 0
      BY <1>1, ServedTypes DEF WalletInv, Types
    <3>3. (NextFrom <= Len(served))'
      BY <3>1, <3>2 DEF NextFrom
    <3>4. (tail = [j \in 1..Len(tail) |-> HeaderAt(served, probe.match + j)])'
      BY <3>1, <3>2
    <3> QED
      BY <3>1, <3>3, <3>4, Zenon DEF Answers
  <2>6. Proves'
    BY <1>1, <2>1, <2>2, Zenon DEF WalletInv, Proves
  <2> QED
    BY <2>1, <2>3, <2>4, <2>5, <2>6 DEF WalletInv
<1> QED
  BY <1>2, <1>3

(* A step to another request, with the chain that was loaded.                *)
LEMMA GoesOnKeeps ==
    ASSUME WalletInv, Quiet, stored = store, Loads(store), phase # "idle",
           NEW p \in {"tip", "back", "search"}, GoesOn(p), stored' = stored, tail = <<>>, tail' = tail,
           probe' \in Probe, Session', Answers'
    PROVE  WalletInv'
<1>1. /\ now' = now /\ served' = served /\ moved' = moved /\ store' = store /\ proof' = proof
      /\ result' = result /\ phase' = p
  BY DEF Quiet, GoesOn
<1>2. Types'
  BY <1>1, Zenon DEF WalletInv, Types
<1>3. Proves'
  BY <1>1 DEF WalletInv, Proves
<1> QED
  BY <1>1, <1>2, <1>3, Zenon DEF WalletInv

(* The back-off starts at the stored tip, which does not agree.              *)
LEMMA StartsBack ==
    ASSUME WalletInv, Quiet, stored = store, Loads(store), phase # "idle", tail = <<>>,
           GoesOn("back"), probe' = [NoProbe EXCEPT !.mismatch = StoredTip, !.step = 1],
           UNCHANGED <<stored, tail>>
    PROVE  WalletInv'
<1>1. StoredTip \in Nat
  BY LoadedTip DEF WalletInv
<1>2. /\ phase' = "back" /\ store' = store /\ stored' = stored /\ tail' = tail
      /\ probe'.mismatch = StoredTip /\ probe'.step = 1 /\ probe' \in Probe
  <2>1. probe' = [mismatch |-> StoredTip, step |-> 1, match |-> -1]
    BY Zenon DEF NoProbe
  <2>2. probe'.mismatch = StoredTip /\ probe'.step = 1
    BY <2>1
  <2>3. probe' \in Probe
    BY <1>1, <2>1 DEF Probe
  <2> QED
    BY <2>2, <2>3 DEF GoesOn
<1>3. Session'
  BY <1>1, <1>2 DEF Session, StoredTip
<1>4. Answers'
  BY <1>2 DEF Answers
<1> QED
  BY <1>2, <1>3, <1>4, GoesOnKeeps

(* An empty page says that the node is not longer than the stored chain.     *)
LEMMA AskTailKeeps == ASSUME WalletInv, AskTail, Quiet PROVE WalletInv'
<1>1. /\ phase = "tail" /\ stored = store /\ Loads(store) /\ tail = <<>> /\ probe = NoProbe
      /\ Types /\ served \in Served
  BY DEF AskTail, WalletInv, Session, Types
<1>2. Len(stored) \in Nat /\ StoredTip \in Nat /\ Len(stored) = StoredTip + 1
  BY <1>1, LoadedTip, Zenon
<1>3. PageSize \in Nat /\ PageSize > 0
  BY WalletAssumption
<1> DEFINE page == GetHeaders(Len(stored), PageSize)
<1>4. /\ page \in Seq(Seq(Header)) /\ Len(page) \in 0..PageSize
      /\ Len(page) < PageSize => Len(stored) + Len(page) >= Len(served)
  BY <1>1, <1>2, <1>3, PageIs, Zenon
<1>5. \/ page = <<>> /\ GoesOn("tip") /\ UNCHANGED <<stored, probe, tail>>
      \/ Conclude(StoredTip, page)
      \/ /\ GoesOn("back") /\ probe' = [NoProbe EXCEPT !.mismatch = StoredTip, !.step = 1]
         /\ UNCHANGED <<stored, tail>>
  BY Zenon DEF AskTail
<1> HIDE DEF page
<1>6. CASE page = <<>> /\ GoesOn("tip") /\ UNCHANGED <<stored, probe, tail>>
  <2>1. Len(served) \in Nat /\ Len(served) <= Len(stored)
    <3>1. Len(page) = 0 /\ Len(served) \in Nat
      BY <1>1, <1>6, ServedTypes, Zenon
    <3> QED
      BY <1>2, <1>3, <1>4, <3>1
  <2>2. /\ phase' = "tip" /\ store' = store /\ stored' = stored /\ tail' = tail /\ probe' = probe
        /\ served' = served
    BY <1>6, Zenon DEF GoesOn, Quiet
  <2>3. Session'
    BY <1>1, <2>2, Zenon DEF Session
  <2>4. Answers'
    BY <2>1, <2>2, Zenon DEF Answers
  <2>5. probe' \in Probe
    BY <1>1, <2>2, Zenon DEF Types
  <2> QED
    BY <1>1, <1>6, <2>2, <2>3, <2>4, <2>5, GoesOnKeeps
<1>7. CASE Conclude(StoredTip, page)
  <2>1. StoredTip \in Int /\ StoredTip \in 0..StoredTip
    BY <1>2
  <2> QED
    BY <1>1, <1>4, <1>7, <2>1, ConcludeKeeps DEF Quiet
<1>8. CASE /\ GoesOn("back") /\ probe' = [NoProbe EXCEPT !.mismatch = StoredTip, !.step = 1]
           /\ UNCHANGED <<stored, tail>>
  BY <1>1, <1>8, StartsBack, Zenon
<1> QED
  BY <1>5, <1>6, <1>7, <1>8

(* The stored tip agrees, or the back-off starts.                            *)
LEMMA AskTipKeeps == ASSUME WalletInv, AskTip, Quiet PROVE WalletInv'
<1>1. /\ phase = "tip" /\ stored = store /\ Loads(store) /\ tail = <<>> /\ Types
  BY DEF AskTip, WalletInv, Session
<1>2. StoredTip \in Int /\ StoredTip \in 0..StoredTip /\ <<>> \in Seq(Seq(Header))
  BY <1>1, LoadedTip
<1>3. CASE AgreesAt(StoredTip)
  BY <1>1, <1>2, <1>3, ConcludeKeeps, Zenon DEF AskTip, Quiet
<1>4. CASE ~AgreesAt(StoredTip)
  BY <1>1, <1>4, StartsBack DEF AskTip
<1> QED
  BY <1>3, <1>4

(* A height that agrees starts the search below the last that did not.       *)
LEMMA BackOffKeeps == ASSUME WalletInv, BackOff, Quiet PROVE WalletInv'
<1>1. /\ phase = "back" /\ stored = store /\ Loads(store) /\ tail = <<>> /\ Types
      /\ probe.mismatch \in 0..StoredTip /\ probe.step >= 1 /\ served \in Served
      /\ probe \in Probe /\ stored \in Seq(Header)
  BY DEF BackOff, WalletInv, Session, Types
<1>2. StoredTip \in Nat
  BY <1>1, LoadedTip
<1> DEFINE h == probe.mismatch - probe.step
<1>3. h >= 0 /\ stored' = stored /\ tail' = tail
  BY DEF BackOff
<1>4. h \in 0..StoredTip /\ h <= probe.mismatch /\ h \in Int
  BY <1>1, <1>2, <1>3 DEF Probe
<1>5. CASE AgreesAt(h)
  <2>1. GoesOn("search") /\ probe' = [probe EXCEPT !.match = h]
    BY <1>5 DEF BackOff
  <2> HIDE DEF h
  <2>2. probe' \in Probe /\ probe'.match = h /\ probe'.mismatch = probe.mismatch
    BY <1>1, <1>4, <2>1 DEF Probe
  <2>3. phase' = "search" /\ store' = store /\ served' = served
    BY <2>1, Zenon DEF GoesOn, Quiet
  <2>4. Session'
    BY <1>1, <1>2, <1>3, <1>4, <2>2, <2>3 DEF Session, StoredTip
  <2>5. Agrees(h)
    BY <1>1, <1>4, <1>5, AgreesIs, Zenon
  <2>6. Answers'
    BY <1>3, <2>2, <2>3, <2>5 DEF Answers, Agrees
  <2> QED
    BY <1>1, <1>3, <2>1, <2>2, <2>4, <2>6, GoesOnKeeps
<1>6. CASE ~AgreesAt(h)
  <2>1. GoesOn("back") /\ probe' = [probe EXCEPT !.mismatch = h, !.step = 2 * @]
    BY <1>6, Zenon DEF BackOff
  <2> HIDE DEF h
  <2>2. probe' \in Probe /\ probe'.mismatch = h /\ probe'.step >= 1
    <3>1. probe.step \in Int /\ probe.match \in Int
      BY <1>1, Zenon DEF Probe
    <3>2. 2 * probe.step \in Int /\ 2 * probe.step >= 1
      BY <1>1, <3>1
    <3>3. probe' = [mismatch |-> h, step |-> 2 * probe.step, match |-> probe.match]
      BY <1>1, <2>1, Zenon DEF Probe
    <3> QED
      BY <1>4, <3>1, <3>2, <3>3, Zenon DEF Probe
  <2>3. phase' = "back" /\ store' = store
    BY <2>1, Zenon DEF GoesOn
  <2>4. Session'
    BY <1>1, <1>3, <1>4, <2>2, <2>3, Zenon DEF Session, StoredTip
  <2>5. Answers'
    BY <2>3 DEF Answers
  <2> QED
    BY <1>1, <1>3, <2>1, <2>2, <2>4, <2>5, GoesOnKeeps
<1> QED
  BY <1>5, <1>6

(* The genesis agrees, or the command fails.                                 *)
LEMMA AskGenesisKeeps == ASSUME WalletInv, AskGenesis, Quiet PROVE WalletInv'
<1>1. /\ phase = "back" /\ stored = store /\ Loads(store) /\ tail = <<>> /\ Types
      /\ probe.mismatch \in 0..StoredTip /\ served \in Served
      /\ probe \in Probe /\ stored \in Seq(Header)
  BY Zenon DEF AskGenesis, WalletInv, Session, Types
<1>2. StoredTip \in Nat /\ 0 \in 0..StoredTip
  BY <1>1, LoadedTip
<1>3. CASE ~AgreesAt(0)
  <2>1. Fail
    BY <1>3 DEF AskGenesis
  <2> QED
    BY <2>1, FailKeeps DEF Quiet
<1>4. CASE AgreesAt(0)
  <2>1. GoesOn("search") /\ probe' = [probe EXCEPT !.match = 0] /\ stored' = stored /\ tail' = tail
    BY <1>4 DEF AskGenesis
  <2>2. probe' \in Probe /\ probe'.match = 0 /\ probe'.mismatch = probe.mismatch
    BY <1>1, <2>1 DEF Probe
  <2>3. phase' = "search" /\ store' = store /\ served' = served
    BY <2>1 DEF GoesOn, Quiet
  <2>4. Session'
    BY <1>1, <1>2, <2>1, <2>2, <2>3 DEF Session, StoredTip
  <2>5. Agrees(0)
    BY <1>1, <1>2, <1>4, AgreesIs
  <2>6. Answers'
    BY <2>1, <2>2, <2>3, <2>5 DEF Answers, Agrees
  <2> QED
    BY <1>1, <2>1, <2>2, <2>4, <2>6, GoesOnKeeps
<1> QED
  BY <1>3, <1>4

(* The search keeps a height that agrees.                                    *)
LEMMA SearchOnKeeps == ASSUME WalletInv, SearchOn, Quiet PROVE WalletInv'
<1>1. /\ phase = "search" /\ stored = store /\ Loads(store) /\ tail = <<>> /\ Types
      /\ served \in Served /\ probe \in Probe /\ stored \in Seq(Header)
      /\ 0 <= probe.match /\ probe.match <= probe.mismatch /\ probe.mismatch <= StoredTip
      /\ moved \in BOOLEAN /\ (~moved => Agrees(probe.match))
  BY Zenon DEF SearchOn, WalletInv, Session, Types, Answers
<1>2. StoredTip \in Nat
  BY <1>1, LoadedTip
<1>3. /\ probe.mismatch - probe.match > 1 /\ GoesOn("search") /\ stored' = stored /\ tail' = tail
      /\ probe' = (IF AgreesAt(Middle) THEN [probe EXCEPT !.match = Middle]
                   ELSE [probe EXCEPT !.mismatch = Middle])
  BY DEF SearchOn
<1>4. /\ Middle \in Int /\ probe.match <= Middle /\ Middle <= probe.mismatch
      /\ Middle \in 0..StoredTip
  BY <1>1, <1>2, <1>3 DEF Middle, Probe
<1>5. phase' = "search" /\ store' = store /\ served' = served /\ moved' = moved
  BY <1>3, Zenon DEF GoesOn, Quiet
<1>6. AgreesAt(Middle) => Agrees(Middle)
  BY <1>1, <1>4, AgreesIs
<1>7. /\ probe' \in Probe
      /\ \/ probe'.match = Middle /\ probe'.mismatch = probe.mismatch /\ Agrees(Middle)
         \/ probe'.match = probe.match /\ probe'.mismatch = Middle
  BY <1>1, <1>3, <1>4, <1>6 DEF Probe
<1>8. Session'
  <2>1. 0 <= probe'.match /\ probe'.match <= probe'.mismatch /\ probe'.mismatch <= StoredTip
    BY <1>1, <1>2, <1>4, <1>7
  <2> QED
    BY <1>1, <1>3, <1>5, <2>1, Zenon DEF Session, StoredTip
<1>9. Answers'
  BY <1>1, <1>3, <1>5, <1>7 DEF Answers, Agrees
<1> QED
  BY <1>1, <1>3, <1>7, <1>8, <1>9, GoesOnKeeps

(* The next page, and what has been fetched with it.                         *)
LEMMA NextPage ==
    ASSUME WalletInv, Fetch, NEW page, page = GetHeaders(NextFrom, PageSize)
    PROVE  /\ \/ stored = <<>> /\ ~Loads(store) /\ probe = NoProbe
              \/ stored = store /\ Loads(store) /\ probe.match \in 0..StoredTip
           /\ probe.match \in Int /\ probe.match >= -1 /\ Len(tail) \in Nat /\ Len(page) \in Nat
           /\ NextFrom = (probe.match + Len(tail)) + 1
           /\ \A i \in 1..Len(page) : page[i] = SubSeq(served, 1, NextFrom + i)
           /\ Len(page) = 0 \/ NextFrom + Len(page) <= Len(served)
           /\ Len(page) < PageSize => NextFrom + Len(page) >= Len(served)
           /\ tail \o page \in Seq(Seq(Header)) /\ page \in Seq(Seq(Header))
<1>1. Types /\ served \in Served /\ stored \in Seq(Header) /\ tail \in Seq(Seq(Header)) /\ probe \in Probe
  BY Zenon DEF WalletInv, Types
<1>2. \/ stored = <<>> /\ ~Loads(store) /\ probe = NoProbe
      \/ stored = store /\ Loads(store) /\ probe.match \in 0..StoredTip
  <2>1. phase = "fetch" \/ (phase = "search" /\ probe.mismatch - probe.match <= 1)
    BY Zenon DEF Fetch
  <2>2. CASE phase = "fetch"
    BY <2>2, Zenon DEF WalletInv, Session
  <2>3. CASE phase = "search"
    <3>1. /\ stored = store /\ Loads(store) /\ 0 <= probe.match /\ probe.match <= probe.mismatch
          /\ probe.mismatch <= StoredTip
      BY <2>3 DEF WalletInv, Session
    <3>2. StoredTip \in Nat
      BY <1>1, <3>1, LoadedTip, Zenon
    <3> QED
      BY <1>1, <3>1, <3>2 DEF Probe
  <2> QED
    BY <2>1, <2>2, <2>3
<1>3. probe.match \in Int /\ probe.match >= -1 /\ Len(tail) \in Nat
  BY <1>1, <1>2 DEF NoProbe, Probe
<1>4. NextFrom \in Nat /\ NextFrom = (probe.match + Len(tail)) + 1
  BY <1>3 DEF NextFrom
<1>5. PageSize \in Nat
  BY WalletAssumption
<1>6. \A f \in Nat : \A p : p = GetHeaders(f, PageSize) =>
        /\ p \in Seq(Seq(Header)) /\ Len(p) \in 0..PageSize
        /\ \A i \in 1..Len(p) : p[i] = SubSeq(served, 1, f + i)
        /\ Len(p) = 0 \/ f + Len(p) <= Len(served)
        /\ Len(p) < PageSize => f + Len(p) >= Len(served)
  BY <1>1, <1>5, PageIs, Zenon
<1>7. /\ page \in Seq(Seq(Header)) /\ Len(page) \in 0..PageSize
      /\ \A i \in 1..Len(page) : page[i] = SubSeq(served, 1, NextFrom + i)
      /\ Len(page) = 0 \/ NextFrom + Len(page) <= Len(served)
      /\ Len(page) < PageSize => NextFrom + Len(page) >= Len(served)
  BY <1>4, <1>6, Zenon
<1>8. Len(page) \in Nat
  BY <1>7
<1>9. tail \o page \in Seq(Seq(Header))
  BY <1>1, <1>7
<1> QED
  BY <1>2, <1>3, <1>4, <1>7, <1>8, <1>9, Zenon

(* The pages of a node that has not moved follow each other on its chain.    *)
LEMMA PagesAnswer ==
    ASSUME WalletInv, Fetch, NEW page, page = GetHeaders(NextFrom, PageSize), ~moved
    PROVE  /\ stored # <<>> => Agrees(probe.match)
           /\ NextFrom + Len(page) <= Len(served)
           /\ Len(tail \o page) = Len(tail) + Len(page)
           /\ \A i \in 1..Len(tail \o page) :
                (tail \o page)[i] = SubSeq(served, 1, (probe.match + 1) + i)
<1>1. served \in Served /\ tail \in Seq(Seq(Header)) /\ Len(served) \in Nat
  BY ServedTypes, Zenon DEF WalletInv, Types
<1>2. /\ probe.match \in Int /\ Len(tail) \in Nat /\ Len(page) \in Nat
      /\ NextFrom = (probe.match + Len(tail)) + 1
      /\ \A i \in 1..Len(page) : page[i] = SubSeq(served, 1, NextFrom + i)
      /\ Len(page) = 0 \/ NextFrom + Len(page) <= Len(served)
      /\ page \in Seq(Seq(Header))
  BY NextPage, Zenon
<1>3. /\ stored # <<>> => Agrees(probe.match)
      /\ NextFrom <= Len(served)
      /\ tail = [i \in 1..Len(tail) |-> HeaderAt(served, probe.match + i)]
  <2>1. CASE phase = "fetch"
    BY <2>1, Zenon DEF WalletInv, Answers
  <2>2. CASE phase = "search"
    <3>1. tail = <<>> /\ Agrees(probe.match)
      BY <2>2 DEF WalletInv, Answers, Session
    <3>2. Len(tail) = 0
      BY <3>1, Zenon
    <3>3. NextFrom = probe.match + 1
      BY <1>2, <3>2
    <3> QED
      BY <1>1, <1>2, <3>1, <3>2, <3>3 DEF Agrees
  <2> QED
    BY <2>1, <2>2, Zenon DEF Fetch
<1>4. Len(tail \o page) = Len(tail) + Len(page)
  BY <1>1, <1>2
<1>5. NextFrom + Len(page) <= Len(served)
  BY <1>1, <1>2, <1>3
<1>6. ASSUME NEW i \in 1..Len(tail \o page)
      PROVE  (tail \o page)[i] = SubSeq(served, 1, (probe.match + 1) + i)
  <2>1. CASE i <= Len(tail)
    <3>1. i \in 1..Len(tail) /\ (tail \o page)[i] = tail[i]
      BY <1>1, <1>2, <1>4, <2>1
    <3>2. (probe.match + i) + 1 = (probe.match + 1) + i
      BY <1>2
    <3>3. tail[i] = SubSeq(served, 1, (probe.match + i) + 1)
      BY <1>3, <3>1 DEF HeaderAt
    <3> QED
      BY <3>1, <3>2, <3>3, Zenon
  <2>2. CASE i > Len(tail)
    <3>1. i - Len(tail) \in 1..Len(page) /\ (tail \o page)[i] = page[i - Len(tail)]
      BY <1>1, <1>2, <1>4, <2>2
    <3>2. NextFrom + (i - Len(tail)) = (probe.match + 1) + i
      BY <1>2
    <3> QED
      BY <1>2, <3>1, <3>2, Zenon
  <2> QED
    BY <1>2, <2>1, <2>2
<1> QED
  BY <1>3, <1>4, <1>5, <1>6

(* A full page is added, a short one ends the command.                       *)
LEMMA FetchKeeps == ASSUME WalletInv, Fetch, Quiet PROVE WalletInv'
<1> DEFINE page == GetHeaders(NextFrom, PageSize)
<1>1. /\ \/ stored = <<>> /\ ~Loads(store) /\ probe = NoProbe
         \/ stored = store /\ Loads(store) /\ probe.match \in 0..StoredTip
      /\ probe.match \in Int /\ Len(tail) \in Nat /\ Len(page) \in Nat
      /\ NextFrom = (probe.match + Len(tail)) + 1
      /\ tail \o page \in Seq(Seq(Header))
  BY NextPage, Zenon
<1>2. ~moved => /\ stored # <<>> => Agrees(probe.match)
                /\ NextFrom + Len(page) <= Len(served)
                /\ Len(tail \o page) = Len(tail) + Len(page)
                /\ \A i \in 1..Len(tail \o page) :
                     (tail \o page)[i] = SubSeq(served, 1, (probe.match + 1) + i)
  BY PagesAnswer, Zenon
<1>3. \/ Conclude(probe.match, tail \o page)
      \/ GoesOn("fetch") /\ tail' = tail \o page /\ UNCHANGED <<stored, probe>>
  BY DEF Fetch
<1> HIDE DEF page
<1>4. CASE Conclude(probe.match, tail \o page)
  BY <1>1, <1>4, ConcludeKeeps, Zenon DEF Quiet
<1>5. CASE GoesOn("fetch") /\ tail' = tail \o page /\ UNCHANGED <<stored, probe>>
  <2>1. /\ phase' = "fetch" /\ store' = store /\ stored' = stored /\ probe' = probe
        /\ proof' = proof /\ result' = result /\ now' = now /\ served' = served /\ moved' = moved
    BY <1>5, Zenon DEF GoesOn, Quiet
  <2>2. Types'
    BY <1>1, <1>5, <2>1, Zenon DEF WalletInv, Types
  <2>3. Session'
    BY <1>1, <2>1, Zenon DEF Session, StoredTip
  <2>4. phase # "idle"
    BY Zenon DEF Fetch
  <2>5. Proves'
    BY <2>1, <2>4, Zenon DEF WalletInv, Proves
  <2>6. Answers'
    <3> SUFFICES ASSUME ~moved PROVE Answers'
      BY <2>1 DEF Answers
    <3>1. Len(tail') = Len(tail) + Len(page)
      BY <1>2, <1>5, Zenon
    <3>2. NextFrom' = NextFrom + Len(page)
      BY <1>1, <2>1, <3>1 DEF NextFrom
    <3>3. tail' = [i \in 1..Len(tail') |-> HeaderAt(served, probe.match + i)]
      <4>1. ASSUME NEW i \in 1..Len(tail') PROVE tail'[i] = HeaderAt(served, probe.match + i)
        <5>1. (probe.match + 1) + i = (probe.match + i) + 1
          BY <1>1
        <5>2. tail'[i] = SubSeq(served, 1, (probe.match + 1) + i)
          BY <1>2, <1>5, Zenon
        <5> QED
          BY <5>1, <5>2, Zenon DEF HeaderAt
      <4>2. tail' \in Seq(Seq(Header))
        BY <1>1, <1>5, Zenon
      <4>3. tail' = [i \in 1..Len(tail') |-> tail'[i]]
        BY <4>2
      <4> QED
        BY <4>1, <4>3, Zenon
    <3> QED
      BY <1>2, <2>1, <3>2, <3>3, Zenon DEF Answers, Agrees
  <2> QED
    BY <2>1, <2>2, <2>3, <2>5, <2>6 DEF WalletInv
<1> QED
  BY <1>3, <1>4, <1>5, Zenon

(* A killed command leaves the file as it was.                               *)
LEMMA KillKeeps == ASSUME WalletInv, Kill PROVE WalletInv'
<1>1. now' = now /\ served' = served /\ moved' = moved /\ store' = store /\ EndWith(NoResult)
  BY Zenon DEF Kill
<1>2. NoResult.status = "none" /\ store \in Seq(Header)
  BY DEF NoResult, WalletInv, Types
<1> QED
  BY <1>1, <1>2, EndKeeps

(* The inductive invariant of a command: what it has loaded, where it        *)
(* looks for the fork, and that it agrees with a node that has not moved     *)
(* (syncHeaders).                                                            *)
THEOREM WalletInvariant == Spec => []WalletInv
<1>1. Init => WalletInv
  <2> SUFFICES ASSUME Init PROVE WalletInv
    OBVIOUS
  <2>1. /\ phase = "idle" /\ stored = <<>> /\ tail = <<>> /\ probe = NoProbe /\ proof = NoProof
        /\ result = NoResult /\ moved = FALSE /\ now = 0 /\ served \in Served
        /\ store \in {<<>>} \cup Served
    BY Zenon DEF Init
  <2>2. NoProbe \in Probe /\ <<>> \in Seq(Header) /\ <<>> \in Seq(Seq(Header)) /\ 0 \in 0..MaxNow
    BY WalletAssumption DEF NoProbe, Probe
  <2>3. store \in Seq(Header)
    BY <2>1, <2>2, ServedTypes, Zenon
  <2>4. NoResult.status = "none"
    BY DEF NoResult
  <2>5. Types
    BY <2>1, <2>2, <2>3, Zenon DEF Types
  <2>6. Session /\ Answers /\ Proves
    BY <2>1, Zenon DEF Session, Answers, Proves
  <2> QED
    BY <2>1, <2>4, <2>5, <2>6, Zenon DEF WalletInv
<1>2. WalletInv /\ [Next]_vars => WalletInv'
  <2> SUFFICES ASSUME WalletInv, [Next]_vars PROVE WalletInv'
    OBVIOUS
  <2>1. CASE NodeMoves
    BY <2>1, NodeMovesKeeps, Zenon
  <2>2. CASE Tick
    BY <2>2, TickKeeps, Zenon
  <2>3. CASE Sync
    BY <2>3, SyncKeeps
  <2>4. CASE Kill
    BY <2>4, KillKeeps
  <2>5. CASE \E t \in Tx, u \in Tx, v \in Tx : Verify(t, u, v) \/ FindAnchor(t, u, v)
    BY <2>5, AskProofKeeps, Zenon DEF Verify, FindAnchor
  <2>6. CASE Step
    <3>1. Quiet /\ Request
      BY <2>6, Zenon DEF Step, Quiet
    <3> QED
      BY <3>1, InfoKeeps, AskTailKeeps, AskTipKeeps, BackOffKeeps, AskGenesisKeeps,
         SearchOnKeeps, FetchKeeps DEF Request
  <2>7. CASE UNCHANGED vars
    <3>1. /\ served' = served /\ moved' = moved /\ store' = store /\ phase' = phase /\ now' = now
          /\ stored' = stored /\ probe' = probe /\ tail' = tail /\ proof' = proof /\ result' = result
      BY <2>7, Zenon DEF vars, client
    <3>2. Types' /\ Session'
      BY <3>1 DEF WalletInv, Types, Session, StoredTip
    <3>3. Answers' /\ Proves'
      BY <3>1, Zenon DEF WalletInv, Answers, Agrees, NextFrom, Proves
    <3> QED
      BY <3>1, <3>2, <3>3, Zenon DEF WalletInv
  <2> QED
    BY <2>1, <2>2, <2>3, <2>4, <2>5, <2>6, <2>7, Zenon DEF Next
<1> QED
  BY <1>1, <1>2, PTL DEF Spec

-----------------------------------------------------------------------------
(* The header file.                                                          *)

(* What a request does to the file.                                          *)
LEMMA RequestEnds ==
    ASSUME WalletInv, Request
    PROVE  \/ phase' # "idle" /\ store' = store /\ result' = result
           \/ Fail
           \/ stored = store /\ store' = store /\ Loads(store) /\ Return(store', "refused")
           \/ /\ store' \in Seq(Header) /\ Loads(store') /\ Return(store', "synced")
              /\ Loads(store) => store' = store \/ ChainWork(store') > ChainWork(store)
<1>1. Types /\ served \in Served
  BY DEF WalletInv, Types
<1>2. ASSUME NEW p, GoesOn(p), p # "idle" PROVE phase' # "idle" /\ store' = store /\ result' = result
  BY <1>2, Zenon DEF GoesOn
<1>3. CASE Info
  BY <1>2, <1>3, Zenon DEF Info
<1>4. CASE AskTail
  <2>1. stored = store /\ Loads(store)
    BY <1>4, Zenon DEF AskTail, WalletInv, Session
  <2>2. Len(stored) \in Nat /\ StoredTip \in Int /\ StoredTip \in 0..StoredTip
    BY <1>1, <2>1, LoadedTip
  <2> DEFINE page == GetHeaders(Len(stored), PageSize)
  <2>3. page \in Seq(Seq(Header))
    BY <1>1, <2>2, PageIs, WalletAssumption, Zenon
  <2>4. GoesOn("tip") \/ GoesOn("back") \/ Conclude(StoredTip, page)
    BY <1>4 DEF AskTail
  <2> HIDE DEF page
  <2> QED
    BY <1>1, <1>2, <2>1, <2>2, <2>3, <2>4, ConcludeEnds
<1>5. CASE AskTip
  <2>1. stored = store /\ Loads(store)
    BY <1>5, Zenon DEF AskTip, WalletInv, Session
  <2>2. StoredTip \in Int /\ StoredTip \in 0..StoredTip /\ <<>> \in Seq(Seq(Header))
    BY <1>1, <2>1, LoadedTip
  <2>3. GoesOn("back") \/ Conclude(StoredTip, <<>>)
    BY <1>5 DEF AskTip
  <2> QED
    BY <1>1, <1>2, <2>1, <2>2, <2>3, ConcludeEnds, Zenon
<1>6. CASE BackOff
  BY <1>2, <1>6 DEF BackOff
<1>7. CASE AskGenesis
  BY <1>2, <1>7 DEF AskGenesis
<1>8. CASE SearchOn
  BY <1>2, <1>8 DEF SearchOn
<1>9. CASE Fetch
  <2> DEFINE page == GetHeaders(NextFrom, PageSize)
  <2>1. /\ \/ stored = <<>> /\ ~Loads(store)
           \/ stored = store /\ Loads(store) /\ probe.match \in 0..StoredTip
        /\ probe.match \in Int /\ tail \o page \in Seq(Seq(Header))
    BY <1>9, NextPage, Zenon
  <2>2. GoesOn("fetch") \/ Conclude(probe.match, tail \o page)
    BY <1>9 DEF Fetch
  <2> HIDE DEF page
  <2> QED
    BY <1>1, <1>2, <2>1, <2>2, ConcludeEnds, Zenon
<1> QED
  BY <1>3, <1>4, <1>5, <1>6, <1>7, <1>8, <1>9, Zenon DEF Request

(* The header file of a command that succeeded obeys the node's rules,       *)
(* whatever mixture of chains the pages came from; on time, its target never *)
(* changed (verifyFrom, loadVerifiedHeaders, retargetWindow).                *)
THEOREM FileObeysRules == Spec => []StoreSound
<1>1. WalletInv => StoreSound
  <2> SUFFICES ASSUME WalletInv, result.status \in {"synced", "confirmed"}
               PROVE  /\ store[1] = Genesis /\ Loads(store)
                      /\ \A h \in 1..(Len(store) - 1) :
                           store[h + 1].target = ExpectedTargetFor(HeaderAt(store, h - 1))
                      /\ OnTime(store) => \A i \in DOMAIN store : store[i].target = Genesis.target
    BY Zenon DEF StoreSound
  <2>1. Loads(store) /\ store \in Seq(Header)
    BY Zenon DEF WalletInv, Types
  <2>2. Obeys(store, Bound)
    BY <2>1, FileLoads, Zenon
  <2>3. ASSUME NEW h \in 1..(Len(store) - 1)
        PROVE  store[h + 1].target = ExpectedTargetFor(HeaderAt(store, h - 1))
    <3> DEFINE d == SubSeq(store, 1, h + 1)
    <3>1. /\ h \in Nat /\ h + 1 \in 0..Len(store) /\ h + 1 \in 2..Len(store) /\ h \in 0..(h + 1)
          /\ h + 1 \in 1..(h + 1) /\ (h - 1) + 1 = h /\ (h + 1) - 1 = h
      <4>1. h \in Nat /\ h + 1 \in 0..Len(store) /\ h + 1 \in 2..Len(store)
        BY <2>1
      <4>2. h \in 0..(h + 1) /\ h + 1 \in 1..(h + 1)
        BY <4>1
      <4>3. (h - 1) + 1 = h /\ (h + 1) - 1 = h
        BY <4>1, StepBack, Zenon
      <4> QED
        BY <4>1, <4>2, <4>3, Zenon
    <3>2. d \in Seq(Header) /\ Len(d) = h + 1 /\ d[h + 1] = store[h + 1]
      BY <2>1, <3>1, Prefix
    <3>3. SubSeq(d, 1, h) = SubSeq(store, 1, h)
      BY <2>1, <3>1, PrefixOfPrefix
    <3>4. HeaderValid(d, Bound)
      BY <2>2, <3>1, Zenon DEF Obeys
    <3> HIDE DEF d
    <3>5. PreviousHash(d) = HeaderAt(store, h - 1)
      BY <3>1, <3>2, <3>3, Zenon DEF PreviousHash, HeaderAt
    <3>6. store[h + 1].target = ExpectedTarget(d)
      BY <3>2, <3>4, Zenon DEF HeaderValid, ValidateHeader, HeaderOf
    <3>7. ExpectedTarget(d) = ExpectedTargetFor(PreviousHash(d))
      BY <3>1, <3>2, SameRule
    <3> QED
      BY <3>5, <3>6, <3>7, Zenon
  <2>4. OnTime(store) => \A i \in DOMAIN store : store[i].target = Genesis.target
    <3>1. DOMAIN store = 1..Len(store)
      BY <2>1
    <3> QED
      BY <2>1, <2>2, <3>1, ObeysTargets, Zenon
  <2>5. store[1] = Genesis
    BY <2>2 DEF Obeys
  <2> QED
    BY <2>1, <2>3, <2>4, <2>5, Zenon
<1> QED
  BY <1>1, WalletInvariant, PTL

(* A verified header file is exchanged only for a chain with more work, at   *)
(* any interleaving of the node's moves with the requests (syncHeaders).     *)
THEOREM WorkIsKept == Spec => WorkNeverLost
<1>1. WalletInv /\ [Next]_vars =>
        [store' # store /\ Loads(store) => ChainWork(store') > ChainWork(store)]_vars
  <2> SUFFICES ASSUME WalletInv, Next, store' # store, Loads(store)
               PROVE  ChainWork(store') > ChainWork(store)
    BY Zenon
  <2>1. Request
    BY DEF Next, NodeMoves, Tick, Sync, Step, Kill, Verify, FindAnchor, AskProof, Fail, client
  <2> QED
    BY <2>1, RequestEnds, Zenon DEF Fail
<1> QED
  BY <1>1, WalletInvariant, PTL DEF Spec, WorkNeverLost

-----------------------------------------------------------------------------
(* Against a node that stays where it is.                                    *)

(* Headers of the node's chain, from a height that agrees, are accepted.     *)
LEMMA ConcludeSettles ==
    ASSUME Types, LoadsAt(served, Latest), NEW fork \in Int, fork >= -1, NEW m \in Nat,
           (fork + 1) + m <= Len(served), NEW headers \in Seq(Seq(Header)), Len(headers) = m,
           \A i \in 1..m : headers[i] = SubSeq(served, 1, (fork + 1) + i),
           \/ stored = <<>> /\ fork = -1 /\ m = Len(served)
           \/ stored # <<>> /\ fork >= 0 /\ Agrees(fork),
           Conclude(fork, headers)
    PROVE  \/ store' = SubSeq(served, 1, (fork + 1) + m) /\ Return(store', "synced")
           \/ /\ store' = store /\ Return(stored, "refused")
              /\ stored # <<>> /\ TooLight(fork, SubSeq(served, 1, (fork + 1) + m))
<1> DEFINE prefix == HeaderAt(stored, fork)
           chain == IF headers = <<>> THEN prefix ELSE headers[Len(headers)]
           valid == IF stored = <<>> THEN VerifyHeaderChain(headers, Latest)
                    ELSE VerifyFrom(prefix, headers, Latest)
<1>1. served \in Seq(Header) /\ Len(served) \in Nat \ {0}
  BY ServedTypes, Zenon DEF Types
<1>2. Obeys(served, Latest)
  BY <1>1, LoadsIs, Zenon
<1>3. headers = [i \in 1..m |-> SubSeq(served, 1, (fork + 1) + i)]
  <2>1. headers = [i \in 1..m |-> headers[i]]
    OBVIOUS
  <2> QED
    BY <2>1, Zenon
<1>4. valid
  <2>1. CASE stored = <<>> /\ fork = -1 /\ m = Len(served)
    <3>1. \A i \in 1..m : (fork + 1) + i = i
      BY <2>1
    <3>2. headers = AllHeaders(served)
      BY <1>1, <1>3, <2>1, <3>1 DEF AllHeaders
    <3> QED
      BY <2>1, <3>2, Zenon DEF LoadsAt
  <2>2. CASE stored # <<>> /\ fork >= 0 /\ Agrees(fork)
    <3> DEFINE k == fork + 1
    <3>1. k \in Nat /\ k >= 1 /\ k + m <= Len(served)
      BY <2>2
    <3>2. prefix = SubSeq(served, 1, k)
      BY <2>2, Zenon DEF Agrees, HeaderAt
    <3>3. \A i \in 1..m : HeaderValid(SubSeq(served, 1, k + i), Latest)
      <4> SUFFICES ASSUME NEW i \in 1..m PROVE HeaderValid(SubSeq(served, 1, k + i), Latest)
        BY Zenon
      <4>1. k + i \in 2..Len(served)
        BY <1>1, <3>1
      <4> QED
        BY <1>2, <4>1 DEF Obeys
    <3>4. headers = [i \in 1..m |-> SubSeq(served, 1, k + i)]
      BY <1>3
    <3> HIDE DEF k, prefix
    <3>5. VerifyFrom(SubSeq(served, 1, k), [i \in 1..m |-> SubSeq(served, 1, k + i)], Latest)
      BY <1>1, <3>1, <3>3, PageVerifies, Zenon
    <3> QED
      BY <2>2, <3>2, <3>4, <3>5, Zenon
  <2> QED
    BY <2>1, <2>2, Zenon
<1>5. chain = SubSeq(served, 1, (fork + 1) + m)
  <2>1. CASE m = 0
    <3>1. headers = <<>> /\ stored # <<>> /\ Agrees(fork)
      BY <1>1, <2>1
    <3>2. (fork + 1) + m = fork + 1
      BY <2>1
    <3> QED
      BY <3>1, <3>2, Zenon DEF Agrees, HeaderAt
  <2>2. CASE m # 0
    <3>1. headers # <<>> /\ m \in 1..m
      BY <2>2, LastIndex, Zenon
    <3> QED
      BY <3>1, Zenon
  <2> QED
    BY <2>1, <2>2, Zenon
<1>6. \/ stored # <<>> /\ TooLight(fork, chain) /\ Return(stored, "refused") /\ store' = store
      \/ Return(chain, "synced") /\ store' = chain
  BY <1>4 DEF Conclude
<1> HIDE DEF chain
<1> QED
  BY <1>5, <1>6, Zenon

(* What a command comes to.                                                  *)
Settled ==
    \/ store' = served
    \/ /\ Len(store') = Len(store) + PageSize /\ Len(store') <= Len(served)
       /\ store' = SubSeq(served, 1, Len(store'))
    \/ store' = store /\ ChainWork(served) <= ChainWork(store)

(* A chain that loads starts with the genesis.                               *)
LEMMA NotForeign ==
    ASSUME Types, LoadsAt(served, Latest)
    PROVE  served[1] = Genesis
<1>1. served \in Seq(Header)
  BY ServedTypes, Zenon DEF Types
<1> QED
  BY <1>1, LoadsIs, Zenon DEF Obeys

(* The fast path ends with the whole chain, or a page more of it.            *)
LEMMA TailSettles ==
    ASSUME WalletInv, OnServed, AskTail, phase' = "idle"
    PROVE  Settled /\ \E status : Return(store', status)
<1>1. /\ stored = store /\ Loads(store) /\ Types /\ served \in Served /\ stored \in Seq(Header)
      /\ LoadsAt(served, Latest)
  BY Zenon DEF AskTail, WalletInv, Session, Types, OnServed
<1>2. /\ Len(stored) \in Nat /\ StoredTip \in Nat /\ Len(stored) = StoredTip + 1 /\ stored # <<>>
      /\ StoredTip \in Int /\ StoredTip >= -1
  BY <1>1, LoadedTip
<1>3. PageSize \in Nat /\ served \in Seq(Header) /\ Len(served) \in Nat
  BY <1>1, WalletAssumption, ServedTypes
<1> DEFINE page == GetHeaders(Len(stored), PageSize)
           m == Len(page)
<1>4. page # <<>> /\ PreviousHash(page[1]) = stored /\ Conclude(StoredTip, page)
  BY DEF AskTail, GoesOn
<1>5. page = GetHeaders(Len(stored), PageSize)
  OBVIOUS
<1> HIDE DEF page
<1>6. /\ page \in Seq(Seq(Header)) /\ Len(page) \in 0..PageSize
      /\ \A i \in 1..Len(page) : page[i] = SubSeq(served, 1, Len(stored) + i)
      /\ Len(page) = 0 \/ Len(stored) + Len(page) <= Len(served)
      /\ Len(page) < PageSize => Len(stored) + Len(page) >= Len(served)
  <2>1. Len(stored) \in Nat /\ PageSize \in Nat /\ served \in Served
    BY <1>1, <1>2, <1>3, Zenon
  <2> QED
    BY ONLY <1>5, <2>1, PageIs, Zenon
<1>7. m \in Nat /\ m >= 1 /\ Len(stored) + m <= Len(served) /\ (StoredTip + 1) + m = Len(stored) + m
  BY <1>2, <1>3, <1>6, <1>4
<1>8. Agrees(StoredTip)
  <2>1. page[1] = SubSeq(served, 1, Len(stored) + 1)
    BY <1>6, <1>7
  <2>2. /\ Len(stored) + 1 \in 0..Len(served) /\ Len(stored) \in 0..(Len(stored) + 1)
        /\ (Len(stored) + 1) - 1 = Len(stored) /\ StoredTip < Len(served)
    BY <1>2, <1>3, <1>7
  <2>3. Len(page[1]) = Len(stored) + 1
    BY <1>3, <2>1, <2>2, Prefix
  <2>4. SubSeq(page[1], 1, Len(stored)) = SubSeq(served, 1, Len(stored))
    BY <1>3, <2>1, <2>2, PrefixOfPrefix
  <2>5. stored = SubSeq(served, 1, Len(stored))
    BY <1>4, <2>2, <2>3, <2>4, Zenon DEF PreviousHash
  <2>6. SubSeq(stored, 1, Len(stored)) = stored
    BY <1>1, Prefix
  <2> QED
    BY <1>2, <2>2, <2>5, <2>6, Zenon DEF Agrees, HeaderAt
<1> DEFINE c == SubSeq(served, 1, (StoredTip + 1) + m)
<1>9. /\ \A i \in 1..m : page[i] = SubSeq(served, 1, (StoredTip + 1) + i)
      /\ (StoredTip + 1) + m <= Len(served) /\ Len(page) = m /\ StoredTip >= 0
  BY <1>2, <1>6, <1>7
<1>10. ~TooLight(StoredTip, c)
  BY <1>2 DEF TooLight
<1> HIDE DEF m
<1>11. store' = c /\ Return(store', "synced")
  <2>1. \/ store' = c /\ Return(store', "synced")
        \/ /\ store' = store /\ Return(stored, "refused")
           /\ stored # <<>> /\ TooLight(StoredTip, c)
    BY <1>1, <1>2, <1>6, <1>4, <1>7, <1>8, <1>9, ConcludeSettles, Zenon
  <2> QED
    BY <1>10, <2>1
<1>12. Len(stored) + m \in 0..Len(served) /\ c = SubSeq(served, 1, Len(stored) + m) /\ Len(c) = Len(stored) + m
  <2>1. Len(stored) + m \in 0..Len(served) /\ (StoredTip + 1) + m = Len(stored) + m
    BY <1>2, <1>3, <1>7
  <2>2. Len(SubSeq(served, 1, Len(stored) + m)) = Len(stored) + m
    BY <1>3, <2>1, Prefix
  <2> QED
    BY <2>1, <2>2, Zenon
<1> HIDE DEF c
<1>13. CASE m = PageSize
  <2>1. Len(store') = Len(store) + PageSize /\ Len(store') <= Len(served)
    BY <1>1, <1>7, <1>11, <1>12, <1>13, Zenon
  <2>2. store' = SubSeq(served, 1, Len(store'))
    BY <1>11, <1>12, Zenon
  <2> QED
    BY <1>11, <2>1, <2>2, Zenon DEF Settled
<1>14. CASE m # PageSize
  <2>1. Len(stored) + m = Len(served)
    BY <1>2, <1>3, <1>6, <1>7, <1>14 DEF m
  <2>2. c = served
    BY <1>3, <1>12, <2>1, Prefix, Zenon
  <2> QED
    BY <1>11, <2>2, Zenon DEF Settled
<1> QED
  BY <1>13, <1>14, Zenon

(* A stored tip that agrees with a node no longer than it is the tip of      *)
(* that node.                                                                *)
LEMMA TipSettles ==
    ASSUME WalletInv, OnServed, AskTip, phase' = "idle"
    PROVE  Settled /\ \E status : Return(store', status)
<1>1. /\ stored = store /\ Loads(store) /\ Types /\ served \in Served /\ stored \in Seq(Header)
      /\ LoadsAt(served, Latest) /\ ~moved /\ Len(served) <= Len(stored)
  BY Zenon DEF AskTip, WalletInv, Session, Types, OnServed, Answers
<1>2. /\ Len(stored) \in Nat /\ StoredTip \in Nat /\ Len(stored) = StoredTip + 1 /\ stored # <<>>
      /\ StoredTip \in Int /\ StoredTip >= -1 /\ StoredTip >= 0 /\ StoredTip \in 0..StoredTip
  BY <1>1, LoadedTip
<1>3. served \in Seq(Header) /\ Len(served) \in Nat
  BY <1>1, ServedTypes
<1>4. AgreesAt(StoredTip) /\ Conclude(StoredTip, <<>>)
  BY Zenon DEF AskTip, GoesOn
<1>5. Agrees(StoredTip)
  BY <1>1, <1>2, <1>4, AgreesIs, Zenon
<1>6. (StoredTip + 1) + 0 = Len(served)
  BY <1>1, <1>2, <1>3, <1>5 DEF Agrees
<1> DEFINE c == SubSeq(served, 1, (StoredTip + 1) + 0)
<1>7. c = served
  BY <1>3, <1>6, Prefix
<1>8. ~TooLight(StoredTip, c)
  BY <1>2 DEF TooLight
<1>9. /\ <<>> \in Seq(Seq(Header)) /\ Len(<<>>) = 0 /\ 0 \in Nat /\ (StoredTip + 1) + 0 <= Len(served)
      /\ \A i \in 1..0 : <<>>[i] = SubSeq(served, 1, (StoredTip + 1) + i)
  BY <1>3, <1>6
<1>10. \/ store' = c /\ Return(store', "synced")
       \/ /\ store' = store /\ Return(stored, "refused")
          /\ stored # <<>> /\ TooLight(StoredTip, c)
  BY <1>1, <1>2, <1>4, <1>5, <1>9, ConcludeSettles, Zenon
<1> HIDE DEF c
<1> QED
  BY <1>7, <1>8, <1>10 DEF Settled

(* The genesis agrees, so the search never fails.                            *)
LEMMA GenesisAgrees ==
    ASSUME WalletInv, OnServed, AskGenesis
    PROVE  phase' # "idle"
<1>1. /\ stored = store /\ Loads(store) /\ Types /\ served \in Served /\ stored \in Seq(Header)
      /\ LoadsAt(served, Latest)
  BY Zenon DEF AskGenesis, WalletInv, Session, Types, OnServed
<1>2. StoredTip \in Nat /\ 0 \in 0..StoredTip /\ Len(stored) = StoredTip + 1
  BY <1>1, LoadedTip
<1>3. served \in Seq(Header) /\ Len(served) \in Nat \ {0} /\ served[1] = Genesis
  BY <1>1, ServedTypes, NotForeign, Zenon
<1>4. stored[1] = Genesis
  BY <1>1, FileLoads, Zenon DEF Obeys
<1>5. /\ 1 \in 0..Len(served) /\ 1 \in 0..Len(stored) /\ 0 < Len(served) /\ 0 + 1 = 1
  BY <1>2, <1>3
<1>6. SubSeq(served, 1, 1) = SubSeq(stored, 1, 1)
  BY <1>1, <1>3, <1>4, <1>5
<1>7. Agrees(0)
  BY <1>5, <1>6, Zenon DEF Agrees, HeaderAt
<1>8. AgreesAt(0)
  BY <1>1, <1>2, <1>7, AgreesIs, Zenon
<1> QED
  BY <1>8, Zenon DEF AskGenesis, GoesOn

(* The pages after the fork make the whole chain: it is saved, or has no     *)
(* more work.                                                                *)
LEMMA FetchSettles ==
    ASSUME WalletInv, OnServed, Fetch, phase' = "idle"
    PROVE  Settled /\ \E status : Return(store', status)
<1>1. /\ Types /\ served \in Served /\ LoadsAt(served, Latest) /\ ~moved /\ store \in Seq(Header)
  BY Zenon DEF WalletInv, Types, OnServed
<1>2. served \in Seq(Header) /\ Len(served) \in Nat \ {0}
  BY <1>1, ServedTypes, Zenon
<1> DEFINE page == GetHeaders(NextFrom, PageSize)
           headers == tail \o page
           m == Len(headers)
<1>3. Len(page) < PageSize /\ Conclude(probe.match, headers)
  BY DEF Fetch, GoesOn
<1>4. page = GetHeaders(NextFrom, PageSize)
  BY Zenon
<1> HIDE DEF page
<1>5. /\ \/ stored = <<>> /\ ~Loads(store) /\ probe = NoProbe
         \/ stored = store /\ Loads(store) /\ probe.match \in 0..StoredTip
      /\ probe.match \in Int /\ probe.match >= -1 /\ Len(tail) \in Nat /\ Len(page) \in Nat
      /\ NextFrom = (probe.match + Len(tail)) + 1
      /\ Len(page) < PageSize => NextFrom + Len(page) >= Len(served)
      /\ tail \o page \in Seq(Seq(Header))
  BY <1>4, NextPage, Zenon
<1>6. /\ stored # <<>> => Agrees(probe.match)
      /\ NextFrom + Len(page) <= Len(served)
      /\ Len(headers) = Len(tail) + Len(page)
      /\ \A i \in 1..Len(headers) : headers[i] = SubSeq(served, 1, (probe.match + 1) + i)
  BY <1>1, <1>4, PagesAnswer, Zenon
<1> HIDE DEF headers
<1>7. /\ m \in Nat /\ (probe.match + 1) + m = Len(served) /\ headers \in Seq(Seq(Header))
      /\ (probe.match + 1) + m <= Len(served)
  <2>1. headers \in Seq(Seq(Header))
    BY <1>5 DEF headers
  <2>2. /\ ((probe.match + Len(tail)) + 1) + Len(page) <= Len(served)
        /\ ((probe.match + Len(tail)) + 1) + Len(page) >= Len(served)
        /\ Len(served) \in Nat
    <3>1. /\ NextFrom = (probe.match + Len(tail)) + 1
          /\ NextFrom + Len(page) >= Len(served) /\ NextFrom + Len(page) <= Len(served)
      BY <1>3, <1>5, <1>6, Zenon
    <3> QED
      BY <1>2, <3>1, Zenon
  <2>3. m = Len(tail) + Len(page)
    BY <1>6, Zenon
  <2>4. /\ Len(tail) + Len(page) \in Nat
        /\ (probe.match + 1) + (Len(tail) + Len(page)) = Len(served)
        /\ (probe.match + 1) + (Len(tail) + Len(page)) <= Len(served)
    <3>1. probe.match \in Int /\ Len(tail) \in Nat /\ Len(page) \in Nat
      BY <1>5, Zenon
    <3> QED
      BY ONLY <2>2, <3>1, SMTT(30)
  <2> QED
    BY <2>1, <2>3, <2>4, Zenon
<1>8. \/ stored = <<>> /\ probe.match = -1 /\ m = Len(served)
      \/ stored # <<>> /\ probe.match >= 0 /\ Agrees(probe.match)
  <2>1. CASE stored = <<>> /\ ~Loads(store) /\ probe = NoProbe
    <3>1. probe.match = -1
      BY <2>1, Zenon DEF NoProbe
    <3>2. m = Len(served)
      BY <1>2, <1>7, <3>1
    <3> QED
      BY <2>1, <3>1, <3>2, Zenon
  <2>2. CASE stored = store /\ Loads(store) /\ probe.match \in 0..StoredTip
    <3>1. stored # <<>>
      BY <1>1, <2>2, LoadedTip, Zenon
    <3> QED
      BY <1>6, <2>2, <3>1
  <2> QED
    BY <1>5, <2>1, <2>2, Zenon
<1> DEFINE c == SubSeq(served, 1, (probe.match + 1) + m)
<1>9. c = served
  BY <1>2, <1>7, Prefix
<1>10. \A i \in 1..m : headers[i] = SubSeq(served, 1, (probe.match + 1) + i)
  BY <1>6, Zenon
<1> HIDE DEF m
<1>11. Len(headers) = m
  BY Zenon DEF m
<1>12. \/ store' = c /\ Return(store', "synced")
       \/ /\ store' = store /\ Return(stored, "refused")
          /\ stored # <<>> /\ TooLight(probe.match, c)
  BY <1>1, <1>3, <1>5, <1>7, <1>8, <1>10, <1>11, ConcludeSettles, Zenon
<1> HIDE DEF c
<1>13. CASE store' = c /\ Return(store', "synced")
  BY <1>9, <1>13, Zenon DEF Settled
<1>14. CASE /\ store' = store /\ Return(stored, "refused")
            /\ stored # <<>> /\ TooLight(probe.match, c)
  <2>1. stored = store /\ Loads(store)
    BY <1>5, <1>14, Zenon
  <2>2. ~(ChainWork(served) > ChainWork(store))
    BY <1>9, <1>14, <2>1, Zenon DEF TooLight, IsBetterChain
  <2>3. ChainWork(served) \in Nat
    BY <1>1, <1>2, LoadsIs, ObeysWork, Zenon
  <2>4. ChainWork(store) \in Nat
    BY <1>1, <2>1, FileLoads, ObeysWork, Zenon
  <2>5. ChainWork(served) <= ChainWork(store)
    BY <2>2, <2>3, <2>4
  <2> QED
    BY <1>14, <2>1, <2>5, Zenon DEF Settled
<1> QED
  BY <1>12, <1>13, <1>14, Zenon

(* Every way a command ends.                                                 *)
LEMMA RequestSettles ==
    ASSUME WalletInv, OnServed, Request, phase' = "idle"
    PROVE  Settled /\ \E status : Return(store', status)
<1>1. Info \/ AskTail \/ AskTip \/ BackOff \/ AskGenesis \/ SearchOn \/ Fetch
  BY Zenon DEF Request
<1>2. ~Info
  <2>1. served[1] = Genesis
    BY NotForeign DEF WalletInv, OnServed
  <2> QED
    BY <2>1, Zenon DEF Info, GoesOn
<1>3. ~BackOff /\ ~SearchOn
  BY Zenon DEF BackOff, SearchOn, GoesOn
<1> QED
  BY <1>1, <1>2, <1>3, TailSettles, TipSettles, GenesisAgrees, FetchSettles

(* Only an answered request ends a command with a status.                    *)
LEMMA EndsRequest ==
    ASSUME WalletInv, Next, Ends
    PROVE  Request
<1>1. result'.status # "none" /\ phase # "idle" /\ phase' = "idle"
  BY Zenon DEF Ends
<1>2. ~Kill
  BY <1>1 DEF Kill, EndWith, NoResult
<1> QED
  BY <1>1, <1>2 DEF Next, NodeMoves, Tick, Sync, Step, Verify, FindAnchor, AskProof, client

(* A command against a node that stays on one valid chain brings the file up *)
(* to date, a page at least, or finds that chain no better (syncHeaders).    *)
THEOREM SyncReachesNode == Spec => SyncSettles
<1>1. WalletInv /\ [Next]_vars =>
        [Ends /\ OnServed =>
            \/ store' = served
            \/ /\ Len(store') = Len(store) + PageSize /\ Len(store') <= Len(served)
               /\ store' = SubSeq(served, 1, Len(store'))
            \/ store' = store /\ ChainWork(served) <= ChainWork(store)]_vars
  <2> SUFFICES ASSUME WalletInv, Next, Ends, OnServed PROVE Settled
    BY Zenon DEF Settled
  <2>1. Request /\ phase' = "idle"
    BY EndsRequest DEF Ends
  <2> QED
    BY <2>1, RequestSettles, Zenon
<1> QED
  BY <1>1, WalletInvariant, PTL DEF Spec, SyncSettles

(* A chain that holds the header the proof leads to holds the transaction.   *)
LEMMA ReturnConfirms ==
    ASSUME WalletInv, store' \in Seq(Header), NEW status, status # "confirmed",
           Return(store', status), result'.status = "confirmed"
    PROVE  /\ \E u \in Tx : proof.tx = <<u>> /\ u \in Range(store'[result'.height].txs)
           /\ asked.compared => result'.tx = proof.tx
<1>1. result' = [status |-> IF proof = NoProof THEN status
                            ELSE IF Included(store') /\ ~AnswersNot THEN "confirmed" ELSE "failed",
                 tx |-> asked.tx, height |-> Len(proof.chain)]
  BY Zenon DEF Return, EndWith
<1>2. /\ proof # NoProof /\ Included(store') /\ ~AnswersNot
      /\ result'.tx = asked.tx /\ result'.height = Len(proof.chain)
  BY <1>1, Zenon
<1>3. /\ proof.chain \in Seq(Header) /\ proof.chain # <<>>
      /\ \E u \in Tx : proof.tx = <<u>> /\ u \in Range(HeaderOf(proof.chain).txs)
  BY <1>2, Zenon DEF WalletInv, Proves, Included
<1> DEFINE n == Len(proof.chain)
<1>4. n \in Nat /\ n >= 1 /\ n \in 1..n
  BY <1>3
<1>5. n - 1 < Len(store') /\ proof.chain = SubSeq(store', 1, (n - 1) + 1)
  BY <1>2, Zenon DEF Included, HeightOf, HeaderAt
<1>6. (n - 1) + 1 = n /\ n \in 0..Len(store')
  BY <1>4, <1>5
<1>7. HeaderOf(proof.chain) = store'[n]
  <2>1. SubSeq(store', 1, n)[n] = store'[n]
    BY <1>4, <1>6, Prefix
  <2> QED
    BY <1>5, <1>6, <2>1, Zenon DEF HeaderOf
<1> QED
  BY <1>2, <1>3, <1>7, Zenon DEF AnswersNot

(* Behind a confirmation is a transaction of the block of the verified chain *)
(* that is printed, for find-anchor the one it was asked for; and what the   *)
(* node proves of its chain is confirmed once the wallet holds that chain    *)
(* (verifyInclusion).                                                        *)
THEOREM ConfirmedIsIncluded == Spec => VerifyExact
<1>1. ASSUME WalletInv, Next, result'.status = "confirmed", result' # result
      PROVE  /\ \E u \in Tx : proof.tx = <<u>> /\ u \in Range(store'[result'.height].txs)
             /\ asked.compared => result'.tx = proof.tx
  <2>1. Request
    BY <1>1 DEF Next, NodeMoves, Tick, Sync, Step, Kill, Verify, FindAnchor, AskProof, Fail, EndWith,
                NoResult, client
  <2>2. ~Fail
    BY <1>1, Zenon DEF Fail, EndWith, NoResult
  <2>3. store' \in Seq(Header) /\ \E status \in {"refused", "synced"} : Return(store', status)
    BY <1>1, <2>1, <2>2, RequestEnds, Zenon DEF WalletInv, Types
  <2> QED
    BY <1>1, <2>3, ReturnConfirms, Zenon
<1>2. ASSUME WalletInv, Next, Ends, OnServed, Answered, store' = served
      PROVE  result'.status = "confirmed"
  <2>1. PICK status : Return(store', status)
    BY <1>2, EndsRequest, RequestSettles, Zenon DEF Ends
  <2>2. PICK t \in Tx : Places(t) # {} /\ asked.tx = <<t>> /\ proof = TransactionProof(t, t)
    BY <1>2 DEF Answered
  <2> DEFINE n == Len(proof.chain)
  <2>3. /\ proof.chain \in Seq(Header) /\ proof.chain # <<>> /\ n <= Len(served)
        /\ proof.chain = SubSeq(served, 1, n) /\ proof.tx = asked.tx
        /\ VerifyMerkleProof(proof.tx, proof.siblings, MerkleRoot(HeaderOf(proof.chain).txs))
        /\ Len(served) \in Nat
    <3>1. served \in Served
      BY <1>2 DEF WalletInv, Types
    <3> QED
      BY <2>2, <3>1, ProofIs, ServedTypes, Zenon
  <2>4. Included(store')
    <3>1. n - 1 < Len(served) /\ (n - 1) + 1 = n
      BY <2>3, LastBelow, Zenon
    <3> QED
      BY <1>2, <2>3, <3>1 DEF Included, HeightOf, HeaderAt
  <2>5. proof # NoProof /\ ~AnswersNot
    <3>1. NoProof.chain = <<>>
      BY DEF NoProof
    <3> QED
      BY <2>3, <3>1, Zenon DEF AnswersNot
  <2> QED
    BY <2>1, <2>4, <2>5, Zenon DEF Return, EndWith
<1>3. WalletInv /\ [Next]_vars =>
        [/\ result'.status = "confirmed" /\ result' # result =>
              /\ \E u \in Tx : proof.tx = <<u>> /\ u \in Range(store'[result'.height].txs)
              /\ asked.compared => result'.tx = proof.tx
         /\ Ends /\ OnServed /\ Answered /\ store' = served =>
              result'.status = "confirmed"]_vars
  BY <1>1, <1>2
<1> QED
  BY <1>3, WalletInvariant, PTL DEF Spec, VerifyExact
=============================================================================
