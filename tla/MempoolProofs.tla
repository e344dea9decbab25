---------------------------- MODULE MempoolProofs ----------------------------
(* Proofs about module Mempool, for every set of transactions, every fee and *)
(* every capacity.                                                           *)
EXTENDS Mempool, FiniteSetTheorems, NaturalsInduction, WellFoundedInduction, TLAPS

(* A leaf goes to the SMT solver with this limit, unless it names Zenon.     *)
USE SMTT(30)

(* The inductive invariant, of a pool as a value. *)
Consistent(p) ==
    /\ p.txs \subseteq Pending
    /\ p.claims \in [DOMAIN p.claims -> p.txs]
    /\ DOMAIN p.claims = UNION {Spends[t] : t \in p.txs}
    /\ \A t \in p.txs : \A o \in Spends[t] : p.claims[o] = t

Bounded(p) == IsFiniteSet(p.txs) /\ Cardinality(p.txs) <= MaxSize

PoolInv == Consistent(pool) /\ Bounded(pool)

-----------------------------------------------------------------------------
(* remove keeps the claims exact: it frees the outpoints of what it removes  *)
(* and no other.                                                             *)
LEMMA RemoveConsistent ==
    ASSUME NEW p, Consistent(p), NEW S
    PROVE  /\ Consistent(Remove(p, S))
           /\ Remove(p, S).txs = p.txs \ S
           /\ DOMAIN Remove(p, S).claims = {o \in DOMAIN p.claims : p.claims[o] \notin S}
<1> DEFINE q == Remove(p, S)
<1>1. \A o \in DOMAIN p.claims : p.claims[o] \in p.txs /\ o \in Spends[p.claims[o]]
  BY DEF Consistent
<1>2. q.txs = p.txs \ S
  BY DEF Remove
<1>3. DOMAIN q.claims = {o \in DOMAIN p.claims : p.claims[o] \notin S}
  BY <1>1 DEF Remove
<1>4. \A o \in DOMAIN q.claims : q.claims[o] = p.claims[o]
  BY DEF Remove
<1>5. q.claims \in [DOMAIN q.claims -> q.txs]
  <2>1. q.claims = [o \in DOMAIN q.claims |-> p.claims[o]]
    BY DEF Remove
  <2>2. \A o \in DOMAIN q.claims : p.claims[o] \in q.txs
    BY <1>1, <1>2, <1>3
  <2> QED
    BY <2>1, <2>2
<1>6. DOMAIN q.claims = UNION {Spends[t] : t \in q.txs}
  BY <1>1, <1>2, <1>3 DEF Consistent
<1>7. \A t \in q.txs : \A o \in Spends[t] : q.claims[o] = t
  BY <1>2, <1>4, <1>6 DEF Consistent
<1> QED
  BY <1>2, <1>3, <1>5, <1>6, <1>7 DEF Consistent

(* Adding a transaction whose outpoints nobody claims keeps them exact.      *)
LEMMA InsertConsistent ==
    ASSUME NEW p, Consistent(p), NEW t \in Pending, Spends[t] \cap DOMAIN p.claims = {}
    PROVE  Consistent(Insert(p, t)) /\ Insert(p, t).txs = p.txs \cup {t}
<1> DEFINE q == Insert(p, t)
<1>1. q.txs = p.txs \cup {t}
  BY DEF Insert
<1>2. DOMAIN q.claims = DOMAIN p.claims \cup Spends[t]
  BY DEF Insert
<1>3. \A o \in DOMAIN q.claims : q.claims[o] = IF o \in Spends[t] THEN t ELSE p.claims[o]
  BY DEF Insert
<1>4. q.claims \in [DOMAIN q.claims -> q.txs]
  <2>1. q.claims = [o \in DOMAIN q.claims |-> IF o \in Spends[t] THEN t ELSE p.claims[o]]
    BY DEF Insert
  <2>2. \A o \in DOMAIN q.claims : (IF o \in Spends[t] THEN t ELSE p.claims[o]) \in q.txs
    BY <1>1, <1>2 DEF Consistent
  <2> QED
    BY <2>1, <2>2
<1>5. DOMAIN q.claims = UNION {Spends[x] : x \in q.txs}
  BY <1>1, <1>2 DEF Consistent
<1>6. \A x \in q.txs : \A o \in Spends[x] : q.claims[o] = x
  <2> SUFFICES ASSUME NEW x \in q.txs, NEW o \in Spends[x] PROVE q.claims[o] = x
    OBVIOUS
  <2>1. CASE x = t
    BY <2>1, <1>2, <1>3
  <2>2. CASE x # t
    <3>1. x \in p.txs /\ o \in DOMAIN p.claims /\ p.claims[o] = x
      BY <2>2, <1>1 DEF Consistent
    <3> QED
      BY <3>1, <1>2, <1>3
  <2> QED
    BY <2>1, <2>2
<1>7. q.txs \subseteq Pending
  BY <1>1 DEF Consistent
<1> QED
  BY <1>1, <1>4, <1>5, <1>6, <1>7 DEF Consistent

(* Once its conflicts are removed, nobody claims what a transaction spends.  *)
LEMMA NoConflictLeft ==
    ASSUME NEW p, Consistent(p), NEW t
    PROVE  /\ Conflicts(p, t) \subseteq p.txs
           /\ Spends[t] \cap DOMAIN Remove(p, Conflicts(p, t)).claims = {}
<1>1. Conflicts(p, t) \subseteq p.txs
  BY DEF Conflicts, Consistent
<1>2. DOMAIN Remove(p, Conflicts(p, t)).claims
        = {o \in DOMAIN p.claims : p.claims[o] \notin Conflicts(p, t)}
  BY RemoveConsistent
<1> QED
  BY <1>1, <1>2, Zenon DEF Conflicts

(* Removing does not grow the pool, and removing something shrinks it.       *)
LEMMA RemoveBounded ==
    ASSUME NEW p, Consistent(p), Bounded(p), NEW S \in SUBSET p.txs
    PROVE  /\ Bounded(Remove(p, S))
           /\ Cardinality(Remove(p, S).txs) <= Cardinality(p.txs)
           /\ S # {} => Cardinality(Remove(p, S).txs) < Cardinality(p.txs)
<1>1. Remove(p, S).txs = p.txs \ S
  BY RemoveConsistent
<1>2. IsFiniteSet(p.txs) /\ p.txs \ S \subseteq p.txs
  BY DEF Bounded
<1>3. /\ IsFiniteSet(p.txs \ S)
      /\ Cardinality(p.txs \ S) <= Cardinality(p.txs)
      /\ Cardinality(p.txs) = Cardinality(p.txs \ S) => p.txs = p.txs \ S
  BY <1>2, FS_Subset
<1>4. S # {} => p.txs \ S # p.txs
  OBVIOUS
<1>5. Cardinality(p.txs \ S) \in Nat /\ Cardinality(p.txs) \in Nat
  BY <1>2, <1>3, FS_CardinalityType
<1>6. S # {} => Cardinality(p.txs \ S) < Cardinality(p.txs)
  BY <1>3, <1>4, <1>5
<1> QED
  BY <1>1, <1>3, <1>5, <1>6, MempoolAssumption DEF Bounded

(* What addTransaction leaves behind is consistent and within the capacity;  *)
(* if it does not hold the transaction, it is the pool it found.             *)
LEMMA AddPreserves ==
    ASSUME NEW p, Consistent(p), Bounded(p), NEW t \in Pending, NEW valid,
           NEW q \in AddTransaction(p, t, valid)
    PROVE  /\ Consistent(q) /\ Bounded(q)
           /\ t \notin q.txs => q.txs = p.txs /\ q.claims = p.claims
<1>1. CASE ~Admissible(p, t, valid)
  BY <1>1 DEF AddTransaction
<1>2. CASE Admissible(p, t, valid)
  <2> DEFINE S == Conflicts(p, t)
             kept == Remove(p, S)
  <2>1. q \in Place(kept, t)
    BY <1>2 DEF AddTransaction
  <2>2. S \subseteq p.txs /\ Spends[t] \cap DOMAIN kept.claims = {}
    BY NoConflictLeft
  <2>3. Consistent(kept) /\ kept.txs = p.txs \ S
    BY RemoveConsistent
  <2>4. /\ Bounded(kept)
        /\ S # {} => Cardinality(kept.txs) < Cardinality(p.txs)
    BY <2>2, RemoveBounded
  <2>5. Cardinality(kept.txs) \in Nat /\ Cardinality(p.txs) \in Nat
    BY <2>4, FS_CardinalityType DEF Bounded
  <2> HIDE DEF S, kept
  <2>6. t \notin kept.txs
    BY <1>2, <2>3 DEF Admissible
  <2>7. CASE ~Full(kept)
    <3>1. q = Insert(kept, t)
      BY <2>1, <2>7 DEF Place
    <3>2. Consistent(q) /\ q.txs = kept.txs \cup {t}
      BY <3>1, <2>2, <2>3, InsertConsistent
    <3>3. IsFiniteSet(q.txs) /\ Cardinality(q.txs) = Cardinality(kept.txs) + 1
      BY <3>2, <2>4, <2>6, FS_AddElement, Zenon DEF Bounded
    <3> QED
      BY <3>2, <3>3, <2>5, <2>7, MempoolAssumption DEF Bounded, Full
  <2>8. CASE Full(kept)
    <3>1. PICK low \in LowestFee(kept.txs) :
            q = IF MakesRoom(low, t) THEN Insert(Remove(kept, {low}), t) ELSE kept
      BY <2>1, <2>8 DEF Place
    <3>2. low \in kept.txs
      BY DEF LowestFee
    <3>3. CASE MakesRoom(low, t)
      <4> DEFINE less == Remove(kept, {low})
      <4>1. /\ Consistent(less) /\ less.txs = kept.txs \ {low}
            /\ DOMAIN less.claims \subseteq DOMAIN kept.claims
        BY <2>3, RemoveConsistent
      <4>2. Bounded(less) /\ Cardinality(less.txs) < Cardinality(kept.txs)
        BY <2>3, <2>4, <3>2, RemoveBounded
      <4> HIDE DEF less
      <4>3. Consistent(q) /\ q.txs = less.txs \cup {t}
        BY <3>1, <3>3, <4>1, <2>2, InsertConsistent, Zenon DEF less
      <4>4. t \notin less.txs
        BY <4>1, <2>6
      <4>5. IsFiniteSet(q.txs) /\ Cardinality(q.txs) = Cardinality(less.txs) + 1
        BY <4>2, <4>3, <4>4, FS_AddElement, Zenon DEF Bounded
      <4>6. Cardinality(less.txs) \in Nat
        BY <4>2, FS_CardinalityType DEF Bounded
      <4> QED
        BY <4>2, <4>3, <4>5, <4>6, <2>4, <2>5, MempoolAssumption DEF Bounded
    <3>4. CASE ~MakesRoom(low, t)
      <4>1. q = kept
        BY <3>1, <3>4
      <4>2. S = {}
        BY <2>4, <2>5, <2>8, MempoolAssumption DEF Full, Bounded
      <4>3. kept.txs = p.txs /\ kept.claims = p.claims
        <5>1. kept.txs = p.txs
          BY <2>3, <4>2
        <5>2. kept.claims = [o \in DOMAIN p.claims |-> p.claims[o]]
          BY <4>2 DEF kept, Remove
        <5> QED
          BY <5>1, <5>2 DEF Consistent
      <4> QED
        BY <4>1, <4>3, <2>3, <2>4
    <3> QED
      BY <3>3, <3>4
  <2> QED
    BY <2>7, <2>8
<1> QED
  BY <1>1, <1>2

-----------------------------------------------------------------------------
(* PoolInv is inductive: every submission and every removal keeps it.        *)
THEOREM PoolInvariant == Spec => []PoolInv
<1>1. Init => PoolInv
  <2> SUFFICES ASSUME Init PROVE PoolInv
    OBVIOUS
  <2>1. pool.txs = {} /\ pool.claims = NoClaim
    BY DEF Init, pool
  <2>2. Consistent(pool)
    BY <2>1 DEF Consistent, NoClaim
  <2>3. Bounded(pool)
    BY <2>1, FS_EmptySet, MempoolAssumption DEF Bounded
  <2> QED
    BY <2>2, <2>3 DEF PoolInv
<1>2. PoolInv /\ [Next]_poolVars => PoolInv'
  <2> SUFFICES ASSUME PoolInv, [Next]_poolVars PROVE PoolInv'
    OBVIOUS
  <2>1. Consistent(pool) /\ Bounded(pool)
    BY DEF PoolInv
  <2>2. ASSUME NEW q, Becomes(q), Consistent(q), Bounded(q) PROVE PoolInv'
    <3>1. pool'.txs = q.txs /\ pool'.claims = q.claims
      BY <2>2 DEF Becomes, pool
    <3> QED
      BY <2>2, <3>1 DEF PoolInv, Consistent, Bounded
  <2>3. ASSUME NEW t \in Pending, NEW valid \in BOOLEAN, Submit(t, valid) PROVE PoolInv'
    <3>1. PICK q \in AddTransaction(pool, t, valid) : Becomes(q)
      BY <2>3 DEF Submit
    <3> QED
      BY <2>1, <2>2, <3>1, AddPreserves
  <2>4. ASSUME NEW t \in Pending, Drop({t}) PROVE PoolInv'
    <3> DEFINE S == {t} \cap pool.txs
    <3>1. /\ Remove(pool, {t}).txs = Remove(pool, S).txs
          /\ Remove(pool, {t}).claims = Remove(pool, S).claims
      BY DEF Remove
    <3>2. Consistent(Remove(pool, S)) /\ Bounded(Remove(pool, S))
      BY <2>1, RemoveConsistent, RemoveBounded
    <3>3. Becomes(Remove(pool, S))
      BY <2>4, <3>1 DEF Drop, Becomes
    <3> QED
      BY <2>2, <3>2, <3>3
  <2>5. CASE UNCHANGED poolVars
    BY <2>1, <2>5 DEF PoolInv, Consistent, Bounded, pool, poolVars
  <2> QED
    BY <2>3, <2>4, <2>5, Zenon DEF Next
<1> QED
  BY <1>1, <1>2, PTL DEF Spec

(* No outpoint is claimed by two pending transactions, none without one, and *)
(* the pool keeps within maxSize: types, claims and capacity, always.        *)
THEOREM PoolSafe == Spec => [](PoolTypeOK /\ ClaimsExact /\ WithinCapacity)
<1>1. PoolInv => PoolTypeOK /\ ClaimsExact /\ WithinCapacity
  BY DEF PoolInv, Consistent, Bounded, pool, PoolTypeOK, ClaimsExact, WithinCapacity
<1> QED
  BY <1>1, PoolInvariant, PTL

(* A refused transaction leaves the pool as it was.                          *)
THEOREM RefusalCostsNothing == Spec => RefusalIsFree
<1>1. PoolInv /\ [Next]_poolVars
        => [\A t \in Pending, valid \in BOOLEAN :
              Submit(t, valid) /\ t \notin transactions' => UNCHANGED poolVars]_poolVars
  <2> SUFFICES ASSUME PoolInv, NEW t \in Pending, NEW valid \in BOOLEAN,
                      Submit(t, valid), t \notin transactions'
               PROVE  UNCHANGED poolVars
    OBVIOUS
  <2>1. PICK q \in AddTransaction(pool, t, valid) : Becomes(q)
    BY DEF Submit
  <2>2. t \notin q.txs
    BY <2>1 DEF Becomes
  <2>3. q.txs = pool.txs /\ q.claims = pool.claims
    BY <2>1, <2>2, AddPreserves DEF PoolInv
  <2> QED
    BY <2>1, <2>3 DEF Becomes, pool, poolVars
<1> QED
  BY <1>1, PoolInvariant, PTL DEF Spec, RefusalIsFree

-----------------------------------------------------------------------------
(* Fees in total.  TotalFee adds the fees up in an order of CHOOSE's; what   *)
(* it comes to does not depend on it.                                        *)

(* A nonempty set of sets of transactions has a smallest one.                *)
LEMMA Smallest ==
    ASSUME NEW S, IsFiniteSet(S), NEW T \in SUBSET (SUBSET S), T # {}
    PROVE  \E x \in T : IsFiniteSet(x) /\ \A a \in x : x \ {a} \notin T
<1> DEFINE R == OpToRel(<, Nat)
           C == {Cardinality(x) : x \in T}
<1>1. \A x \in T : IsFiniteSet(x) /\ Cardinality(x) \in Nat
  BY FS_Subset, FS_CardinalityType
<1>2. C \in SUBSET Nat /\ C # {}
  BY <1>1
<1>3. IsWellFoundedOn(R, Nat)
  BY NatLessThanWellFounded, Zenon
<1>4. \A m, n \in Nat : m < n => <<m, n>> \in R
  BY DEF OpToRel
<1> HIDE DEF R, C
<1>5. PICK n \in C : \A m \in C : ~(<<m, n>> \in R)
  BY <1>2, <1>3, WFMin, Zenon
<1>6. PICK x \in T : n = Cardinality(x)
  BY DEF C
<1>7. ASSUME NEW a \in x, x \ {a} \in T PROVE FALSE
  <2>1. Cardinality(x \ {a}) = Cardinality(x) - 1 /\ Cardinality(x) \in Nat /\ Cardinality(x \ {a}) \in Nat
    BY <1>1, <1>7, FS_RemoveElement
  <2>2. Cardinality(x \ {a}) \in C
    BY <1>7 DEF C
  <2>3. Cardinality(x \ {a}) < Cardinality(x)
    BY <2>1
  <2> QED
    BY <1>4, <1>5, <1>6, <2>1, <2>2, <2>3, Zenon
<1> QED
  BY <1>1, <1>7

(* g adds up the fees of the subsets of S.                                   *)
Sums(g, S) ==
    /\ g \in [SUBSET S -> Int] /\ g[{}] = 0
    /\ \A s \in SUBSET S : \A x \in s : g[s] = Fee[x] + g[s \ {x}]

(* The recursion that TotalFee is defined by.                                *)
Pick(s) == CHOOSE x \in s : TRUE

Unfolds(g, S) ==
    g = [s \in SUBSET S |-> IF s = {} THEN 0 ELSE Fee[Pick(s)] + g[s \ {Pick(s)}]]

(* There is such a sum, in any order.                                        *)
LEMMA SumsExist ==
    ASSUME NEW S \in SUBSET Pending, IsFiniteSet(S)
    PROVE  \E g : Sums(g, S)
<1> DEFINE T == {s \in SUBSET S : ~\E g : Sums(g, s)}
<1> SUFFICES ASSUME T # {} PROVE FALSE
  OBVIOUS
<1>1. PICK s \in T : \A a \in s : s \ {a} \notin T
  BY Smallest, Zenon
<1>2. CASE s = {}
  <2>1. Sums([u \in SUBSET {} |-> 0], {})
    BY DEF Sums
  <2> QED
    BY <1>1, <1>2, <2>1
<1>3. CASE s # {}
  <2>1. PICK a \in s : TRUE
    BY <1>3
  <2>2. PICK g : Sums(g, s \ {a})
    BY <1>1, <2>1
  <2>3. Fee[a] \in Int
    BY MempoolAssumption
  <2> DEFINE h == [u \in SUBSET s |-> IF a \in u THEN Fee[a] + g[u \ {a}] ELSE g[u]]
  <2>4. \A u \in SUBSET s : u \ {a} \in SUBSET (s \ {a}) /\ (a \notin u => u \in SUBSET (s \ {a}))
    OBVIOUS
  <2>5. h \in [SUBSET s -> Int] /\ h[{}] = 0
    BY <2>2, <2>3, <2>4 DEF Sums
  <2>6. ASSUME NEW u \in SUBSET s, NEW x \in u PROVE h[u] = Fee[x] + h[u \ {x}]
    <3>1. u \ {x} \in SUBSET s /\ Fee[x] \in Int
      BY MempoolAssumption
    <3>2. CASE x = a
      BY <3>1, <3>2
    <3>3. CASE x # a /\ a \notin u
      <4>1. g[u] = Fee[x] + g[u \ {x}]
        BY <2>2, <2>4, <3>3 DEF Sums
      <4> QED
        BY <3>1, <3>3, <4>1
    <3>4. CASE x # a /\ a \in u
      <4> DEFINE v == u \ {a}
      <4>1. v \in SUBSET (s \ {a}) /\ x \in v /\ v \ {x} = (u \ {x}) \ {a} /\ v \ {x} \in SUBSET (s \ {a})
        BY <3>4
      <4>2. g[v] = Fee[x] + g[v \ {x}] /\ g[v \ {x}] \in Int
        BY <2>2, <4>1 DEF Sums
      <4>3. h[u] = Fee[a] + g[v] /\ h[u \ {x}] = Fee[a] + g[v \ {x}]
        BY <3>1, <3>4, <4>1
      <4> QED
        BY <2>3, <3>1, <4>2, <4>3
    <3> QED
      BY <3>2, <3>3, <3>4
  <2>7. Sums(h, s)
    BY <2>5, <2>6, Zenon DEF Sums
  <2> QED
    BY <1>1, <2>7
<1> QED
  BY <1>2, <1>3

(* TotalFee is that sum.                                                     *)
LEMMA SumIs ==
    ASSUME NEW S, IsFiniteSet(S), NEW g, Sums(g, S), NEW s \in SUBSET S
    PROVE  TotalFee(s) = g[s] /\ g[s] \in Int
<1> DEFINE w == [u \in SUBSET s |-> g[u]]
           r == CHOOSE f : Unfolds(f, s)
<1>1. TotalFee(s) = r[s]
  BY Zenon DEF TotalFee, MapThenSumSet, MapThenFoldSet, Pick, Unfolds
<1>2. \A u \in SUBSET s : u # {} => Pick(u) \in u /\ u \ {Pick(u)} \in SUBSET s
  BY DEF Pick
<1>3. \A u \in SUBSET s : u \in SUBSET S
  OBVIOUS
<1>4. Unfolds(w, s)
  <2> SUFFICES ASSUME NEW u \in SUBSET s
               PROVE  g[u] = IF u = {} THEN 0 ELSE Fee[Pick(u)] + w[u \ {Pick(u)}]
    BY Zenon DEF Unfolds
  <2>1. CASE u = {}
    BY <2>1 DEF Sums
  <2>2. CASE u # {}
    <3>1. w[u \ {Pick(u)}] = g[u \ {Pick(u)}]
      BY <1>2, <2>2
    <3> QED
      BY <1>2, <1>3, <2>2, <3>1 DEF Sums
  <2> QED
    BY <2>1, <2>2
<1> HIDE DEF w
<1>5. Unfolds(r, s)
  BY <1>4, Zenon
<1> HIDE DEF r
<1> DEFINE T == {u \in SUBSET s : r[u] # g[u]}
<1>6. ASSUME T # {} PROVE FALSE
  <2>1. IsFiniteSet(s)
    BY FS_Subset
  <2>2. PICK u \in T : \A a \in u : u \ {a} \notin T
    BY <1>6, <2>1, Smallest, Zenon
  <2>3. CASE u = {}
    BY <1>5, <2>3 DEF Unfolds, Sums
  <2>4. CASE u # {}
    <3>1. r[u] = Fee[Pick(u)] + r[u \ {Pick(u)}]
      BY <1>5, <2>4, Zenon DEF Unfolds
    <3>2. r[u \ {Pick(u)}] = g[u \ {Pick(u)}]
      BY <1>2, <2>2, <2>4
    <3>3. g[u] = Fee[Pick(u)] + g[u \ {Pick(u)}]
      BY <1>2, <1>3, <2>4 DEF Sums
    <3> QED
      BY <3>1, <3>2, <3>3
  <2> QED
    BY <2>3, <2>4
<1> QED
  BY <1>1, <1>6 DEF Sums

(* Of two disjoint sets it is the sum of both.                               *)
LEMMA SumOfTwo ==
    ASSUME NEW S \in SUBSET Pending, IsFiniteSet(S), NEW g, Sums(g, S),
           NEW a \in SUBSET S, NEW b \in SUBSET S, a \cap b = {}
    PROVE  g[a \cup b] = g[a] + g[b]
<1> DEFINE T == {c \in SUBSET b : g[a \cup c] # g[a] + g[c]}
<1> SUFFICES ASSUME T # {} PROVE FALSE
  BY Zenon
<1>1. IsFiniteSet(b)
  BY FS_Subset
<1>2. PICK c \in T : \A x \in c : c \ {x} \notin T
  BY <1>1, Smallest, Zenon
<1>3. /\ c \in SUBSET b /\ g[a \cup c] # g[a] + g[c]
      /\ \A x \in c : g[a \cup (c \ {x})] = g[a] + g[c \ {x}]
  BY <1>2
<1> HIDE DEF T
<1>4. CASE c = {}
  <2>1. g[a \cup c] = g[a]
    <3>1. a \cup c = a
      BY <1>4
    <3> QED
      BY <3>1, Zenon
  <2>2. g[a] \in Int /\ g[c] = 0
    BY <1>4 DEF Sums
  <2> QED
    BY <1>3, <2>1, <2>2
<1>5. CASE c # {}
  <2>1. PICK x \in c : TRUE
    BY <1>5
  <2> DEFINE d == c \ {x}
  <2>2. c \in SUBSET b /\ c \in SUBSET S /\ x \notin a
    BY <1>3
  <2>3. /\ d \in SUBSET b /\ (a \cup c) \ {x} = a \cup d /\ x \in a \cup c
        /\ a \cup c \in SUBSET S /\ a \cup d \in SUBSET S /\ c \in SUBSET S /\ d \in SUBSET S
    BY <2>2
  <2>4. g[a \cup d] = g[a] + g[d]
    BY <1>3
  <2> HIDE DEF d
  <2>5. g[a \cup c] = Fee[x] + g[a \cup d] /\ g[c] = Fee[x] + g[d]
    BY <2>3 DEF Sums, d
  <2>6. g[a] \in Int /\ g[d] \in Int /\ Fee[x] \in Int
    BY <2>3, MempoolAssumption DEF Sums
  <2> QED
    BY <1>3, <2>4, <2>5, <2>6
<1> QED
  BY <1>4, <1>5

(* An admission raises the fees in total: what is displaced is paid for, and *)
(* what is evicted paid less.                                                *)
LEMMA AddRaises ==
    ASSUME NEW p, Consistent(p), Bounded(p), NEW t \in Pending, NEW valid,
           NEW q \in AddTransaction(p, t, valid), t \notin p.txs, t \in q.txs
    PROVE  TotalFee(q.txs) > TotalFee(p.txs)
<1> DEFINE C == Conflicts(p, t)
           kept == Remove(p, C)
           S == p.txs \cup {t}
<1>1. Admissible(p, t, valid)
  BY DEF AddTransaction
<1>2. C \subseteq p.txs /\ kept.txs = p.txs \ C /\ q \in Place(kept, t)
  BY <1>1, NoConflictLeft, RemoveConsistent DEF AddTransaction
<1>3. S \in SUBSET Pending /\ IsFiniteSet(S)
  BY FS_AddElement DEF Consistent, Bounded
<1>4. PICK g : Sums(g, S)
  BY <1>3, SumsExist
<1>5. \A s \in SUBSET S : TotalFee(s) = g[s] /\ g[s] \in Int
  BY <1>3, <1>4, SumIs
<1>6. Fee[t] \in Int /\ Fee[t] >= MinFee /\ MinFee \in Nat /\ MinFee > 0
  BY <1>1, MempoolAssumption DEF Admissible
<1>7. g[p.txs] = g[p.txs \ C] + g[C]
  <2>1. p.txs = (p.txs \ C) \cup C /\ (p.txs \ C) \cap C = {} /\ p.txs \ C \in SUBSET S /\ C \in SUBSET S
    BY <1>2
  <2>2. g[(p.txs \ C) \cup C] = g[p.txs \ C] + g[C]
    BY <1>3, <1>4, <2>1, SumOfTwo
  <2> QED
    BY <2>1, <2>2, Zenon
<1>8. IF C = {} THEN g[C] = 0 ELSE Fee[t] >= g[C] + MinFee
  BY <1>1, <1>2, <1>4, <1>5, Zenon DEF Admissible, PaysForConflicts, Sums
<1>9. \A s \in SUBSET p.txs : g[s \cup {t}] = Fee[t] + g[s]
  <2> SUFFICES ASSUME NEW s \in SUBSET p.txs PROVE g[s \cup {t}] = Fee[t] + g[s]
    OBVIOUS
  <2>1. s \cup {t} \in SUBSET S /\ t \in s \cup {t} /\ (s \cup {t}) \ {t} = s
    OBVIOUS
  <2> QED
    BY <1>4, <2>1 DEF Sums
<1>10. CASE ~Full(kept)
  <2>1. q.txs = (p.txs \ C) \cup {t}
    BY <1>2, <1>10 DEF Place, Insert
  <2>2. TotalFee(q.txs) = Fee[t] + g[p.txs \ C]
    BY <1>5, <1>9, <2>1, Zenon
  <2> QED
    BY <1>2, <1>5, <1>6, <1>7, <1>8, <2>2
<1>11. CASE Full(kept)
  <2>1. PICK low \in LowestFee(kept.txs) :
          q = IF MakesRoom(low, t) THEN Insert(Remove(kept, {low}), t) ELSE kept
    BY <1>2, <1>11, Zenon DEF Place
  <2>2. C = {} /\ kept.txs = p.txs
    <3>1. C # {} => Cardinality(kept.txs) < Cardinality(p.txs)
      BY <1>2, RemoveBounded
    <3>2. IsFiniteSet(kept.txs) /\ Cardinality(p.txs) \in Nat /\ Cardinality(p.txs) <= MaxSize
      BY <1>2, FS_Subset, FS_CardinalityType DEF Bounded
    <3>3. Cardinality(kept.txs) \in Nat /\ Cardinality(kept.txs) >= MaxSize /\ MaxSize \in Nat
      BY <1>11, <3>2, FS_CardinalityType, MempoolAssumption DEF Full
    <3> HIDE DEF C, kept
    <3>4. C = {}
      BY <3>1, <3>2, <3>3
    <3> QED
      BY <1>2, <3>4
  <2>3. low \in p.txs /\ MakesRoom(low, t) /\ Fee[low] \in Int
    BY <2>1, <2>2, MempoolAssumption DEF LowestFee, Consistent
  <2>4. q.txs = (p.txs \ {low}) \cup {t}
    BY <2>1, <2>2, <2>3, Zenon DEF Insert, Remove
  <2>5. g[p.txs] = Fee[low] + g[p.txs \ {low}]
    BY <1>4, <2>3 DEF Sums
  <2>6. TotalFee(q.txs) = Fee[t] + g[p.txs \ {low}]
    BY <1>5, <1>9, <2>4, Zenon
  <2> QED
    BY <1>5, <1>6, <2>3, <2>5, <2>6 DEF MakesRoom
<1> QED
  BY <1>10, <1>11

(* Every admission strictly raises the fees pending in total: neither a      *)
(* replacement of several transactions nor an eviction is a free relay       *)
(* (Mempool.addTransaction).                                                 *)
THEOREM NoFreeRelay == Spec => FeesRise
<1>1. PoolInv /\ [Next]_poolVars
        => [\A t \in Pending, valid \in BOOLEAN :
              Submit(t, valid) /\ t \notin transactions /\ t \in transactions' =>
                TotalFee(transactions') > TotalFee(transactions)]_poolVars
  <2> SUFFICES ASSUME PoolInv, NEW t \in Pending, NEW valid \in BOOLEAN,
                      Submit(t, valid), t \notin transactions, t \in transactions'
               PROVE  TotalFee(transactions') > TotalFee(transactions)
    OBVIOUS
  <2>1. PICK q \in AddTransaction(pool, t, valid) : Becomes(q)
    BY DEF Submit
  <2>2. q.txs = transactions' /\ pool.txs = transactions
    BY <2>1 DEF Becomes, pool
  <2>3. TotalFee(q.txs) > TotalFee(pool.txs)
    BY <2>1, <2>2, AddRaises DEF PoolInv
  <2> QED
    BY <2>2, <2>3, Zenon
<1> QED
  BY <1>1, PoolInvariant, PTL DEF Spec, FeesRise
=============================================================================
