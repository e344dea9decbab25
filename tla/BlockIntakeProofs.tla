------------------------- MODULE BlockIntakeProofs -------------------------
(* Proofs about module BlockIntake, for every block tree, every set of       *)
(* checkpoints and peers and every limit of the orphan pool.  First what the *)
(* operators do: the ancestry of a block in an arbitrary tree, and what      *)
(* queueOrphan, rejectBlock and resolveOrphansOf do to the orphan queue.     *)
EXTENDS BlockIntake, FiniteSetTheorems, TLAPS

(* A leaf goes to the SMT solver with this limit, unless it names Zenon.     *)
USE SMTT(30)

-----------------------------------------------------------------------------
(* Below what is below a limit.                                              *)
LEMMA AtMost ==
    ASSUME NEW x \in Nat, NEW y \in Nat, NEW z \in Nat, x <= y, y <= z
    PROVE  x <= z
  OBVIOUS

(* Induction: a nonempty set of naturals has a least element.                *)
LEMMA LeastNat ==
    ASSUME NEW T \in SUBSET Nat, T # {}
    PROVE  \E x \in T : \A y \in T : x <= y
<1> DEFINE R == OpToRel(<, Nat)
<1>1. IsWellFoundedOn(R, Nat)
  BY NatLessThanWellFounded, Zenon
<1>2. ASSUME NEW x \in Nat, NEW y \in Nat, y < x PROVE <<y, x>> \in R
  BY <1>2 DEF OpToRel
<1> HIDE DEF R
<1>3. PICK x \in T : \A y \in T : ~(<<y, x>> \in R)
  BY <1>1, WFMin, Zenon
<1>4. ASSUME NEW y \in T PROVE x <= y
  <2>1. x \in Nat /\ y \in Nat
    OBVIOUS
  <2>2. ~ (y < x)
    BY <1>2, <1>3, <2>1, Zenon
  <2> QED
    BY <2>1, <2>2
<1> QED
  BY <1>4

(* ... so a set with 0 that is closed under successor has every natural ...  *)
LEMMA SetInduction ==
    ASSUME NEW S, 0 \in S, \A n \in Nat : n \in S => n + 1 \in S
    PROVE  Nat \subseteq S
<1> SUFFICES ASSUME Nat \ S # {} PROVE FALSE
  OBVIOUS
<1>1. PICK m \in Nat \ S : \A k \in Nat \ S : m <= k
  BY LeastNat, Zenon
<1>2. m - 1 \in Nat /\ m = (m - 1) + 1
  OBVIOUS
<1> QED
  BY <1>1, <1>2

(* ... and a nonempty set of blocks has a lowest one.                     *)
LEMMA LowestBlock ==
    ASSUME NEW S \in SUBSET Block, S # {}
    PROVE  \E x \in S : \A y \in S : Height[x] <= Height[y]
<1> DEFINE T == {Height[x] : x \in S}
<1>1. T \in SUBSET Nat /\ T # {}
  BY IntakeAssumption
<1>2. PICK h \in T : \A k \in T : h <= k
  BY <1>1, LeastNat, Zenon
<1> QED
  BY <1>2

-----------------------------------------------------------------------------
(* The ancestry of a block.                                                  *)

Closed(S) == \A x \in S \ {Genesis} : Parent[x] \in S

LEMMA Parents ==
    ASSUME NEW b \in Block, b # Genesis
    PROVE  /\ Parent[b] \in Block /\ Height[b] \in Nat /\ Height[Parent[b]] \in Nat
           /\ Height[b] = Height[Parent[b]] + 1
           /\ Weight[b] \in Nat /\ Weight[Parent[b]] \in Nat /\ Weight[Parent[b]] < Weight[b]
  BY IntakeAssumption

(* The recursive definition of Chain has a solution: the least closed sets.  *)
LEMMA ChainDef ==
    Chain = [b \in Block |-> IF b = Genesis THEN {b} ELSE {b} \cup Chain[Parent[b]]]
<1> DEFINE f == [b \in Block |-> {x \in Block : \A S \in SUBSET Block : b \in S /\ Closed(S) => x \in S}]
<1>1. ASSUME NEW b \in Block
      PROVE  f[b] = IF b = Genesis THEN {b} ELSE {b} \cup f[Parent[b]]
  <2>1. CASE b = Genesis
    <3>1. {b} \in SUBSET Block /\ Closed({b})
      BY <2>1 DEF Closed
    <3> QED
      BY <2>1, <3>1
  <2>2. CASE b # Genesis
    <3>1. Parent[b] \in Block
      BY <2>2, Parents
    <3>2. {b} \cup f[Parent[b]] \subseteq f[b]
      BY <2>2, <3>1 DEF Closed
    <3>3. ASSUME NEW x \in f[b], x # b PROVE x \in f[Parent[b]]
      <4> SUFFICES ASSUME NEW S \in SUBSET Block, Parent[b] \in S, Closed(S) PROVE x \in S
        BY <3>1
      <4>1. S \cup {b} \in SUBSET Block /\ Closed(S \cup {b}) /\ b \in S \cup {b}
        BY DEF Closed
      <4>2. x \in S \cup {b}
        BY <4>1
      <4> QED
        BY <4>2, <3>3
    <3> QED
      BY <2>2, <3>2, <3>3
  <2> QED
    BY <2>1, <2>2, Zenon
<1>2. f = [b \in Block |-> IF b = Genesis THEN {b} ELSE {b} \cup f[Parent[b]]]
  <2> DEFINE g == [b \in Block |-> IF b = Genesis THEN {b} ELSE {b} \cup f[Parent[b]]]
  <2>1. \A b \in Block : f[b] = g[b]
    BY <1>1
  <2> HIDE DEF g
  <2>2. f = [b \in Block |-> f[b]] /\ g = [b \in Block |-> g[b]]
    BY DEF g
  <2>3. f = g
    BY <2>1, <2>2
  <2> QED
    BY <2>3 DEF g
<1> HIDE DEF f
<1> QED
  BY <1>2, Zenon DEF Chain

LEMMA ChainStep ==
    ASSUME NEW b \in Block
    PROVE  /\ b \in Chain[b] /\ Chain[Genesis] = {Genesis}
           /\ b # Genesis => Chain[b] = {b} \cup Chain[Parent[b]]
  BY ChainDef, IntakeAssumption

(* What holds of a block and passes on to parents holds of its ancestors.    *)
LEMMA ChainInduction ==
    ASSUME NEW b \in Block, NEW S, b \in S, Closed(S)
    PROVE  Chain[b] \subseteq S
<1> DEFINE bad == {c \in Block \cap S : ~(Chain[c] \subseteq S)}
<1> SUFFICES ASSUME bad # {} PROVE FALSE
  OBVIOUS
<1>1. PICK c \in bad : \A y \in bad : Height[c] <= Height[y]
  BY LowestBlock, Zenon
<1>2. c # Genesis
  BY ChainStep, IntakeAssumption
<1>3. Parent[c] \in S /\ Parent[c] \in Block /\ Parent[c] \notin bad
  BY <1>1, <1>2, Parents DEF Closed
<1>4. Chain[c] = {c} \cup Chain[Parent[c]]
  BY <1>2, ChainStep
<1> QED
  BY <1>3, <1>4

LEMMA Ancestry ==
    ASSUME NEW b \in Block
    PROVE  /\ Chain[b] \subseteq Block /\ Closed(Chain[b]) /\ Genesis \in Chain[b]
           /\ \A x \in Chain[b] :
                /\ Chain[x] \subseteq Chain[b]
                /\ Height[x] <= Height[b] /\ (Height[x] = Height[b] => x = b)
                /\ Weight[x] <= Weight[b]
<1>1. Chain[b] \subseteq Block
  <2>1. Closed(Block)
    BY IntakeAssumption DEF Closed
  <2> QED
    BY <2>1, ChainInduction
<1>2. Closed(Chain[b])
  <2> DEFINE bad == {c \in Block : ~Closed(Chain[c])}
  <2> SUFFICES ASSUME bad # {} PROVE FALSE
    OBVIOUS
  <2>1. PICK c \in bad : \A y \in bad : Height[c] <= Height[y]
    BY LowestBlock, Zenon
  <2>2. c # Genesis
    BY ChainStep, IntakeAssumption DEF Closed
  <2>3. Parent[c] \in Block /\ Closed(Chain[Parent[c]])
    BY <2>1, <2>2, Parents
  <2>4. Chain[c] = {c} \cup Chain[Parent[c]] /\ Parent[c] \in Chain[Parent[c]]
    BY <2>2, <2>3, ChainStep
  <2> QED
    BY <2>3, <2>4 DEF Closed
<1>3. Genesis \in Chain[b]
  <2>1. Chain[b] # {}
    BY ChainStep
  <2>2. PICK c \in Chain[b] : \A y \in Chain[b] : Height[c] <= Height[y]
    BY <1>1, <2>1, LowestBlock
  <2>3. CASE c # Genesis
    BY <1>1, <1>2, <2>2, <2>3, Parents DEF Closed
  <2> QED
    BY <2>3
<1>4. \A x \in Chain[b] : Chain[x] \subseteq Chain[b]
  BY <1>1, <1>2, ChainInduction
<1>5. \A x \in Chain[b] : Height[x] <= Height[b] /\ (Height[x] = Height[b] => x = b)
  <2> DEFINE S == {x \in Block : Height[x] < Height[b] \/ x = b}
  <2>1. Height[b] \in Nat
    BY IntakeAssumption
  <2>2. ASSUME NEW x \in S, x # Genesis PROVE Parent[x] \in S
    BY <2>1, <2>2, Parents
  <2>3. Chain[b] \subseteq S
    <3>1. Closed(S)
      BY <2>2 DEF Closed
    <3> HIDE DEF S
    <3>2. b \in S
      BY DEF S
    <3> QED
      BY <3>1, <3>2, ChainInduction
  <2> QED
    BY <2>1, <2>3, IntakeAssumption
<1>6. \A x \in Chain[b] : Weight[x] <= Weight[b]
  <2> DEFINE S == {x \in Block : Weight[x] <= Weight[b]}
  <2>1. Weight[b] \in Nat
    BY IntakeAssumption
  <2>2. ASSUME NEW x \in S, x # Genesis PROVE Parent[x] \in S
    BY <2>1, <2>2, Parents
  <2>3. Chain[b] \subseteq S
    <3>1. Closed(S) /\ b \in S
      BY <2>1, <2>2 DEF Closed
    <3> HIDE DEF S
    <3> QED
      BY <3>1, ChainInduction
  <2> QED
    BY <2>3
<1> QED
  BY <1>1, <1>2, <1>3, <1>4, <1>5, <1>6

(* Of two ancestors of a block one is an ancestor of the other.              *)
LEMMA AncestryLinear ==
    ASSUME NEW b \in Block, NEW x \in Chain[b], NEW y \in Chain[b]
    PROVE  x \in Chain[y] \/ y \in Chain[x]
<1> DEFINE S == {z \in Chain[b] : z \in Chain[y] \/ y \in Chain[z]}
<1>1. y \in Block /\ Closed(Chain[y]) /\ Chain[b] \subseteq Block /\ Closed(Chain[b])
  BY Ancestry
<1>2. b \in S
  BY ChainStep
<1>3. ASSUME NEW z \in S, z # Genesis PROVE Parent[z] \in S
  <2>1. z \in Block /\ Parent[z] \in Block /\ Parent[z] \in Chain[b]
    BY <1>1, <1>3, Parents DEF Closed
  <2>2. CASE z \in Chain[y]
    BY <1>1, <1>3, <2>1, <2>2 DEF Closed
  <2>3. CASE y \in Chain[z]
    <3>1. y = z \/ y \in Chain[Parent[z]]
      BY <1>3, <2>1, <2>3, ChainStep
    <3>2. y = z => Parent[z] \in Chain[y]
      BY <1>1, <1>3, <2>3 DEF Closed
    <3> QED
      BY <2>1, <3>1, <3>2
  <2> QED
    BY <2>2, <2>3
<1>4. Closed(S)
  BY <1>3 DEF Closed
<1> HIDE DEF S
<1>5. Chain[b] \subseteq S
  BY <1>2, <1>4, ChainInduction
<1> QED
  BY <1>5 DEF S

(* A chain has a block at every height from genesis up.                      *)
LEMMA AncestorAt ==
    ASSUME NEW b \in Block, NEW h \in Nat, Height[Genesis] <= h, h <= Height[b]
    PROVE  \E x \in Chain[b] : Height[x] = h
<1> DEFINE S == {x \in Chain[b] : Height[x] >= h}
<1>1. Chain[b] \subseteq Block /\ Closed(Chain[b])
  BY Ancestry
<1>2. S \in SUBSET Block /\ S # {}
  BY <1>1, ChainStep
<1>3. PICK c \in S : \A y \in S : Height[c] <= Height[y]
  BY <1>2, LowestBlock, Zenon
<1>4. c \in Block /\ Height[c] \in Nat
  BY <1>1, IntakeAssumption
<1>5. CASE Height[c] # h
  <2>1. Height[c] > h
    BY <1>4, <1>5
  <2>2. c # Genesis
    BY <2>1, IntakeAssumption
  <2>3. /\ Parent[c] \in Chain[b] /\ Height[Parent[c]] \in Nat
        /\ Height[c] = Height[Parent[c]] + 1
    BY <1>1, <1>4, <2>2, Parents DEF Closed
  <2>4. Parent[c] \in S
    BY <2>1, <2>3
  <2> QED
    BY <1>3, <2>3, <2>4
<1> QED
  BY <1>5

-----------------------------------------------------------------------------
(* What Without computes.                                                    *)

KeptBody(q, P, f, i) ==
    IF i = 0 THEN <<>>
    ELSE IF q[i].parent \in P THEN f[i - 1]
    ELSE Append(f[i - 1], q[i])

Kept(q, P, f, n) == f = [i \in 0..n |-> KeptBody(q, P, f, i)]

(* The recursive function in Without exists.                                 *)
LEMMA KeptExists ==
    ASSUME NEW q, NEW P, NEW n \in Nat
    PROVE  \E f : Kept(q, P, f, n)
<1> DEFINE Ex(m) == \E f : Kept(q, P, f, m)
           S == {m \in Nat : Ex(m)}
<1>1. Ex(0)
  <2> DEFINE f == [i \in 0..0 |-> <<>>]
  <2>1. \A i \in 0..0 : KeptBody(q, P, f, i) = <<>>
    BY DEF KeptBody
  <2>2. f = [i \in 0..0 |-> KeptBody(q, P, f, i)]
    BY <2>1
  <2> QED
    BY <2>2 DEF Kept
<1>2. ASSUME NEW m \in Nat, Ex(m) PROVE Ex(m + 1)
  <2>1. PICK f : Kept(q, P, f, m)
    BY <1>2
  <2>2. \A i \in 0..m : f[i] = KeptBody(q, P, f, i)
    BY <2>1 DEF Kept
  <2> DEFINE g == [i \in 0..(m + 1) |-> IF i = m + 1 THEN KeptBody(q, P, f, m + 1) ELSE f[i]]
  <2>3. ASSUME NEW i \in 0..(m + 1) PROVE g[i] = KeptBody(q, P, g, i)
    <3>1. i # 0 => i - 1 \in 0..(m + 1) /\ i - 1 # m + 1 /\ g[i - 1] = f[i - 1]
      OBVIOUS
    <3>2. KeptBody(q, P, g, i) = KeptBody(q, P, f, i)
      BY <3>1 DEF KeptBody
    <3>3. i # m + 1 => i \in 0..m
      OBVIOUS
    <3> QED
      BY <2>2, <3>2, <3>3
  <2>4. Kept(q, P, g, m + 1)
    <3> DEFINE h == [i \in 0..(m + 1) |-> KeptBody(q, P, g, i)]
    <3>1. \A i \in 0..(m + 1) : g[i] = h[i]
      BY <2>3
    <3>2. g = [i \in 0..(m + 1) |-> g[i]] /\ h = [i \in 0..(m + 1) |-> h[i]]
      OBVIOUS
    <3> HIDE DEF g, h
    <3>3. g = h
      BY <3>1, <3>2
    <3> QED
      BY <3>3 DEF h, Kept
  <2> HIDE DEF g
  <2> QED
    BY <2>4
<1> HIDE DEF Ex
<1>3. Nat \subseteq S
  <2>1. 0 \in S /\ \A m \in Nat : m \in S => m + 1 \in S
    BY <1>1, <1>2
  <2> HIDE DEF S
  <2> QED
    BY <2>1, SetInduction
<1> QED
  BY <1>3 DEF Ex

DistinctParents(q) == \A i, j \in 1..Len(q) : q[i].parent = q[j].parent => i = j

Holds(q, g) == \E i \in 1..Len(q) : q[i] = g

(* Without keeps the other groups, and no two of them for one parent.        *)
LEMMA WithoutGroups ==
    ASSUME NEW G, NEW q \in Seq(G), DistinctParents(q), NEW P
    PROVE  LET w == Without(q, P)
           IN  /\ w \in Seq(G) /\ DistinctParents(w)
               /\ \A g : Holds(w, g) <=> Holds(q, g) /\ g.parent \notin P
<1> DEFINE n == Len(q)
<1>1. n \in Nat
  OBVIOUS
<1>2. PICK f : Kept(q, P, f, n) /\ Without(q, P) = f[n]
  <2> DEFINE F == CHOOSE f : Kept(q, P, f, n)
  <2>1. Kept(q, P, F, n)
    BY <1>1, KeptExists
  <2>2. Without(q, P) = F[n]
    BY DEF Without, Kept, KeptBody
  <2> QED
    BY <2>1, <2>2, Zenon
<1> DEFINE Upto(i) == /\ f[i] \in Seq(G) /\ DistinctParents(f[i])
                      /\ \A g : Holds(f[i], g) <=> (\E j \in 1..i : q[j] = g) /\ g.parent \notin P
           S == {i \in Nat : i <= n => Upto(i)}
<1>3. Upto(0)
  <2>1. f[0] = <<>>
    BY <1>1, <1>2 DEF Kept, KeptBody
  <2> QED
    BY <2>1 DEF DistinctParents, Holds
<1>4. ASSUME NEW m \in Nat, m + 1 <= n, Upto(m) PROVE Upto(m + 1)
  <2> DEFINE r == f[m]
             s == f[m + 1]
             x == q[m + 1]
  <2>1. m + 1 \in 1..n /\ x \in G
    BY <1>1, <1>4
  <2>2. \A g : (\E j \in 1..(m + 1) : q[j] = g) <=> (\E j \in 1..m : q[j] = g) \/ x = g
    <3>1. 1..(m + 1) = 1..m \cup {m + 1}
      OBVIOUS
    <3> QED
      BY <3>1
  <2>3. s = IF x.parent \in P THEN r ELSE Append(r, x)
    <3>1. s = KeptBody(q, P, f, m + 1)
      <4>1. \A i \in 0..n : f[i] = KeptBody(q, P, f, i)
        BY <1>2 DEF Kept
      <4>2. m + 1 \in 0..n
        BY <1>1, <1>4
      <4> QED
        BY <4>1, <4>2
    <3> QED
      BY <3>1 DEF KeptBody
  <2>4. /\ r \in Seq(G) /\ DistinctParents(r)
        /\ \A g : Holds(r, g) <=> (\E j \in 1..m : q[j] = g) /\ g.parent \notin P
    BY <1>4
  <2>5. ASSUME NEW i \in 1..Len(r) PROVE r[i].parent # x.parent
    <3>1. PICK j \in 1..m : q[j] = r[i]
      BY <2>4, Zenon DEF Holds
    <3>2. j \in 1..Len(q) /\ m + 1 \in 1..Len(q) /\ j # m + 1
      BY <1>1, <1>4
    <3> QED
      BY <3>1, <3>2 DEF DistinctParents
  <2> HIDE DEF r, s, x
  <2>6. CASE x.parent \in P
    <3>1. s = r
      BY <2>3, <2>6
    <3>2. \A g : Holds(s, g) <=> (\E j \in 1..(m + 1) : q[j] = g) /\ g.parent \notin P
      BY <2>2, <2>4, <2>6, <3>1, Zenon
    <3> QED
      BY <2>4, <3>1, <3>2 DEF s
  <2>7. CASE x.parent \notin P
    <3>1. s = Append(r, x)
      BY <2>3, <2>7
    <3>2. /\ s \in Seq(G) /\ Len(s) = Len(r) + 1 /\ Len(r) \in Nat
          /\ \A i \in 1..Len(r) : s[i] = r[i]
          /\ s[Len(r) + 1] = x
      BY <2>1, <2>4, <3>1
    <3>3. \A i \in 1..Len(s) : i \in 1..Len(r) \/ i = Len(r) + 1
      BY <3>2
    <3>4. ASSUME NEW g PROVE Holds(s, g) <=> Holds(r, g) \/ x = g
      <4>1. Holds(s, g) => Holds(r, g) \/ x = g
        BY <3>2, <3>3 DEF Holds
      <4>2. Holds(r, g) => Holds(s, g)
        BY <3>2 DEF Holds
      <4>3. x = g => Holds(s, g)
        BY <3>2 DEF Holds
      <4> QED
        BY <4>1, <4>2, <4>3
    <3>5. DistinctParents(s)
      <4> SUFFICES ASSUME NEW i \in 1..Len(s), NEW j \in 1..Len(s), s[i].parent = s[j].parent
                   PROVE  i = j
        BY Zenon DEF DistinctParents
      <4> QED
        BY <2>4, <2>5, <3>2, <3>3, Zenon DEF DistinctParents
    <3>6. \A g : Holds(s, g) <=> (\E j \in 1..(m + 1) : q[j] = g) /\ g.parent \notin P
      BY <2>2, <2>4, <2>7, <3>4, Zenon
    <3> QED
      BY <3>2, <3>5, <3>6 DEF s
  <2> QED
    BY <2>6, <2>7
<1> HIDE DEF Upto
<1>5. Nat \subseteq S
  <2>1. 0 \in S
    BY <1>3
  <2>2. ASSUME NEW m \in Nat, m \in S PROVE m + 1 \in S
    BY <1>1, <1>4, <2>2
  <2> HIDE DEF S
  <2> QED
    BY <2>1, <2>2, SetInduction
<1>6. Upto(n)
  BY <1>1, <1>5
<1> QED
  BY <1>2, <1>6, Zenon DEF Holds, Upto

-----------------------------------------------------------------------------
(* The orphan pool as a value: the queue q, the list l that is left on the   *)
(* call stack, and the hashes H.                                             *)

Entry == [block : Block \ {Genesis}, from : Peer]
Group == [parent : Block, list : Seq(Entry)]

DistinctBlocks(l) == \A i, j \in 1..Len(l) : l[i].block = l[j].block => i = j

GroupOK(g) ==
    /\ g.list # <<>> /\ DistinctBlocks(g.list)
    /\ \A k \in 1..Len(g.list) : Parent[g.list[k].block] = g.parent

QueueOK(q) == q \in Seq(Group) /\ DistinctParents(q) /\ \A i \in 1..Len(q) : GroupOK(q[i])

BlocksOf(l) == {l[i].block : i \in 1..Len(l)}
QueueBlocks(q) == UNION {BlocksOf(q[i].list) : i \in 1..Len(q)}

PoolOK(q, l, H) ==
    /\ QueueOK(q) /\ l \in Seq(Entry) /\ DistinctBlocks(l)
    /\ QueueBlocks(q) \cap BlocksOf(l) = {}
    /\ QueueBlocks(q) \cup BlocksOf(l) \subseteq H
    /\ IsFiniteSet(H) /\ Cardinality(H) <= MaxOrphans

Exact(q, l, H) == H = QueueBlocks(q) \cup BlocksOf(l)

LEMMA QueueMembers ==
    ASSUME NEW q, NEW x
    PROVE  x \in QueueBlocks(q) <=> \E g : Holds(q, g) /\ x \in BlocksOf(g.list)
  BY Zenon DEF QueueBlocks, Holds

LEMMA GroupFacts ==
    ASSUME NEW q, QueueOK(q), NEW g, Holds(q, g)
    PROVE  /\ g \in Group /\ GroupOK(g) /\ BlocksOf(g.list) # {}
           /\ \A x \in BlocksOf(g.list) : x \in Block \ {Genesis} /\ Parent[x] = g.parent
<1>1. g \in Group /\ GroupOK(g)
  BY DEF QueueOK, Holds
<1>2. g.list \in Seq(Entry) /\ g.list # <<>>
  BY <1>1 DEF Group, GroupOK
<1>3. 1 \in 1..Len(g.list) /\ \A k \in 1..Len(g.list) : g.list[k] \in Entry
  BY <1>2
<1>4. BlocksOf(g.list) # {}
  BY <1>3, Zenon DEF BlocksOf
<1>5. \A x \in BlocksOf(g.list) : x \in Block \ {Genesis} /\ Parent[x] = g.parent
  BY <1>1, <1>3, Zenon DEF BlocksOf, GroupOK, Entry
<1> QED
  BY <1>1, <1>4, <1>5

LEMMA QueueBlockTypes ==
    ASSUME NEW q, QueueOK(q)
    PROVE  QueueBlocks(q) \subseteq Block \ {Genesis}
  BY QueueMembers, GroupFacts

(* Taking groups off the queue.                                              *)
LEMMA WithoutQueue ==
    ASSUME NEW q, QueueOK(q), NEW P
    PROVE  /\ QueueOK(Without(q, P))
           /\ \A g : Holds(Without(q, P), g) <=> Holds(q, g) /\ g.parent \notin P
           /\ QueueBlocks(Without(q, P)) \subseteq QueueBlocks(q)
<1> DEFINE w == Without(q, P)
<1>1. /\ w \in Seq(Group) /\ DistinctParents(w)
      /\ \A g : Holds(w, g) <=> Holds(q, g) /\ g.parent \notin P
  BY WithoutGroups, Zenon DEF QueueOK
<1> HIDE DEF w
<1>2. \A i \in 1..Len(w) : GroupOK(w[i])
  <2> SUFFICES ASSUME NEW i \in 1..Len(w) PROVE GroupOK(w[i])
    OBVIOUS
  <2>1. Holds(q, w[i])
    BY <1>1 DEF Holds
  <2> QED
    BY <2>1, GroupFacts
<1>3. QueueBlocks(w) \subseteq QueueBlocks(q)
  BY <1>1, QueueMembers
<1> QED
  BY <1>1, <1>2, <1>3 DEF QueueOK, w

(* rejectBlock: if `gone` are the blocks of the groups taken off the queue.  *)
LEMMA RejectKeeps ==
    ASSUME NEW q, NEW l, NEW H, PoolOK(q, l, H), NEW P, NEW gone,
           \A x \in QueueBlocks(q) : Parent[x] \in P <=> x \in gone,
           gone \subseteq QueueBlocks(q)
    PROVE  /\ PoolOK(Without(q, P), l, H \ gone)
           /\ QueueBlocks(Without(q, P)) = QueueBlocks(q) \ gone
           /\ Exact(q, l, H) => Exact(Without(q, P), l, H \ gone)
<1> DEFINE w == Without(q, P)
<1>1. /\ QueueOK(q) /\ QueueOK(w) /\ QueueBlocks(w) \subseteq QueueBlocks(q)
      /\ \A g : Holds(w, g) <=> Holds(q, g) /\ g.parent \notin P
  BY WithoutQueue, Zenon DEF PoolOK
<1> HIDE DEF w
<1>2. QueueBlocks(w) = QueueBlocks(q) \ gone
  <2>1. ASSUME NEW x \in QueueBlocks(w) PROVE x \notin gone
    BY <1>1, QueueMembers, GroupFacts
  <2>2. ASSUME NEW x \in QueueBlocks(q), x \notin gone PROVE x \in QueueBlocks(w)
    BY <1>1, <2>2, QueueMembers, GroupFacts
  <2> QED
    BY <1>1, <2>1, <2>2, Zenon
<1>3. IsFiniteSet(H \ gone) /\ Cardinality(H \ gone) <= Cardinality(H)
  BY FS_Subset DEF PoolOK
<1>4. Cardinality(H \ gone) \in Nat /\ Cardinality(H) \in Nat
  BY <1>3, FS_CardinalityType, Zenon DEF PoolOK
<1>5. PoolOK(w, l, H \ gone)
  BY <1>1, <1>2, <1>3, <1>4, IntakeAssumption DEF PoolOK
<1>6. Exact(q, l, H) => Exact(w, l, H \ gone)
  BY <1>2, Zenon DEF Exact, PoolOK
<1> QED
  BY <1>2, <1>5, <1>6, Zenon DEF w

(* Lists one after the other.                                                *)
LEMMA ConcatLists ==
    ASSUME NEW k \in Seq(Entry), NEW l \in Seq(Entry), DistinctBlocks(k), DistinctBlocks(l),
           BlocksOf(k) \cap BlocksOf(l) = {}
    PROVE  /\ k \o l \in Seq(Entry) /\ DistinctBlocks(k \o l)
           /\ BlocksOf(k \o l) = BlocksOf(k) \cup BlocksOf(l)
<1> DEFINE c == k \o l
<1>1. /\ c \in Seq(Entry) /\ Len(c) = Len(k) + Len(l) /\ Len(k) \in Nat /\ Len(l) \in Nat
      /\ \A i \in 1..Len(k) : c[i] = k[i]
      /\ \A i \in 1..Len(l) : c[Len(k) + i] = l[i]
  OBVIOUS
<1> HIDE DEF c
<1>2. ASSUME NEW i \in 1..Len(c)
      PROVE  \/ i \in 1..Len(k) /\ c[i] = k[i]
             \/ i - Len(k) \in 1..Len(l) /\ c[i] = l[i - Len(k)]
  <2>1. i \in 1..Len(k) \/ (i - Len(k) \in 1..Len(l) /\ i = Len(k) + (i - Len(k)))
    BY <1>1
  <2> QED
    BY <1>1, <2>1, Zenon
<1>3. BlocksOf(c) = BlocksOf(k) \cup BlocksOf(l)
  <2>1. BlocksOf(c) \subseteq BlocksOf(k) \cup BlocksOf(l)
    BY <1>2, Zenon DEF BlocksOf
  <2>2. BlocksOf(k) \subseteq BlocksOf(c)
    <3>1. \A i \in 1..Len(k) : i \in 1..Len(c)
      BY <1>1
    <3> QED
      BY <1>1, <3>1, Zenon DEF BlocksOf
  <2>3. BlocksOf(l) \subseteq BlocksOf(c)
    <3>1. \A i \in 1..Len(l) : Len(k) + i \in 1..Len(c) /\ l[i].block = c[Len(k) + i].block
      BY <1>1
    <3> QED
      BY <3>1, Zenon DEF BlocksOf
  <2> QED
    BY <2>1, <2>2, <2>3
<1>4. DistinctBlocks(c)
  <2> SUFFICES ASSUME NEW i \in 1..Len(c), NEW j \in 1..Len(c), c[i].block = c[j].block
               PROVE  i = j
    BY DEF DistinctBlocks
  <2>1. \A m \in 1..Len(k), n \in 1..Len(l) : k[m].block # l[n].block
    BY Zenon DEF BlocksOf
  <2>2. CASE i \in 1..Len(k) /\ j \in 1..Len(k)
    BY <1>1, <2>2, Zenon DEF DistinctBlocks
  <2>3. CASE i \notin 1..Len(k) /\ j \notin 1..Len(k)
    <3>1. /\ i - Len(k) \in 1..Len(l) /\ c[i] = l[i - Len(k)]
          /\ j - Len(k) \in 1..Len(l) /\ c[j] = l[j - Len(k)]
      BY <1>2, <2>3
    <3>2. i - Len(k) = j - Len(k)
      BY <3>1, Zenon DEF DistinctBlocks
    <3> QED
      BY <1>1, <3>2
  <2>4. CASE i \in 1..Len(k) /\ j \notin 1..Len(k)
    <3>1. c[i] = k[i] /\ j - Len(k) \in 1..Len(l) /\ c[j] = l[j - Len(k)]
      BY <1>1, <1>2, <2>4
    <3> QED
      BY <2>1, <2>4, <3>1, Zenon
  <2>5. CASE i \notin 1..Len(k) /\ j \in 1..Len(k)
    <3>1. c[j] = k[j] /\ i - Len(k) \in 1..Len(l) /\ c[i] = l[i - Len(k)]
      BY <1>1, <1>2, <2>5, Zenon
    <3> QED
      BY <2>1, <2>5, <3>1, Zenon
  <2> QED
    BY <2>2, <2>3, <2>4, <2>5, Zenon
<1> QED
  BY <1>1, <1>3, <1>4, Zenon DEF c

LEMMA TailList ==
    ASSUME NEW l \in Seq(Entry), l # <<>>, DistinctBlocks(l)
    PROVE  /\ Tail(l) \in Seq(Entry) /\ DistinctBlocks(Tail(l)) /\ Head(l) \in Entry
           /\ BlocksOf(Tail(l)) = BlocksOf(l) \ {Head(l).block}
           /\ Head(l).block \in BlocksOf(l)
<1> DEFINE t == Tail(l)
<1>1. /\ t \in Seq(Entry) /\ Len(l) \in Nat \ {0} /\ Len(t) = Len(l) - 1
      /\ \A i \in 1..Len(t) : t[i] = l[i + 1]
      /\ Head(l) = l[1] /\ Head(l) \in Entry /\ 1 \in 1..Len(l)
  OBVIOUS
<1> HIDE DEF t
<1>2. \A i \in 1..Len(t) : i + 1 \in 1..Len(l) /\ i + 1 # 1
  BY <1>1
<1>3. \A i \in 1..Len(l) : i = 1 \/ (i - 1 \in 1..Len(t) /\ t[i - 1] = l[i])
  BY <1>1
<1>4. DistinctBlocks(t)
  <2> SUFFICES ASSUME NEW i \in 1..Len(t), NEW j \in 1..Len(t), t[i].block = t[j].block
               PROVE  i = j
    BY Zenon DEF DistinctBlocks
  <2>1. i + 1 = j + 1
    BY <1>1, <1>2 DEF DistinctBlocks
  <2> QED
    BY <2>1
<1>5. BlocksOf(t) \subseteq BlocksOf(l) \ {Head(l).block}
  <2> SUFFICES ASSUME NEW i \in 1..Len(t)
               PROVE  t[i].block \in BlocksOf(l) /\ t[i].block # l[1].block
    BY <1>1, Zenon DEF BlocksOf
  <2> QED
    BY <1>1, <1>2, Zenon DEF BlocksOf, DistinctBlocks
<1>6. BlocksOf(l) \ {Head(l).block} \subseteq BlocksOf(t)
  BY <1>1, <1>3 DEF BlocksOf
<1>7. Head(l).block \in BlocksOf(l)
  BY <1>1 DEF BlocksOf
<1> QED
  BY <1>1, <1>4, <1>5, <1>6, <1>7 DEF t

(* resolveOrphansOf moves a group from the queue to the call stack.          *)
LEMMA ResolveKeeps ==
    ASSUME NEW q, NEW l, NEW H, PoolOK(q, l, H), NEW b
    PROVE  LET at == {i \in 1..Len(q) : q[i].parent = b}
               m == IF at = {} THEN l ELSE q[CHOOSE i \in at : TRUE].list \o l
           IN  /\ PoolOK(Without(q, {b}), m, H)
               /\ Exact(q, l, H) => Exact(Without(q, {b}), m, H)
<1> DEFINE w == Without(q, {b})
           at == {i \in 1..Len(q) : q[i].parent = b}
           m == IF at = {} THEN l ELSE q[CHOOSE i \in at : TRUE].list \o l
<1>1. /\ QueueOK(q) /\ QueueOK(w) /\ QueueBlocks(w) \subseteq QueueBlocks(q)
      /\ \A g : Holds(w, g) <=> Holds(q, g) /\ g.parent \notin {b}
  BY WithoutQueue DEF PoolOK
<1> HIDE DEF w
<1> SUFFICES /\ m \in Seq(Entry) /\ DistinctBlocks(m)
             /\ QueueBlocks(w) \cap BlocksOf(m) = {}
             /\ QueueBlocks(w) \cup BlocksOf(m) = QueueBlocks(q) \cup BlocksOf(l)
  BY <1>1, Zenon DEF PoolOK, Exact, w
<1>2. CASE at = {}
  <2>1. \A g : Holds(q, g) => g.parent # b
    BY <1>2 DEF Holds
  <2>2. QueueBlocks(w) = QueueBlocks(q)
    BY <1>1, <2>1, QueueMembers, Zenon
  <2> QED
    BY <1>2, <2>2 DEF PoolOK
<1>3. CASE at # {}
  <2> DEFINE g == q[CHOOSE i \in at : TRUE]
  <2>1. Holds(q, g) /\ g.parent = b /\ m = g.list \o l
    BY <1>3, Zenon DEF Holds
  <2> HIDE DEF g, m
  <2>2. g \in Group /\ GroupOK(g)
    BY <1>1, <2>1, GroupFacts, Zenon
  <2>3. g.list \in Seq(Entry) /\ DistinctBlocks(g.list)
    BY <2>2 DEF Group, GroupOK
  <2>4. BlocksOf(g.list) \subseteq QueueBlocks(q)
    BY <2>1, QueueMembers, Zenon
  <2>5. /\ m \in Seq(Entry) /\ DistinctBlocks(m)
        /\ BlocksOf(m) = BlocksOf(g.list) \cup BlocksOf(l)
    BY <2>1, <2>3, <2>4, ConcatLists, Zenon DEF PoolOK
  <2>6. \A h : Holds(q, h) /\ h.parent = b => h = g
    BY <1>1, <2>1 DEF QueueOK, DistinctParents, Holds
  <2>7. QueueBlocks(q) = QueueBlocks(w) \cup BlocksOf(g.list)
    BY <1>1, <2>1, <2>4, <2>6, QueueMembers, Zenon
  <2>8. QueueBlocks(w) \cap BlocksOf(g.list) = {}
    <3> SUFFICES ASSUME NEW x \in QueueBlocks(w), x \in BlocksOf(g.list) PROVE FALSE
      OBVIOUS
    <3>1. PICK h : Holds(w, h) /\ x \in BlocksOf(h.list)
      BY QueueMembers, Zenon
    <3>2. Parent[x] = h.parent /\ h.parent # b
      BY <1>1, <3>1, GroupFacts, Zenon
    <3> QED
      BY <1>1, <2>1, <3>2, GroupFacts
  <2> QED
    BY <1>1, <2>5, <2>7, <2>8 DEF PoolOK
<1> QED
  BY <1>2, <1>3, Zenon

Joined(q, b, p) ==
    [i \in 1..Len(q) |->
        IF q[i].parent = Parent[b]
        THEN [q[i] EXCEPT !.list = Append(@, [block |-> b, from |-> p])] ELSE q[i]]

(* queueOrphan: a block that is not queued yet joins the group of its parent *)
(* or a group of its own.                                                    *)
LEMMA JoinGroup ==
    ASSUME NEW q, QueueOK(q), NEW b \in Block \ {Genesis}, NEW p \in Peer, b \notin QueueBlocks(q),
           NEW j \in 1..Len(q), q[j].parent = Parent[b]
    PROVE  /\ QueueOK(Joined(q, b, p)) /\ Joined(q, b, p) # <<>>
           /\ QueueBlocks(Joined(q, b, p)) = QueueBlocks(q) \cup {b}
<1> DEFINE entry == [block |-> b, from |-> p]
           r == [i \in 1..Len(q) |->
                    IF q[i].parent = Parent[b]
                    THEN [q[i] EXCEPT !.list = Append(@, entry)] ELSE q[i]]
           n == Len(q)
<1>1. q \in Seq(Group) /\ n \in Nat /\ entry \in Entry /\ entry.block = b
  BY DEF QueueOK, Entry
<1>2. \A i \in 1..n : q[i] \in Group /\ GroupOK(q[i]) /\ q[i].list \in Seq(Entry)
  <2> SUFFICES ASSUME NEW i \in 1..n PROVE q[i] \in Group /\ GroupOK(q[i]) /\ q[i].list \in Seq(Entry)
    OBVIOUS
  <2>1. Holds(q, q[i])
    BY Zenon DEF Holds
  <2>2. q[i] \in Group /\ GroupOK(q[i])
    BY <2>1, GroupFacts
  <2> QED
    BY <2>2, Zenon DEF Group
<1>3. \A i \in 1..n : i # j => q[i].parent # Parent[b]
  BY Zenon DEF QueueOK, DistinctParents
<1> DEFINE old == q[j].list
           new == Append(old, entry)
<1>4. /\ old \in Seq(Entry) /\ new \in Seq(Entry) /\ Len(new) = Len(old) + 1 /\ Len(old) \in Nat
      /\ \A k \in 1..Len(old) : new[k] = old[k]
      /\ new[Len(old) + 1] = entry
  BY <1>1, <1>2
<1> HIDE DEF new
<1>5. \A k \in 1..Len(new) : k \in 1..Len(old) \/ k = Len(old) + 1
  BY <1>4
<1>6. r[j] = [parent |-> Parent[b], list |-> new]
  BY <1>2, Zenon DEF Group, new
<1>7. \A i \in 1..n : i # j => r[i] = q[i]
  BY <1>3
<1>8. r \in Seq(Group) /\ Len(r) = n
  <2>1. r[j] \in Group
    BY <1>4, <1>6, IntakeAssumption DEF Group
  <2>2. \A i \in 1..n : r[i] \in Group
    BY <1>2, <1>7, <2>1, Zenon
  <2>3. r = [i \in 1..n |-> r[i]]
    BY Zenon
  <2> HIDE DEF r
  <2> QED
    BY <1>1, <2>2, <2>3
<1> HIDE DEF r, entry, n
<1>9. BlocksOf(new) = BlocksOf(old) \cup {b}
  <2>1. BlocksOf(new) \subseteq BlocksOf(old) \cup {b}
    BY <1>1, <1>4, <1>5, Zenon DEF BlocksOf
  <2>2. \A k \in 1..Len(old) : k \in 1..Len(new)
    BY <1>4
  <2>3. Len(old) + 1 \in 1..Len(new)
    BY <1>4
  <2>4. BlocksOf(old) \subseteq BlocksOf(new)
    BY <1>4, <2>2, Zenon DEF BlocksOf
  <2>5. b \in BlocksOf(new)
    BY <1>1, <1>4, <2>3, Zenon DEF BlocksOf
  <2> QED
    BY <2>1, <2>4, <2>5
<1>10. DistinctBlocks(new)
  <2>1. \A k \in 1..Len(old) : old[k].block # b
    <3>1. Holds(q, q[j])
      BY DEF Holds, n
    <3>2. BlocksOf(old) \subseteq QueueBlocks(q)
      BY <3>1, QueueMembers, Zenon
    <3> QED
      BY <3>2, Zenon DEF BlocksOf
  <2>2. DistinctBlocks(old)
    BY <1>2, Zenon DEF GroupOK, n
  <2> SUFFICES ASSUME NEW i \in 1..Len(new), NEW k \in 1..Len(new), new[i].block = new[k].block
               PROVE  i = k
    BY Zenon DEF DistinctBlocks
  <2> HIDE DEF old
  <2> QED
    BY <1>1, <1>4, <1>5, <2>1, <2>2, Zenon DEF DistinctBlocks
<1>11. GroupOK(r[j])
  <2>1. \A k \in 1..Len(old) : Parent[old[k].block] = Parent[b]
    BY <1>2 DEF GroupOK, n
  <2>2. \A k \in 1..Len(new) : Parent[new[k].block] = Parent[b]
    BY <1>1, <1>4, <1>5, <2>1, Zenon
  <2>3. new # <<>>
    BY <1>4
  <2> QED
    BY <1>6, <1>10, <2>2, <2>3 DEF GroupOK
<1>12. QueueOK(r)
  <2>1. \A i \in 1..n : GroupOK(r[i]) /\ r[i].parent = q[i].parent
    BY <1>2, <1>6, <1>7, <1>11
  <2> QED
    BY <1>8, <2>1, Zenon DEF QueueOK, DistinctParents, n
<1>13. QueueBlocks(r) = QueueBlocks(q) \cup {b}
  <2>1. /\ BlocksOf(r[j].list) = BlocksOf(q[j].list) \cup {b}
        /\ \A i \in 1..n : i # j => BlocksOf(r[i].list) = BlocksOf(q[i].list)
    BY <1>6, <1>7, <1>9
  <2>2. j \in 1..n
    BY Zenon DEF n
  <2>3. /\ QueueBlocks(r) = UNION {BlocksOf(r[i].list) : i \in 1..n}
        /\ QueueBlocks(q) = UNION {BlocksOf(q[i].list) : i \in 1..n}
    BY <1>8 DEF QueueBlocks, n
  <2>4. \A x : x \in QueueBlocks(r) <=> \E i \in 1..n : x \in BlocksOf(r[i].list)
    BY <2>3
  <2>5. \A x : x \in QueueBlocks(q) <=> \E i \in 1..n : x \in BlocksOf(q[i].list)
    BY <2>3, Zenon
  <2>6. ASSUME NEW x \in QueueBlocks(r) PROVE x \in QueueBlocks(q) \cup {b}
    BY <2>1, <2>2, <2>4, <2>5, Zenon
  <2>7. ASSUME NEW x \in QueueBlocks(q) \cup {b} PROVE x \in QueueBlocks(r)
    BY <2>1, <2>2, <2>4, <2>5
  <2> QED
    BY <2>6, <2>7, Zenon
<1>14. r # <<>>
  BY <1>1, <1>8 DEF n
<1> QED
  BY <1>12, <1>13, <1>14, Zenon DEF r, entry, Joined

LEMMA NewGroup ==
    ASSUME NEW q, QueueOK(q), NEW b \in Block \ {Genesis}, NEW p \in Peer,
           \A i \in 1..Len(q) : q[i].parent # Parent[b]
    PROVE  LET r == Append(q, [parent |-> Parent[b], list |-> <<[block |-> b, from |-> p]>>])
           IN  /\ QueueOK(r) /\ r # <<>>
               /\ QueueBlocks(r) = QueueBlocks(q) \cup {b}
<1> DEFINE entry == [block |-> b, from |-> p]
           g == [parent |-> Parent[b], list |-> <<entry>>]
           r == Append(q, g)
<1>1. entry \in Entry /\ entry.block = b
  BY Zenon DEF Entry
<1>2. g \in Group /\ GroupOK(g) /\ g.parent = Parent[b] /\ BlocksOf(g.list) = {b}
  <2>1. <<entry>> \in Seq(Entry) /\ Len(<<entry>>) = 1 /\ <<entry>>[1] = entry /\ <<entry>> # <<>>
    BY <1>1
  <2>2. g \in Group
    BY <2>1, IntakeAssumption DEF Group
  <2>3. 1..1 = {1}
    OBVIOUS
  <2> HIDE DEF entry
  <2>4. BlocksOf(g.list) = {b} /\ GroupOK(g)
    BY <1>1, <2>1, <2>3, Zenon DEF BlocksOf, GroupOK, DistinctBlocks
  <2> QED
    BY <2>2, <2>4, Zenon
<1> HIDE DEF g
<1>3. /\ r \in Seq(Group) /\ Len(r) = Len(q) + 1 /\ Len(q) \in Nat
      /\ \A i \in 1..Len(q) : r[i] = q[i]
      /\ r[Len(q) + 1] = g
  BY <1>2 DEF QueueOK
<1> HIDE DEF r
<1>4. \A i \in 1..Len(r) : i \in 1..Len(q) \/ i = Len(q) + 1
  BY <1>3
<1>5. QueueOK(r)
  <2>1. DistinctParents(r)
    <3> SUFFICES ASSUME NEW i \in 1..Len(r), NEW k \in 1..Len(r), r[i].parent = r[k].parent
                 PROVE  i = k
      BY Zenon DEF DistinctParents
    <3> QED
      BY <1>2, <1>3, <1>4, Zenon DEF QueueOK, DistinctParents
  <2> QED
    BY <1>2, <1>3, <1>4, <2>1 DEF QueueOK
<1>6. QueueBlocks(r) = QueueBlocks(q) \cup {b}
  <2>1. \A i \in 1..Len(q) : i \in 1..Len(r)
    BY <1>3
  <2>2. Len(q) + 1 \in 1..Len(r)
    BY <1>3
  <2>3. QueueBlocks(r) \subseteq QueueBlocks(q) \cup {b}
    BY <1>2, <1>3, <1>4 DEF QueueBlocks
  <2>4. QueueBlocks(q) \subseteq QueueBlocks(r)
    BY <1>3, <2>1, Zenon DEF QueueBlocks
  <2>5. b \in QueueBlocks(r)
    BY <1>2, <1>3, <2>2, Zenon DEF QueueBlocks
  <2> QED
    BY <2>3, <2>4, <2>5
<1>7. r # <<>>
  BY <1>3
<1> QED
  BY <1>5, <1>6, <1>7 DEF r, g

(* The oldest group leaves: its blocks are those of no other group.          *)
LEMMA DropOldest ==
    ASSUME NEW q, QueueOK(q), q # <<>>
    PROVE  /\ QueueOK(Tail(q)) /\ BlocksOf(Head(q).list) \subseteq QueueBlocks(q)
           /\ BlocksOf(Head(q).list) # {}
           /\ QueueBlocks(Tail(q)) = QueueBlocks(q) \ BlocksOf(Head(q).list)
<1> DEFINE t == Tail(q)
<1>1. /\ t \in Seq(Group) /\ Len(q) \in Nat \ {0} /\ Len(t) = Len(q) - 1
      /\ \A i \in 1..Len(t) : t[i] = q[i + 1]
      /\ Head(q) = q[1] /\ 1 \in 1..Len(q)
  BY DEF QueueOK
<1> HIDE DEF t
<1>2. \A i \in 1..Len(t) : i + 1 \in 1..Len(q) /\ i + 1 # 1
  BY <1>1
<1>3. \A i \in 1..Len(q) : i = 1 \/ (i - 1 \in 1..Len(t) /\ t[i - 1] = q[i])
  BY <1>1
<1>4. DistinctParents(t)
  <2> SUFFICES ASSUME NEW i \in 1..Len(t), NEW j \in 1..Len(t), t[i].parent = t[j].parent
               PROVE  i = j
    BY DEF DistinctParents
  <2>1. i + 1 = j + 1
    BY <1>1, <1>2 DEF QueueOK, DistinctParents
  <2> QED
    BY <2>1
<1>5. QueueOK(t)
  BY <1>1, <1>2, <1>4, Zenon DEF QueueOK
<1>6. Holds(q, q[1])
  BY <1>1, Zenon DEF Holds
<1>7. BlocksOf(q[1].list) \subseteq QueueBlocks(q) /\ BlocksOf(q[1].list) # {}
  BY <1>6, QueueMembers, GroupFacts, Zenon
<1>8. ASSUME NEW x \in QueueBlocks(t) PROVE x \in QueueBlocks(q) /\ x \notin BlocksOf(q[1].list)
  <2>1. PICK i \in 1..Len(t) : x \in BlocksOf(t[i].list)
    BY DEF QueueBlocks
  <2>2. Holds(q, q[i + 1]) /\ t[i] = q[i + 1]
    BY <1>1, <1>2, Zenon DEF Holds
  <2>3. x \in QueueBlocks(q) /\ Parent[x] = q[i + 1].parent
    BY <2>1, <2>2, QueueMembers, GroupFacts
  <2>4. q[i + 1].parent # q[1].parent
    BY <1>1, <1>2 DEF QueueOK, DistinctParents
  <2> QED
    BY <1>6, <2>3, <2>4, GroupFacts
<1>9. ASSUME NEW x \in QueueBlocks(q), x \notin BlocksOf(q[1].list) PROVE x \in QueueBlocks(t)
  <2>1. PICK i \in 1..Len(q) : x \in BlocksOf(q[i].list)
    BY DEF QueueBlocks
  <2>2. i - 1 \in 1..Len(t) /\ t[i - 1] = q[i]
    BY <1>3, <1>9, <2>1, Zenon
  <2> QED
    BY <2>1, <2>2 DEF QueueBlocks
<1> QED
  BY <1>1, <1>5, <1>7, <1>8, <1>9 DEF t

LEMMA QueueKeeps ==
    ASSUME NEW b \in Block \ {Genesis}, NEW p \in Peer, NEW l, NEW H, PoolOK(waiting, l, H),
           QueueOrphan(b, p, H)
    PROVE  /\ PoolOK(waiting', l, orphanHashes')
           /\ Exact(waiting, l, H) => Exact(waiting', l, orphanHashes')
<1>1. CASE b \in H
  <2>1. waiting' = waiting /\ orphanHashes' = H
    BY <1>1, Zenon DEF QueueOrphan
  <2> QED
    BY <2>1
<1>2. CASE b \notin H
  <2> DEFINE entry == [block |-> b, from |-> p]
             hasGroup == \E i \in 1..Len(waiting) : waiting[i].parent = Parent[b]
             queue == IF hasGroup
                      THEN [i \in 1..Len(waiting) |->
                              IF waiting[i].parent = Parent[b]
                              THEN [waiting[i] EXCEPT !.list = Append(@, entry)] ELSE waiting[i]]
                      ELSE Append(waiting, [parent |-> Parent[b], list |-> <<entry>>])
             K == H \cup {b}
             drop == OverLimit(K)
             oldest == BlocksOf(Head(queue).list)
  <2>1. /\ waiting' = IF drop THEN Tail(queue) ELSE queue
        /\ orphanHashes' = IF drop THEN K \ oldest ELSE K
    BY <1>2, Zenon DEF QueueOrphan, Forget, BlocksOf
  <2>2. b \notin QueueBlocks(waiting) /\ b \notin BlocksOf(l) /\ QueueOK(waiting)
    BY <1>2 DEF PoolOK
  <2>3. QueueOK(queue) /\ queue # <<>> /\ QueueBlocks(queue) = QueueBlocks(waiting) \cup {b}
    <3>1. CASE hasGroup
      <4>1. queue = Joined(waiting, b, p)
        BY <3>1, Zenon DEF Joined
      <4>2. PICK j \in 1..Len(waiting) : waiting[j].parent = Parent[b]
        BY <3>1
      <4> QED
        BY <2>2, <4>1, <4>2, JoinGroup, Zenon
    <3>2. CASE ~hasGroup
      BY <2>2, <3>2, NewGroup, Zenon
    <3> QED
      BY <3>1, <3>2, Zenon
  <2> HIDE DEF queue, entry, hasGroup
  <2>4. IsFiniteSet(H) /\ Cardinality(H) <= MaxOrphans /\ Cardinality(H) \in Nat
    BY FS_CardinalityType, Zenon DEF PoolOK
  <2>5. IsFiniteSet(K) /\ Cardinality(K) = Cardinality(H) + 1 /\ Cardinality(K) \in Nat
    BY <1>2, <2>4, FS_AddElement
  <2>6. QueueBlocks(queue) \cap BlocksOf(l) = {} /\ QueueBlocks(queue) \cup BlocksOf(l) \subseteq K
    BY <2>2, <2>3 DEF PoolOK
  <2>7. Exact(waiting, l, H) => K = QueueBlocks(queue) \cup BlocksOf(l)
    BY <2>3 DEF Exact
  <2>8. l \in Seq(Entry) /\ DistinctBlocks(l)
    BY Zenon DEF PoolOK
  <2> HIDE DEF K, oldest
  <2>9. CASE ~drop
    <3>1. waiting' = queue /\ orphanHashes' = K
      BY <2>1, <2>9, Zenon
    <3>2. Cardinality(K) <= MaxOrphans
      BY <2>5, <2>9, IntakeAssumption DEF OverLimit
    <3> QED
      BY <3>1, <3>2, <2>3, <2>5, <2>6, <2>7, <2>8 DEF PoolOK, Exact
  <2>10. CASE drop
    <3>1. waiting' = Tail(queue) /\ orphanHashes' = K \ oldest
      BY <2>1, <2>10, Zenon
    <3>2. /\ QueueOK(Tail(queue)) /\ oldest \subseteq QueueBlocks(queue) /\ oldest # {}
          /\ QueueBlocks(Tail(queue)) = QueueBlocks(queue) \ oldest
      BY <2>3, DropOldest DEF oldest
    <3>3. K \ oldest \subseteq K /\ K \ oldest # K
      BY <2>6, <3>2, Zenon
    <3>4. /\ IsFiniteSet(K \ oldest) /\ Cardinality(K \ oldest) <= Cardinality(K)
          /\ Cardinality(K) # Cardinality(K \ oldest)
      BY <2>5, <3>3, FS_Subset
    <3>5. Cardinality(K \ oldest) \in Nat
      BY <3>4, FS_CardinalityType, Zenon
    <3>6. Cardinality(K \ oldest) <= MaxOrphans
      BY <2>4, <2>5, <3>4, <3>5, IntakeAssumption
    <3> QED
      BY <3>1, <3>2, <3>4, <3>6, <2>6, <2>7, <2>8 DEF PoolOK, Exact
  <2> QED
    BY <2>9, <2>10
<1> QED
  BY <1>1, <1>2

-----------------------------------------------------------------------------
(* The entries themselves, with their senders.                               *)

EntriesOf(l) == {l[i] : i \in 1..Len(l)}
QueueEntries(q) == UNION {EntriesOf(q[i].list) : i \in 1..Len(q)}

LEMMA EntriesAre ==
    /\ Entries = QueueEntries(waiting)
    /\ WaitingBlocks = QueueBlocks(waiting)
    /\ \A x \in WaitingBlocks : \E e \in Entries : e.block = x
<1>1. Entries = QueueEntries(waiting)
  BY DEF Entries, QueueEntries, EntriesOf
<1>2. WaitingBlocks = QueueBlocks(waiting)
  BY DEF WaitingBlocks, Entries, QueueBlocks, BlocksOf
<1> QED
  BY <1>1, <1>2 DEF WaitingBlocks

LEMMA EntriesWithout ==
    ASSUME NEW q, QueueOK(q), NEW P
    PROVE  QueueEntries(Without(q, P)) \subseteq QueueEntries(q)
<1> DEFINE w == Without(q, P)
<1>1. \A g : Holds(w, g) => Holds(q, g)
  BY WithoutQueue
<1> HIDE DEF w
<1>2. \A i \in 1..Len(w) : \E j \in 1..Len(q) : q[j] = w[i]
  BY <1>1, Zenon DEF Holds
<1>3. QueueEntries(w) \subseteq QueueEntries(q)
  BY <1>2, Zenon DEF QueueEntries
<1> QED
  BY <1>3 DEF w

LEMMA EntriesConcat ==
    ASSUME NEW k \in Seq(Entry), NEW l \in Seq(Entry)
    PROVE  EntriesOf(k \o l) \subseteq EntriesOf(k) \cup EntriesOf(l)
<1> DEFINE c == k \o l
<1>1. /\ Len(c) = Len(k) + Len(l) /\ Len(k) \in Nat /\ Len(l) \in Nat
      /\ \A i \in 1..Len(k) : c[i] = k[i]
      /\ \A i \in 1..Len(l) : c[Len(k) + i] = l[i]
  OBVIOUS
<1> HIDE DEF c
<1>2. ASSUME NEW i \in 1..Len(c) PROVE c[i] \in EntriesOf(k) \cup EntriesOf(l)
  <2>1. i \in 1..Len(k) \/ (i - Len(k) \in 1..Len(l) /\ i = Len(k) + (i - Len(k)))
    BY <1>1
  <2> QED
    BY <1>1, <2>1, Zenon DEF EntriesOf
<1> QED
  BY <1>2, Zenon DEF EntriesOf, c

(* queueOrphan adds no other entry than its own.                             *)
LEMMA EntriesQueued ==
    ASSUME NEW b \in Block \ {Genesis}, NEW p \in Peer, NEW H, QueueOK(waiting),
           QueueOrphan(b, p, H)
    PROVE  QueueEntries(waiting') \subseteq QueueEntries(waiting) \cup {[block |-> b, from |-> p]}
<1> DEFINE entry == [block |-> b, from |-> p]
           allowed == QueueEntries(waiting) \cup {entry}
           g == [parent |-> Parent[b], list |-> <<entry>>]
           hasGroup == \E i \in 1..Len(waiting) : waiting[i].parent = Parent[b]
           queue == IF hasGroup THEN Joined(waiting, b, p) ELSE Append(waiting, g)
<1>1. waiting' \in {waiting, queue, Tail(queue)}
  BY Zenon DEF QueueOrphan, Joined
<1>2. waiting \in Seq(Group) /\ Len(waiting) \in Nat
  BY DEF QueueOK
<1>3. \A i \in 1..Len(waiting) : EntriesOf(waiting[i].list) \subseteq allowed
  BY Zenon DEF QueueEntries
<1>4. \A i \in 1..Len(waiting) : waiting[i] \in Group /\ waiting[i].list \in Seq(Entry)
  <2>1. \A i \in 1..Len(waiting) : waiting[i] \in Group
    BY <1>2
  <2> QED
    BY <2>1 DEF Group
<1>5. /\ queue \in Seq(Group) /\ queue # <<>>
      /\ \A i \in 1..Len(queue) : EntriesOf(queue[i].list) \subseteq allowed
  <2>1. CASE hasGroup
    <3>1. queue = Joined(waiting, b, p)
      BY <2>1, Zenon
    <3>2. ASSUME NEW i \in 1..Len(waiting)
          PROVE  /\ Joined(waiting, b, p)[i] \in Group
                 /\ EntriesOf(Joined(waiting, b, p)[i].list) \subseteq allowed
      <4>1. CASE waiting[i].parent = Parent[b]
        <5> DEFINE new == Append(waiting[i].list, entry)
        <5>1. Joined(waiting, b, p)[i] = [waiting[i] EXCEPT !.list = new]
          BY <4>1 DEF Joined
        <5>2. entry \in Entry
          BY Zenon DEF Entry
        <5>3. /\ new \in Seq(Entry) /\ Len(new) = Len(waiting[i].list) + 1
              /\ Len(waiting[i].list) \in Nat
              /\ \A k \in 1..Len(waiting[i].list) : new[k] = waiting[i].list[k]
              /\ new[Len(waiting[i].list) + 1] = entry
          BY <1>4, <5>2
        <5> HIDE DEF new, entry
        <5>4. Joined(waiting, b, p)[i] = [parent |-> waiting[i].parent, list |-> new]
          BY <1>4, <5>1, Zenon DEF Group
        <5>5. Joined(waiting, b, p)[i] \in Group
          BY <1>4, <5>3, <5>4 DEF Group
        <5>6. \A k \in 1..Len(new) : k \in 1..Len(waiting[i].list) \/ k = Len(waiting[i].list) + 1
          BY <5>3
        <5>7. EntriesOf(new) \subseteq EntriesOf(waiting[i].list) \cup {entry}
          BY <5>3, <5>6, Zenon DEF EntriesOf
        <5> QED
          BY <1>3, <5>4, <5>5, <5>7
      <4>2. CASE waiting[i].parent # Parent[b]
        BY <1>3, <1>4, <4>2 DEF Joined
      <4> QED
        BY <4>1, <4>2, Zenon
    <3>3. /\ Joined(waiting, b, p) \in Seq(Group)
          /\ Len(Joined(waiting, b, p)) = Len(waiting)
      <4>1. Joined(waiting, b, p) = [i \in 1..Len(waiting) |-> Joined(waiting, b, p)[i]]
        BY Zenon DEF Joined
      <4> QED
        BY <1>2, <3>2, <4>1
    <3>4. Joined(waiting, b, p) # <<>>
      BY <1>2, <2>1, <3>3
    <3> QED
      BY <3>1, <3>2, <3>3, <3>4, Zenon
  <2>2. CASE ~hasGroup
    <3>1. entry \in Entry
      BY Zenon DEF Entry
    <3>2. g \in Group /\ EntriesOf(g.list) \subseteq allowed
      <4>1. <<entry>> \in Seq(Entry) /\ Len(<<entry>>) = 1 /\ <<entry>>[1] = entry
        BY <3>1
      <4>2. 1..1 = {1}
        OBVIOUS
      <4>3. g \in Group
        BY <4>1, IntakeAssumption, Zenon DEF Group
      <4> HIDE DEF entry
      <4> QED
        BY <4>1, <4>2, <4>3, Zenon DEF EntriesOf
    <3> HIDE DEF g
    <3>3. /\ queue \in Seq(Group) /\ queue = Append(waiting, g) /\ Len(queue) = Len(waiting) + 1
          /\ \A i \in 1..Len(waiting) : queue[i] = waiting[i]
          /\ queue[Len(waiting) + 1] = g
      BY <1>2, <2>2, <3>2
    <3> HIDE DEF queue, allowed
    <3>4. \A i \in 1..Len(queue) : i \in 1..Len(waiting) \/ i = Len(waiting) + 1
      BY <1>2, <3>3
    <3>5. queue # <<>>
      BY <1>2, <3>3
    <3> QED
      BY <1>3, <3>2, <3>3, <3>4, <3>5
  <2> QED
    BY <2>1, <2>2, Zenon
<1> HIDE DEF queue, allowed
<1>6. \A i \in 1..Len(Tail(queue)) : EntriesOf(Tail(queue)[i].list) \subseteq allowed
  <2>1. \A i \in 1..Len(Tail(queue)) : i + 1 \in 1..Len(queue) /\ Tail(queue)[i] = queue[i + 1]
    BY <1>5
  <2> QED
    BY <1>5, <2>1, Zenon
<1>7. \A i \in 1..Len(waiting') : EntriesOf(waiting'[i].list) \subseteq allowed
  BY <1>1, <1>3, <1>5, <1>6, Zenon
<1> QED
  BY <1>7, Zenon DEF QueueEntries, allowed

-----------------------------------------------------------------------------
(* rejectBlock dooms exactly the queued blocks that wait for a doomed one.   *)

BehindBlocks(b) == {e.block : e \in Behind(b)}

LEMMA BehindMembers ==
    ASSUME NEW b, NEW x
    PROVE  x \in BehindBlocks(b) <=>
             /\ x \in QueueBlocks(waiting) /\ b \in Chain[x] /\ b # x
             /\ \A y \in Chain[x] \ (Chain[b] \cup {x}) : y \in QueueBlocks(waiting)
<1>1. WaitingBlocks = QueueBlocks(waiting)
  BY EntriesAre
<1>2. x \in BehindBlocks(b) => \E e \in Entries : e.block = x
  BY Zenon DEF BehindBlocks, Behind
<1> QED
  BY <1>1, <1>2 DEF BehindBlocks, Behind, WaitingBlocks

LEMMA DoomedByParent ==
    ASSUME NEW b \in Block, QueueOK(waiting), NEW x \in QueueBlocks(waiting)
    PROVE  Parent[x] \in {b} \cup BehindBlocks(b) <=> x \in BehindBlocks(b)
<1> DEFINE u == Parent[x]
<1>1. x \in Block \ {Genesis}
  BY QueueBlockTypes
<1>2. u \in Block /\ Height[x] = Height[u] + 1 /\ Height[u] \in Nat
  BY <1>1, Parents, Zenon
<1>3. Chain[x] = {x} \cup Chain[u] /\ u \in Chain[u]
  BY <1>1, <1>2, ChainStep, Zenon
<1>4. x # u
  BY <1>2
<1>5. \A y \in Chain[u] : y # x
  BY <1>2, Ancestry
<1> HIDE DEF u
<1>6. CASE u = b
  BY <1>3, <1>4, <1>6, BehindMembers, Zenon DEF u
<1>7. CASE u # b /\ u \in BehindBlocks(b)
  BY <1>3, <1>5, <1>7, BehindMembers DEF u
<1>8. CASE u # b /\ x \in BehindBlocks(b)
  <2>1. b \in Chain[u]
    BY <1>3, <1>8, BehindMembers, Zenon
  <2>2. u \notin Chain[b]
    <3>1. Height[b] \in Nat
      BY IntakeAssumption
    <3> QED
      BY <1>2, <1>8, <2>1, <3>1, Ancestry
  <2>3. u \in QueueBlocks(waiting)
    BY <1>3, <1>4, <1>8, <2>2, BehindMembers, Zenon
  <2>4. \A y \in Chain[u] \ (Chain[b] \cup {u}) : y \in QueueBlocks(waiting)
    BY <1>3, <1>5, <1>8, BehindMembers, Zenon
  <2> QED
    BY <1>8, <2>1, <2>3, <2>4, BehindMembers, Zenon DEF u
<1> QED
  BY <1>6, <1>7, <1>8 DEF u

LEMMA RejectPool ==
    ASSUME NEW b \in Block \ {Genesis}, NEW p, NEW blame, NEW l, NEW H, PoolOK(waiting, l, H),
           Reject(b, p, blame, H)
    PROVE  /\ PoolOK(waiting', l, orphanHashes')
           /\ Exact(waiting, l, H) => Exact(waiting', l, orphanHashes')
           /\ QueueEntries(waiting') \subseteq QueueEntries(waiting)
           /\ \A x \in QueueBlocks(waiting') :
                x \in QueueBlocks(waiting) /\ Parent[x] \notin {b} \cup BehindBlocks(b)
<1> DEFINE gone == BehindBlocks(b)
           P == {b} \cup gone
<1>1. QueueOK(waiting)
  BY Zenon DEF PoolOK
<1>2. waiting' = Without(waiting, P) /\ orphanHashes' = H \ gone
  BY Zenon DEF Reject, BehindBlocks
<1>3. \A x \in QueueBlocks(waiting) : Parent[x] \in P <=> x \in gone
  BY <1>1, DoomedByParent, Zenon
<1>4. gone \subseteq QueueBlocks(waiting)
  BY BehindMembers
<1> HIDE DEF gone
<1>5. /\ PoolOK(Without(waiting, P), l, H \ gone)
      /\ QueueBlocks(Without(waiting, P)) = QueueBlocks(waiting) \ gone
      /\ Exact(waiting, l, H) => Exact(Without(waiting, P), l, H \ gone)
  <2> HIDE DEF P
  <2> QED
    BY <1>3, <1>4, RejectKeeps, Zenon
<1>6. QueueEntries(Without(waiting, P)) \subseteq QueueEntries(waiting)
  BY <1>1, EntriesWithout, Zenon
<1> QED
  BY <1>2, <1>3, <1>5, <1>6 DEF gone

-----------------------------------------------------------------------------
(* The inductive invariant.                                                  *)

(* What honest peers forward, see Forwards.                                  *)
Good(b) == ChainValid(b) /\ \A c \in Checkpoints : b \in Chain[c] \/ c \in Chain[b]

(* On disk: the ancestors of every stored block, none in a checkpoint's place,*)
(* and no valid chain heavier than the tip's but where adoption was cut short.*)
StoreInv ==
    /\ stored \subseteq Block /\ Genesis \in stored /\ tip \in stored /\ Closed(stored)
    /\ \A x \in stored \ {Genesis} : ~CheckpointDiffers(x)
    /\ \A b \in stored : Weight[b] > Weight[tip] /\ ChainValid(b) => b \in interrupted

(* In the orphan queue and on the call stack: each block once, its hash kept.*)
PoolInv ==
    /\ PoolOK(waiting, todo, orphanHashes)
    /\ ~commitFailed => /\ Exact(waiting, todo, orphanHashes)
                        /\ \A x \in QueueBlocks(waiting) : Parent[x] \notin stored \cup invalid

(* What is left to judge from honest peers is good, and a block refused with *)
(* blame is not.                                                             *)
Vouched(E) == \A e \in E : e.from \in Honest => Good(e.block)

BlameInv ==
    /\ Vouched(QueueEntries(waiting)) /\ Vouched(EntriesOf(todo))
    /\ \A x \in invalid \ blameless : ~Good(x)
    /\ HonestPenalizedOnlyForSkew

IntakeInv == StoreInv /\ PoolInv /\ BlameInv

-----------------------------------------------------------------------------
(* Judging a block.                                                          *)

LEMMA GoodAncestor ==
    ASSUME NEW b \in Block, NEW x \in Chain[b], Good(b)
    PROVE  Good(x)
<1>1. Chain[x] \subseteq Chain[b] /\ x \in Block
  BY Ancestry
<1>2. ChainValid(x)
  BY <1>1, Zenon DEF Good, ChainValid
<1>3. ASSUME NEW c \in Checkpoints PROVE x \in Chain[c] \/ c \in Chain[x]
  <2>1. c \in Block
    BY IntakeAssumption, Zenon
  <2>2. CASE b \in Chain[c]
    BY <2>1, <2>2, Ancestry, Zenon
  <2>3. CASE c \in Chain[b]
    BY <2>3, AncestryLinear
  <2> QED
    BY <2>2, <2>3 DEF Good
<1> QED
  BY <1>2, <1>3, Zenon DEF Good

(* The verified checkpoint is one of the canonical chain, or there is none.  *)
LEMMA VerifiedIsReached ==
    ASSUME tip \in Block
    PROVE  /\ VerifiedHeight \in Int
           /\ VerifiedHeight # -1 =>
                \E c \in Checkpoints \cap Chain[tip] : VerifiedHeight = Height[c]
           /\ \A c \in Checkpoints \cap Chain[tip] : Height[c] <= VerifiedHeight
<1> DEFINE reached == {Height[c] : c \in Checkpoints \cap Chain[tip]} \cup {-1}
           T == {Height[tip] - h : h \in reached}
<1>1. \A c \in Checkpoints \cap Chain[tip] :
        c \in Block /\ Height[c] \in Nat /\ Height[c] <= Height[tip]
  BY IntakeAssumption, Ancestry
<1>2. Height[tip] \in Nat
  BY IntakeAssumption, Zenon
<1>3. \A h \in reached : h \in Int /\ h <= Height[tip]
  BY <1>1, <1>2
<1>4. -1 \in reached
  OBVIOUS
<1>5. VerifiedHeight = CHOOSE h \in reached : \A k \in reached : k <= h
  BY Zenon DEF VerifiedHeight
<1>6. T \subseteq Nat /\ T # {}
  <2> HIDE DEF reached
  <2> QED
    BY <1>2, <1>3, <1>4
<1>7. PICK t \in T : \A y \in T : t <= y
  BY <1>6, LeastNat, Zenon
<1>8. \E h \in reached : \A k \in reached : k <= h
  <2> HIDE DEF reached
  <2>1. PICK h \in reached : t = Height[tip] - h
    BY Zenon
  <2>2. \A k \in reached : t <= Height[tip] - k
    BY <1>7, Zenon
  <2>3. \A k \in reached : k <= h
    BY <1>2, <1>3, <2>1, <2>2
  <2> QED
    BY <2>3, Zenon
<1>9. VerifiedHeight \in reached /\ \A k \in reached : k <= VerifiedHeight
  <2> HIDE DEF reached
  <2> QED
    BY <1>5, <1>8, Zenon
<1> QED
  BY <1>3, <1>9, Zenon

LEMMA GoodNeverConflicts ==
    ASSUME NEW b \in Block, tip \in Block, Good(b)
    PROVE  ~ConflictsWithVerifiedCheckpoint(b)
<1> SUFFICES ASSUME ConflictsWithVerifiedCheckpoint(b) PROVE FALSE
  BY Zenon
<1>1. Height[b] <= VerifiedHeight /\ b \notin Chain[tip] /\ Height[b] \in Nat
  BY IntakeAssumption, Zenon DEF ConflictsWithVerifiedCheckpoint
<1>2. PICK c \in Checkpoints \cap Chain[tip] : VerifiedHeight = Height[c]
  BY <1>1, VerifiedIsReached
<1>3. c \in Block /\ Chain[c] \subseteq Chain[tip]
  BY IntakeAssumption, Ancestry, Zenon
<1>4. c \in Chain[b]
  BY <1>1, <1>3, Zenon DEF Good
<1>5. Height[c] <= Height[b] /\ Height[c] \in Nat
  BY <1>3, <1>4, Ancestry, IntakeAssumption, Zenon
<1>6. Height[c] = Height[b]
  BY <1>1, <1>2, <1>5
<1> QED
  BY <1>1, <1>4, <1>6, Ancestry

LEMMA GoodNeverDiffers ==
    ASSUME NEW b \in Block, Good(b)
    PROVE  ~CheckpointDiffers(b)
<1> SUFFICES ASSUME NEW c \in Checkpoints, Height[c] = Height[b], c # b PROVE FALSE
  BY DEF CheckpointDiffers
<1>1. c \in Block
  BY IntakeAssumption, Zenon
<1>2. b \in Chain[c] \/ c \in Chain[b]
  BY Zenon DEF Good
<1> QED
  BY <1>1, <1>2, Ancestry, Zenon

(* Only a timestamp can keep a good block out.                               *)
LEMMA GoodVerdict ==
    ASSUME NEW b \in Block, Good(b)
    PROVE  HeaderVerdict(b) # "invalid" /\ BlockVerdict(b) \in {"valid", "future"}
<1>1. Kind[b] = "valid"
  BY ChainStep, Zenon DEF Good, ChainValid
<1>2. ~CheckpointDiffers(b)
  BY GoodNeverDiffers
<1>3. HeaderVerdict(b) \in {"valid", "future"}
  BY <1>1, <1>2 DEF HeaderVerdict
<1> QED
  BY <1>1, <1>3, Zenon DEF BlockVerdict

LEMMA AcceptedFits ==
    ASSUME NEW b, Accepted(b)
    PROVE  ~CheckpointDiffers(b)
<1>1. BlockVerdict(b) = "valid"
  BY DEF Accepted
<1>2. HeaderVerdict(b) = "valid"
  BY <1>1 DEF BlockVerdict
<1> QED
  BY <1>2, Zenon DEF HeaderVerdict

-----------------------------------------------------------------------------
(* One call of handleIncomingBlock.                                          *)

(* How it is called: the block is no longer among the queued ones.           *)
Arrival(b, p, rest, H) ==
    /\ b \in Block \ {Genesis} /\ p \in Peer
    /\ PoolOK(waiting, rest, H)
    /\ ~commitFailed => Exact(waiting, rest, H)
    /\ Vouched(EntriesOf(rest)) /\ (p \in Honest => Good(b))

LEMMA NewArrives ==
    ASSUME IntakeInv, NEW b \in Block, NEW p \in Peer, NewBlock(b, p)
    PROVE  Arrival(b, p, <<>>, orphanHashes)
<1>1. todo = <<>> /\ b # Genesis /\ (p \in Honest => Good(b))
  BY Zenon DEF NewBlock, Forwards, Good
<1> QED
  BY <1>1, Zenon DEF IntakeInv, PoolInv, BlameInv, Arrival

LEMMA OrphanArrives ==
    ASSUME IntakeInv, todo # <<>>
    PROVE  Arrival(Head(todo).block, Head(todo).from, Tail(todo), orphanHashes \ {Head(todo).block})
<1> DEFINE e == Head(todo)
           H == orphanHashes \ {e.block}
           rest == Tail(todo)
<1>1. /\ QueueOK(waiting) /\ todo \in Seq(Entry) /\ DistinctBlocks(todo)
      /\ QueueBlocks(waiting) \cap BlocksOf(todo) = {}
      /\ QueueBlocks(waiting) \cup BlocksOf(todo) \subseteq orphanHashes
      /\ IsFiniteSet(orphanHashes) /\ Cardinality(orphanHashes) <= MaxOrphans
      /\ ~commitFailed => orphanHashes = QueueBlocks(waiting) \cup BlocksOf(todo)
  BY Zenon DEF IntakeInv, PoolInv, PoolOK, Exact
<1>2. /\ rest \in Seq(Entry) /\ DistinctBlocks(rest) /\ e \in Entry
      /\ BlocksOf(rest) = BlocksOf(todo) \ {e.block} /\ e.block \in BlocksOf(todo)
  BY <1>1, TailList, Zenon
<1>3. IsFiniteSet(H) /\ Cardinality(H) <= MaxOrphans
  <2>1. /\ IsFiniteSet(H) /\ Cardinality(H) <= Cardinality(orphanHashes)
        /\ Cardinality(H) \in Nat /\ Cardinality(orphanHashes) \in Nat
    BY <1>1, FS_Subset, FS_CardinalityType
  <2>2. MaxOrphans \in Nat
    BY IntakeAssumption, Zenon
  <2> QED
    BY <1>1, <2>1, <2>2, AtMost, Zenon
<1>4. e.block \in Block \ {Genesis} /\ e.from \in Peer
  BY <1>2 DEF Entry
<1>5. e \in EntriesOf(todo) /\ EntriesOf(rest) \subseteq EntriesOf(todo)
  <2>1. /\ e = todo[1] /\ 1 \in 1..Len(todo)
        /\ \A i \in 1..Len(rest) : rest[i] = todo[i + 1] /\ i + 1 \in 1..Len(todo)
    BY <1>1
  <2> HIDE DEF e, rest
  <2> QED
    BY <2>1, Zenon DEF EntriesOf
<1>6. Vouched(EntriesOf(todo))
  BY DEF IntakeInv, BlameInv
<1> HIDE DEF e, rest
<1>7. Vouched(EntriesOf(rest)) /\ (e.from \in Honest => Good(e.block))
  BY <1>5, <1>6, Zenon DEF Vouched
<1>8. PoolOK(waiting, rest, H) /\ (~commitFailed => Exact(waiting, rest, H))
  BY <1>1, <1>2, <1>3 DEF PoolOK, Exact
<1>9. Arrival(e.block, e.from, rest, H)
  BY <1>4, <1>7, <1>8, Zenon DEF Arrival
<1> QED
  BY <1>9, Zenon DEF e, rest

(* Nothing queued, nothing refused, nobody penalized: at the first start and *)
(* after every other one.                                                    *)
LEMMA EmptyMemory ==
    /\ PoolOK(<<>>, <<>>, {}) /\ Exact(<<>>, <<>>, {}) /\ QueueBlocks(<<>>) = {}
    /\ Vouched(QueueEntries(<<>>)) /\ Vouched(EntriesOf(<<>>))
<1>1. QueueOK(<<>>) /\ QueueBlocks(<<>>) = {} /\ BlocksOf(<<>>) = {}
  BY DEF QueueOK, DistinctParents, QueueBlocks, BlocksOf
<1>2. <<>> \in Seq(Entry) /\ DistinctBlocks(<<>>)
  BY DEF DistinctBlocks
<1>3. IsFiniteSet({}) /\ Cardinality({}) = 0
  BY FS_EmptySet, Zenon
<1>4. 0 <= MaxOrphans
  <2>1. MaxOrphans \in Nat
    BY IntakeAssumption, Zenon
  <2> QED
    BY ONLY <2>1, SMTT(30)
<1>5. Vouched(QueueEntries(<<>>)) /\ Vouched(EntriesOf(<<>>))
  BY DEF Vouched, QueueEntries, EntriesOf
<1> QED
  BY <1>1, <1>2, <1>3, <1>4, <1>5, Zenon DEF PoolOK, Exact

LEMMA LosingMemory ==
    ASSUME MemoryLost
    PROVE  PoolInv' /\ BlameInv'
<1>1. PoolInv'
  BY EmptyMemory, Zenon DEF MemoryLost, PoolInv
<1>2. HonestPenalizedOnlyForSkew'
  BY Zenon DEF MemoryLost, HonestPenalizedOnlyForSkew
<1>3. Vouched(QueueEntries(waiting))' /\ Vouched(EntriesOf(todo))'
  <2>1. waiting' = <<>> /\ todo' = <<>>
    BY DEF MemoryLost
  <2> QED
    BY <2>1 DEF Vouched, QueueEntries, EntriesOf
<1> QED
  BY <1>1, <1>2, <1>3, Zenon DEF MemoryLost, BlameInv

LEMMA HandleStore ==
    ASSUME NEW b, NEW p, NEW rest, NEW H, StoreInv, Arrival(b, p, rest, H),
           HandleIncomingBlock(b, p, rest, H)
    PROVE  StoreInv'
<1>1. b \in Block \ {Genesis}
  BY Zenon DEF Arrival
<1>2. CASE UNCHANGED <<stored, tip, interrupted>>
  BY <1>2, Zenon DEF StoreInv, Closed, CheckpointDiffers, ChainValid
<1>3. ASSUME Accepted(b), stored' = stored \cup {b}, tip' \in {tip, b},
             \A x \in stored' : Weight[x] > Weight[tip'] /\ ChainValid(x) => x \in interrupted'
      PROVE  StoreInv'
  <2>1. Parent[b] \in stored /\ ~CheckpointDiffers(b)
    BY <1>3, AcceptedFits DEF Accepted, Judged
  <2>2. /\ stored' \subseteq Block /\ Genesis \in stored' /\ tip' \in stored' /\ Closed(stored')
        /\ \A x \in stored' \ {Genesis} : ~CheckpointDiffers(x)
    BY <1>1, <1>3, <2>1, Zenon DEF StoreInv, Closed
  <2> QED
    BY <1>3, <2>2, Zenon DEF StoreInv, Closed, CheckpointDiffers, ChainValid
<1>4. /\ \A x \in stored \cup {b} : Weight[x] \in Nat
      /\ Weight[tip] \in Nat
      /\ \A x \in stored : Weight[x] > Weight[tip] /\ ChainValid(x) => x \in interrupted
  BY <1>1, IntakeAssumption DEF StoreInv
<1>5. CASE Connect(b, rest, H)
  <2>1. /\ Accepted(b) /\ (IsBetterChain(b) => ChainValid(b)) /\ stored' = stored \cup {b}
        /\ tip' = IF IsBetterChain(b) THEN b ELSE tip
        /\ interrupted' = {x \in interrupted \ {b} : Weight[x] > Weight[tip']}
    BY <1>5, Zenon DEF Connect, Store
  <2>2. CASE IsBetterChain(b)
    <3>1. ASSUME NEW x \in stored', Weight[x] > Weight[tip'], ChainValid(x)
          PROVE  x \in interrupted'
      BY <1>4, <2>1, <2>2, <3>1 DEF IsBetterChain
    <3> QED
      BY <1>3, <2>1, <2>2, <3>1, Zenon
  <2>3. CASE ~IsBetterChain(b)
    <3>1. ASSUME NEW x \in stored', Weight[x] > Weight[tip'], ChainValid(x)
          PROVE  x \in interrupted'
      BY <1>4, <2>1, <2>3, <3>1 DEF IsBetterChain
    <3> QED
      BY <1>3, <2>1, <2>3, <3>1, Zenon
  <2> QED
    BY <2>2, <2>3
<1>6. CASE ReplayFails(b, p, rest, H)
  BY <1>3, <1>4, <1>6, Zenon DEF ReplayFails, Store
<1>7. CASE CommitFails(b, H)
  BY <1>3, <1>4, <1>7, Zenon DEF CommitFails, Store
<1>8. CASE Killed(b)
  <2>1. Accepted(b) /\ stored' = stored \cup {b} /\ tip' = tip
    BY <1>8 DEF Killed
  <2>2. interrupted \subseteq interrupted' /\ (IsBetterChain(b) => b \in interrupted')
    BY <1>8, Zenon DEF Killed
  <2> QED
    BY <1>3, <1>4, <2>1, <2>2, Zenon DEF IsBetterChain
<1> QED
  <2>1. CASE AlreadyEvaluated(b, rest, H) /\ UNCHANGED history
    BY <1>2, <2>1, Zenon DEF AlreadyEvaluated, disk, history
  <2>2. CASE BuildsOnInvalid(b, p, rest, H) /\ UNCHANGED history
    BY <1>2, <2>2, Zenon DEF BuildsOnInvalid, disk, history
  <2>3. CASE ParentMissing(b, p, rest, H) /\ UNCHANGED history
    BY <1>2, <2>3, Zenon DEF ParentMissing, disk, history
  <2>4. CASE Refused(b, p, rest, H) /\ UNCHANGED history
    BY <1>2, <2>4 DEF Refused, disk, history
  <2> QED
    BY <1>5, <1>6, <1>7, <1>8, <2>1, <2>2, <2>3, <2>4, Zenon DEF HandleIncomingBlock

LEMMA ResolvePool ==
    ASSUME NEW b \in Block \ {Genesis}, NEW rest, NEW H, PoolOK(waiting, rest, H),
           Resolve(b, rest)
    PROVE  /\ PoolOK(waiting', todo', H)
           /\ Exact(waiting, rest, H) => Exact(waiting', todo', H)
           /\ \A x \in QueueBlocks(waiting') : x \in QueueBlocks(waiting) /\ Parent[x] # b
           /\ QueueEntries(waiting') \subseteq QueueEntries(waiting)
           /\ EntriesOf(todo') \subseteq QueueEntries(waiting) \cup EntriesOf(rest)
<1> DEFINE w == Without(waiting, {b})
           at == {i \in 1..Len(waiting) : waiting[i].parent = b}
           m == IF at = {} THEN rest ELSE waiting[CHOOSE i \in at : TRUE].list \o rest
<1>1. QueueOK(waiting) /\ rest \in Seq(Entry)
  BY Zenon DEF PoolOK
<1>2. waiting' = w /\ todo' = m
  BY DEF Resolve
<1>3. PoolOK(w, m, H) /\ (Exact(waiting, rest, H) => Exact(w, m, H))
  BY ResolveKeeps, Zenon
<1>4. \A x \in QueueBlocks(w) : x \in QueueBlocks(waiting) /\ Parent[x] # b
  <2>1. QueueOK(w) /\ \A g : Holds(w, g) => Holds(waiting, g) /\ g.parent \notin {b}
    BY <1>1, WithoutQueue
  <2> HIDE DEF w
  <2> QED
    BY <1>1, <2>1, QueueMembers, GroupFacts
<1>5. QueueEntries(w) \subseteq QueueEntries(waiting)
  BY <1>1, EntriesWithout, Zenon
<1>6. EntriesOf(m) \subseteq QueueEntries(waiting) \cup EntriesOf(rest)
  <2>1. CASE at = {}
    BY <2>1, Zenon
  <2>2. CASE at # {}
    <3> DEFINE k == CHOOSE i \in at : TRUE
    <3>1. k \in 1..Len(waiting)
      BY <2>2
    <3>2. m = waiting[k].list \o rest
      BY <2>2, Zenon
    <3> HIDE DEF k, m
    <3>3. waiting[k] \in Group
      BY <1>1, <3>1 DEF QueueOK
    <3>4. waiting[k].list \in Seq(Entry)
      BY <3>3, Zenon DEF Group
    <3>5. EntriesOf(m) \subseteq EntriesOf(waiting[k].list) \cup EntriesOf(rest)
      BY <1>1, <3>2, <3>4, EntriesConcat
    <3>6. EntriesOf(waiting[k].list) \subseteq QueueEntries(waiting)
      BY <3>1, Zenon DEF QueueEntries
    <3> QED
      BY <3>5, <3>6
  <2> QED
    BY <2>1, <2>2
<1> HIDE DEF w, m
<1> QED
  BY <1>2, <1>3, <1>4, <1>5, <1>6

LEMMA HandlePool ==
    ASSUME NEW b, NEW p, NEW rest, NEW H, PoolInv, Arrival(b, p, rest, H),
           HandleIncomingBlock(b, p, rest, H)
    PROVE  PoolInv'
<1>1. /\ b \in Block \ {Genesis} /\ p \in Peer /\ PoolOK(waiting, rest, H)
      /\ ~commitFailed => Exact(waiting, rest, H)
      /\ ~commitFailed => \A x \in QueueBlocks(waiting) : Parent[x] \notin stored \cup invalid
  BY DEF Arrival, PoolInv
<1>2. CASE AlreadyEvaluated(b, rest, H) /\ UNCHANGED history
  BY <1>1, <1>2, Zenon DEF AlreadyEvaluated, disk, history, PoolInv
<1>3. ASSUME NEW blame, Reject(b, p, blame, H), todo' = rest, UNCHANGED commitFailed,
             stored' \subseteq stored \cup {b}
      PROVE  PoolInv'
  <2>1. /\ PoolOK(waiting', rest, orphanHashes')
        /\ Exact(waiting, rest, H) => Exact(waiting', rest, orphanHashes')
        /\ \A x \in QueueBlocks(waiting') :
             x \in QueueBlocks(waiting) /\ Parent[x] \notin {b} \cup BehindBlocks(b)
    BY <1>1, <1>3, RejectPool
  <2>2. invalid' = invalid \cup {b} \cup BehindBlocks(b)
    BY <1>3, Zenon DEF Reject, Marked, BehindBlocks
  <2> QED
    BY <1>1, <1>3, <2>1, <2>2, Zenon DEF PoolInv
<1>4. CASE BuildsOnInvalid(b, p, rest, H) /\ UNCHANGED history
  BY <1>3, <1>4, Zenon DEF BuildsOnInvalid, disk, history
<1>5. CASE Refused(b, p, rest, H) /\ UNCHANGED history
  BY <1>3, <1>5 DEF Refused, disk, history
<1>6. CASE ReplayFails(b, p, rest, H)
  BY <1>3, <1>6, Zenon DEF ReplayFails, Store
<1>7. CASE ParentMissing(b, p, rest, H) /\ UNCHANGED history
  <2>1. /\ Parent[b] \notin invalid \cup stored /\ QueueOrphan(b, p, H) /\ todo' = rest
        /\ stored' = stored /\ invalid' = invalid /\ commitFailed' = commitFailed
    BY <1>7, Zenon DEF ParentMissing, disk, history
  <2>2. /\ PoolOK(waiting', rest, orphanHashes')
        /\ Exact(waiting, rest, H) => Exact(waiting', rest, orphanHashes')
    BY <1>1, <2>1, QueueKeeps
  <2>3. orphanHashes' \subseteq H \cup {b}
    BY <2>1, Zenon DEF QueueOrphan, Forget
  <2>4. ~commitFailed => QueueBlocks(waiting') \subseteq QueueBlocks(waiting) \cup {b}
    BY <1>1, <2>2, <2>3, Zenon DEF PoolOK, Exact
  <2> QED
    BY <1>1, <2>1, <2>2, <2>4, Zenon DEF PoolInv
<1>8. CASE Connect(b, rest, H)
  <2>1. /\ Resolve(b, rest) /\ orphanHashes' = H /\ invalid' = invalid
        /\ stored' = stored \cup {b} /\ commitFailed' = commitFailed
    BY <1>8, Zenon DEF Connect, Store, ResolveOrphansOf
  <2>2. /\ PoolOK(waiting', todo', H)
        /\ Exact(waiting, rest, H) => Exact(waiting', todo', H)
        /\ \A x \in QueueBlocks(waiting') : x \in QueueBlocks(waiting) /\ Parent[x] # b
    BY <1>1, <2>1, ResolvePool, Zenon
  <2> QED
    BY <1>1, <2>1, <2>2, Zenon DEF PoolInv
<1>9. CASE CommitFails(b, H)
  <2>1. waiting' = waiting /\ todo' = <<>> /\ orphanHashes' = H /\ commitFailed' = TRUE
    BY <1>9, Zenon DEF CommitFails
  <2>2. <<>> \in Seq(Entry) /\ DistinctBlocks(<<>>) /\ BlocksOf(<<>>) = {}
    BY DEF DistinctBlocks, BlocksOf
  <2>3. PoolOK(waiting, <<>>, H)
    BY <1>1, <2>2, Zenon DEF PoolOK
  <2> QED
    BY <2>1, <2>3 DEF PoolInv
<1>10. CASE Killed(b)
  BY <1>10, LosingMemory, Zenon DEF Killed
<1> QED
  BY <1>2, <1>4, <1>5, <1>6, <1>7, <1>8, <1>9, <1>10 DEF HandleIncomingBlock

(* A rejection keeps to the rules of blame when a block that is blamed is    *)
(* not good: then neither is anything queued behind it.                      *)
LEMMA RejectBlame ==
    ASSUME NEW b, NEW p, NEW blame, NEW rest, NEW H, BlameInv, Arrival(b, p, rest, H),
           Reject(b, p, blame, H), blame => ~Good(b), todo' = rest
    PROVE  BlameInv'
<1> DEFINE doomed == {b} \cup BehindBlocks(b)
<1>1. /\ b \in Block \ {Genesis} /\ PoolOK(waiting, rest, H)
      /\ Vouched(EntriesOf(rest)) /\ (p \in Honest => Good(b))
  BY Zenon DEF Arrival
<1>2. QueueEntries(waiting') \subseteq QueueEntries(waiting)
  BY <1>1, RejectPool
<1>3. Vouched(QueueEntries(waiting)) /\ Vouched(QueueEntries(waiting')) /\ Vouched(EntriesOf(todo'))
  BY <1>1, <1>2, Zenon DEF BlameInv, Vouched
<1>4. /\ invalid' = invalid \cup doomed
      /\ blameless' = IF blame THEN blameless ELSE blameless \cup doomed
  BY Zenon DEF Reject, Marked, BehindBlocks
<1>5. ASSUME NEW x \in doomed, Good(x) PROVE Good(b)
  <2>1. x \in Block
    BY <1>1, BehindMembers, QueueBlockTypes, Zenon DEF PoolOK
  <2>2. b \in Chain[x]
    BY <1>1, BehindMembers, ChainStep, Zenon
  <2> QED
    BY <1>5, <2>1, <2>2, GoodAncestor
<1>6. \A x \in invalid' \ blameless' : ~Good(x)
  <2> HIDE DEF doomed
  <2> QED
    BY <1>4, <1>5 DEF BlameInv
<1>7. ASSUME NEW q \in penalized', q[1] \in Honest
      PROVE  q[2] = "header" /\ blameless' # {}
  <2>1. CASE q \in penalized
    <3>1. q[2] = "header" /\ blameless # {}
      BY <1>7, <2>1 DEF BlameInv, HonestPenalizedOnlyForSkew
    <3> QED
      BY <1>4, <3>1, Zenon
  <2>2. CASE q \notin penalized
    <3>1. blame /\ q \in ({p} \cup {e.from : e \in Behind(b)}) \X {"block"}
      BY <2>2, Zenon DEF Reject
    <3>2. q[1] \in {p} \cup {e.from : e \in Behind(b)}
      BY <3>1, Zenon
    <3>3. ~Good(b)
      BY <3>1
    <3>4. PICK e \in Behind(b) : q[1] = e.from
      BY <1>1, <1>7, <3>2, <3>3, Zenon
    <3>5. e \in QueueEntries(waiting)
      BY EntriesAre, Zenon DEF Behind
    <3>6. Good(e.block)
      BY <1>3, <1>7, <3>4, <3>5, Zenon DEF Vouched
    <3>7. e.block \in doomed
      BY DEF BehindBlocks
    <3> QED
      BY <1>5, <3>3, <3>6, <3>7
  <2> QED
    BY <2>1, <2>2, Zenon
<1>8. HonestPenalizedOnlyForSkew'
  BY <1>7, Zenon DEF HonestPenalizedOnlyForSkew
<1>9. \A x \in (invalid \ blameless)' : ~Good(x)'
  BY <1>6, Zenon DEF Good, ChainValid
<1>10. Vouched(QueueEntries(waiting))' /\ Vouched(EntriesOf(todo))'
  BY <1>3, Zenon DEF Vouched, Good, ChainValid, QueueEntries, EntriesOf
<1> QED
  BY <1>8, <1>9, <1>10 DEF BlameInv

LEMMA HandleBlame ==
    ASSUME NEW b, NEW p, NEW rest, NEW H, StoreInv, BlameInv, Arrival(b, p, rest, H),
           HandleIncomingBlock(b, p, rest, H)
    PROVE  BlameInv'
<1>1. /\ b \in Block \ {Genesis} /\ p \in Peer /\ PoolOK(waiting, rest, H)
      /\ Vouched(EntriesOf(rest)) /\ (p \in Honest => Good(b))
  BY Zenon DEF Arrival
<1>2. /\ Vouched(QueueEntries(waiting)) /\ HonestPenalizedOnlyForSkew
      /\ \A x \in invalid \ blameless : ~Good(x)
  BY DEF BlameInv
<1>3. ASSUME UNCHANGED <<invalid, blameless, penalized>>,
             Vouched(QueueEntries(waiting')), Vouched(EntriesOf(todo'))
      PROVE  BlameInv'
  <2>1. HonestPenalizedOnlyForSkew'
    BY <1>2, <1>3, Zenon DEF HonestPenalizedOnlyForSkew
  <2>2. \A x \in (invalid \ blameless)' : ~Good(x)'
    BY <1>2, <1>3, Zenon DEF Good, ChainValid
  <2>3. Vouched(QueueEntries(waiting))' /\ Vouched(EntriesOf(todo))'
    BY <1>3, Zenon DEF Vouched, Good, ChainValid, QueueEntries, EntriesOf
  <2> QED
    BY <2>1, <2>2, <2>3, Zenon DEF BlameInv
<1>4. CASE AlreadyEvaluated(b, rest, H)
  BY <1>1, <1>2, <1>3, <1>4 DEF AlreadyEvaluated
<1>5. CASE BuildsOnInvalid(b, p, rest, H)
  <2>1. ASSUME BlameOfParent(b) PROVE ~Good(b)
    <3>1. ~Good(Parent[b])
      BY <1>2, <1>5, <2>1 DEF BlameOfParent, BuildsOnInvalid
    <3>2. Parent[b] \in Chain[b]
      BY <1>1, Parents, ChainStep, Zenon
    <3> QED
      BY <1>1, <3>1, <3>2, GoodAncestor, Zenon
  <2> QED
    BY <1>5, <2>1, RejectBlame, Zenon DEF BuildsOnInvalid
<1>6. CASE Refused(b, p, rest, H)
  <2> DEFINE blame == ConflictsWithVerifiedCheckpoint(b) \/ BlockVerdict(b) # "future"
  <2>1. Reject(b, p, blame, H) /\ todo' = rest
    BY <1>6, Zenon DEF Refused
  <2>2. tip \in Block
    BY DEF StoreInv
  <2>3. ASSUME Good(b) PROVE ~blame
    <3>1. ~ConflictsWithVerifiedCheckpoint(b) /\ BlockVerdict(b) \in {"valid", "future"}
      BY <1>1, <2>2, <2>3, GoodNeverConflicts, GoodVerdict
    <3> QED
      BY <1>6, <3>1, Zenon DEF Refused
  <2> HIDE DEF blame
  <2> QED
    BY <2>1, <2>3, RejectBlame
<1>7. CASE ReplayFails(b, p, rest, H)
  BY <1>7, RejectBlame, Zenon DEF ReplayFails, Good
<1>8. CASE ParentMissing(b, p, rest, H)
  <2>1. /\ QueueOrphan(b, p, H) /\ todo' = rest /\ UNCHANGED <<invalid, blameless, penalized>>
    BY <1>8, Zenon DEF ParentMissing
  <2>2. QueueEntries(waiting') \subseteq QueueEntries(waiting) \cup {[block |-> b, from |-> p]}
    BY <1>1, <2>1, EntriesQueued, Zenon DEF PoolOK
  <2>3. Vouched({[block |-> b, from |-> p]})
    BY <1>1 DEF Vouched
  <2>4. Vouched(QueueEntries(waiting'))
    BY <1>2, <2>2, <2>3 DEF Vouched
  <2> QED
    BY <1>1, <1>3, <2>1, <2>4, Zenon
<1>9. CASE Connect(b, rest, H)
  <2>1. Resolve(b, rest) /\ UNCHANGED <<invalid, blameless, penalized>>
    BY <1>9, Zenon DEF Connect, ResolveOrphansOf
  <2>2. /\ QueueEntries(waiting') \subseteq QueueEntries(waiting)
        /\ EntriesOf(todo') \subseteq QueueEntries(waiting) \cup EntriesOf(rest)
    BY <1>1, <2>1, ResolvePool, Zenon
  <2>3. Vouched(QueueEntries(waiting')) /\ Vouched(EntriesOf(todo'))
    BY <1>1, <1>2, <2>2, Zenon DEF Vouched
  <2> QED
    BY <1>3, <2>1, <2>3, Zenon
<1>10. CASE CommitFails(b, H)
  <2>1. Vouched(EntriesOf(<<>>))
    BY DEF Vouched, EntriesOf
  <2> QED
    BY <1>2, <1>3, <1>10, <2>1, Zenon DEF CommitFails
<1>11. CASE Killed(b)
  BY <1>11, LosingMemory, Zenon DEF Killed
<1> QED
  BY <1>4, <1>5, <1>6, <1>7, <1>8, <1>9, <1>10, <1>11, Zenon DEF HandleIncomingBlock

-----------------------------------------------------------------------------
(* The other steps, and the invariant.                                       *)

(* An honest peer's headers are blamed only through an ancestor that is      *)
(* invalid and good, so refused for its timestamp.                           *)
LEMMA HeadersBlame ==
    ASSUME StoreInv, BlameInv, NEW from \in Block, NEW to \in Block, NEW p \in Peer,
           Headers(from, to, p)
    PROVE  BlameInv'
<1> DEFINE new == (Chain[to] \ Chain[from]) \ headers
           bad == {x \in new : HeaderRefused(x)}
           first == CHOOSE x \in bad : \A y \in bad : Height[x] <= Height[y]
<1>1. /\ p \in Honest => Good(to)
      /\ penalized' = IF bad # {} /\ HeaderBlamed(first)
                      THEN penalized \cup {<<p, "header">>} ELSE penalized
      /\ UNCHANGED <<invalid, blameless, waiting, todo>>
  BY Zenon DEF Headers, Forwards, Good
<1>2. ASSUME bad # {}, HeaderBlamed(first), p \in Honest PROVE blameless # {}
  <2>1. bad \subseteq Block
    BY Ancestry, Zenon
  <2>2. \E x \in bad : \A y \in bad : Height[x] <= Height[y]
    <3> HIDE DEF bad
    <3> QED
      BY <1>2, <2>1, LowestBlock
  <2>3. first \in bad
    <3> HIDE DEF bad
    <3> QED
      BY <2>2
  <2>4. first \in Chain[to] /\ first # Genesis /\ first \in Block
    BY <2>1, <2>3, Ancestry, Zenon
  <2> HIDE DEF first
  <2>5. Good(first)
    BY <1>1, <1>2, <2>4, GoodAncestor, Zenon
  <2>6. Good(Parent[first])
    <3>1. Parent[first] \in Chain[first]
      BY <2>4, Parents, ChainStep
    <3> QED
      BY <2>4, <2>5, <3>1, GoodAncestor, Zenon
  <2>7. ~ConflictsWithVerifiedCheckpoint(first) /\ HeaderVerdict(first) # "invalid"
    BY <2>4, <2>5, GoodNeverConflicts, GoodVerdict, Zenon DEF StoreInv
  <2>8. first \in invalid \/ Parent[first] \in invalid
    BY <1>2, <2>7 DEF HeaderBlamed
  <2> QED
    BY <2>5, <2>6, <2>8, Zenon DEF BlameInv
<1> HIDE DEF bad, first
<1>3. ASSUME NEW q \in penalized', q[1] \in Honest
      PROVE  q[2] = "header" /\ blameless' # {}
  <2>1. CASE q \in penalized
    BY <1>1, <1>3, <2>1, Zenon DEF BlameInv, HonestPenalizedOnlyForSkew
  <2>2. CASE q \notin penalized
    BY <1>1, <1>2, <1>3, <2>2
  <2> QED
    BY <2>1, <2>2, Zenon
<1>4. HonestPenalizedOnlyForSkew'
  BY <1>3, Zenon DEF HonestPenalizedOnlyForSkew
<1>5. Vouched(QueueEntries(waiting))' /\ Vouched(EntriesOf(todo))'
  <2>1. Vouched(QueueEntries(waiting')) /\ Vouched(EntriesOf(todo'))
    BY <1>1, Zenon DEF BlameInv
  <2> QED
    BY <2>1, Zenon DEF Vouched, Good, ChainValid, QueueEntries, EntriesOf
<1>6. \A x \in (invalid \ blameless)' : ~Good(x)'
  BY <1>1, Zenon DEF BlameInv, Good, ChainValid
<1> QED
  BY <1>4, <1>5, <1>6, Zenon DEF BlameInv

LEMMA SameStore ==
    ASSUME StoreInv, UNCHANGED <<stored, tip, interrupted>>
    PROVE  StoreInv'
  BY Zenon DEF StoreInv, Closed, CheckpointDiffers, ChainValid

LEMMA SamePool ==
    ASSUME PoolInv, UNCHANGED <<stored, invalid, waiting, orphanHashes, todo, commitFailed>>
    PROVE  PoolInv'
  BY Zenon DEF PoolInv

LEMMA SameBlame ==
    ASSUME BlameInv, UNCHANGED <<invalid, blameless, waiting, todo, penalized>>
    PROVE  BlameInv'
<1>1. Vouched(QueueEntries(waiting))' /\ Vouched(EntriesOf(todo))'
  <2>1. Vouched(QueueEntries(waiting')) /\ Vouched(EntriesOf(todo'))
    BY Zenon DEF BlameInv
  <2> QED
    BY <2>1, Zenon DEF Vouched, Good, ChainValid, QueueEntries, EntriesOf
<1>2. \A x \in (invalid \ blameless)' : ~Good(x)'
  BY Zenon DEF BlameInv, Good, ChainValid
<1>3. HonestPenalizedOnlyForSkew'
  BY Zenon DEF BlameInv, HonestPenalizedOnlyForSkew
<1> QED
  BY <1>1, <1>2, <1>3, Zenon DEF BlameInv

LEMMA IntakeInit == Init => IntakeInv
<1> SUFFICES ASSUME Init PROVE IntakeInv
  BY Zenon
<1>1. StoreInv
  <2>1. Weight[Genesis] \in Nat /\ Genesis \in Block
    BY IntakeAssumption, Zenon
  <2> QED
    BY <2>1 DEF Init, StoreInv, Closed
<1>2. PoolInv
  BY EmptyMemory, Zenon DEF Init, PoolInv
<1>3. BlameInv
  BY EmptyMemory, Zenon DEF Init, BlameInv, HonestPenalizedOnlyForSkew
<1> QED
  BY <1>1, <1>2, <1>3 DEF IntakeInv

LEMMA IntakeStep == IntakeInv /\ [Next]_vars => IntakeInv'
<1> SUFFICES ASSUME IntakeInv, [Next]_vars PROVE IntakeInv'
  BY Zenon
<1> USE DEF IntakeInv
<1>1. ASSUME NEW b \in Block, NEW p \in Peer, NewBlock(b, p) PROVE IntakeInv'
  <2>1. Arrival(b, p, <<>>, orphanHashes) /\ HandleIncomingBlock(b, p, <<>>, orphanHashes)
    BY <1>1, NewArrives, Zenon DEF NewBlock
  <2> QED
    BY <2>1, HandleStore, HandlePool, HandleBlame, Zenon
<1>2. CASE NextOrphan
  <2> DEFINE e == Head(todo)
  <2>1. /\ Arrival(e.block, e.from, Tail(todo), orphanHashes \ {e.block})
        /\ HandleIncomingBlock(e.block, e.from, Tail(todo), orphanHashes \ {e.block})
    BY <1>2, OrphanArrives, Zenon DEF NextOrphan
  <2> HIDE DEF e
  <2> QED
    BY <2>1, HandleStore, HandlePool, HandleBlame, Zenon
<1>3. ASSUME NEW r \in HeaderReplies, NEW p \in Peer, Headers(r[1], r[2], p) PROVE IntakeInv'
  <2>1. r[1] \in Block /\ r[2] \in Block
    BY IntakeAssumption
  <2>2. UNCHANGED <<stored, tip, invalid, waiting, orphanHashes, todo, commitFailed, interrupted>>
    BY <1>3, Zenon DEF Headers, history
  <2>3. BlameInv'
    BY <1>3, <2>1, HeadersBlame, Zenon
  <2> QED
    BY <2>2, <2>3, SameStore, SamePool, Zenon
<1>4. CASE Tick \/ UNCHANGED vars
  <2>1. UNCHANGED <<disk, memory, history>>
    BY <1>4 DEF Tick, vars
  <2> QED
    BY <2>1, SameStore, SamePool, SameBlame, Zenon DEF disk, memory, history
<1>5. CASE Restart
  <2>1. StoreInv'
    BY <1>5, SameStore, Zenon DEF Restart, disk
  <2> QED
    BY <1>5, <2>1, LosingMemory, Zenon DEF Restart
<1> QED
  BY <1>1, <1>2, <1>3, <1>4, <1>5 DEF Next

(* The invariant of handleIncomingBlock, rejectBlock, queueOrphan,           *)
(* resolveOrphansOf and handleHeaders: it holds in every reachable state, for*)
(* every tree of blocks, set of peers, checkpoints and MAX_ORPHANS.          *)
THEOREM IntakeInvariant == Spec => []IntakeInv
  BY IntakeInit, IntakeStep, PTL DEF Spec

-----------------------------------------------------------------------------
(* What the runs check, for every instance.                                  *)

(* queueOrphan and rejectBlock: the orphan pool keeps to MAX_ORPHANS, and    *)
(* orphanHashes is exactly what is queued or on the call stack.              *)
THEOREM OrphansBounded == Spec => []OrphanPoolSound
<1>1. IntakeInv => OrphanPoolSound
  BY EntriesAre, Zenon DEF IntakeInv, PoolInv, PoolOK, Exact, OrphanPoolSound, BlocksOf
<1> QED
  BY <1>1, IntakeInvariant, PTL

(* resolveOrphansOf and rejectBlock leave no orphan queued whose parent is   *)
(* stored or refused.                                                        *)
THEOREM OrphansResolved == Spec => []NoOrphanLeftBehind
<1>1. IntakeInv => NoOrphanLeftBehind
  BY EntriesAre, Zenon DEF IntakeInv, PoolInv, NoOrphanLeftBehind
<1> QED
  BY <1>1, IntakeInvariant, PTL

(* handleIncomingBlock adopts every valid chain it has stored that is        *)
(* heavier than the tip's, but for a block whose own adoption a kill or a    *)
(* refused commit cut short.                                                 *)
THEOREM HeaviestIsTip == Spec => []HeaviestAdopted
<1>1. IntakeInv => HeaviestAdopted
  BY DEF IntakeInv, StoreInv, HeaviestAdopted
<1> QED
  BY <1>1, IntakeInvariant, PTL

(* rejectBlock and handleHeaders never penalize a peer that follows the      *)
(* rules, but for headers that build on a block refused for its timestamp.   *)
THEOREM HonestNotBlamed == Spec => []HonestPenalizedOnlyForSkew
<1>1. IntakeInv => HonestPenalizedOnlyForSkew
  BY Zenon DEF IntakeInv, BlameInv
<1> QED
  BY <1>1, IntakeInvariant, PTL

(* A heavier block that conflictsWithVerifiedCheckpoint and validateHeader   *)
(* let through descends from every checkpoint on the canonical chain.        *)
LEMMA AdoptedKeepsCheckpoints ==
    ASSUME StoreInv, NEW b \in Block \ {Genesis}, Accepted(b), IsBetterChain(b),
           NEW c \in Checkpoints, c \in Chain[tip]
    PROVE  c \in Chain[b]
<1>1. tip \in Block /\ c \in Block /\ Closed(stored) /\ Parent[b] \in stored /\ Parent[b] \in Block
  BY IntakeAssumption, Zenon DEF StoreInv, Accepted, Judged
<1>2. /\ Height[b] \in Nat /\ Height[c] \in Nat /\ Height[Genesis] \in Nat
      /\ Weight[b] \in Nat /\ Weight[tip] \in Nat
  BY <1>1, IntakeAssumption, Zenon
<1>3. b \notin Chain[tip]
  <2>1. b \in Chain[tip] => Weight[b] <= Weight[tip]
    BY <1>1, Ancestry, Zenon
  <2>2. Weight[tip] < Weight[b]
    BY <1>2 DEF IsBetterChain
  <2> QED
    BY <1>2, <2>1, <2>2
<1>4. Height[c] < Height[b]
  <2>1. VerifiedHeight \in Int /\ Height[c] <= VerifiedHeight
    BY <1>1, VerifiedIsReached, Zenon
  <2>2. ~(Height[b] <= VerifiedHeight)
    BY <1>3, Zenon DEF Accepted, ConflictsWithVerifiedCheckpoint
  <2> QED
    BY <1>2, <2>1, <2>2
<1>5. Genesis \in Chain[c] /\ Height[Genesis] <= Height[c]
  BY <1>1, Ancestry, Zenon
<1>6. PICK a \in Chain[b] : Height[a] = Height[c]
  BY <1>2, <1>4, <1>5, AncestorAt
<1>7. a \in stored
  <2>1. a # b
    BY <1>2, <1>4, <1>6
  <2>2. a \in Chain[Parent[b]]
    BY <2>1, ChainStep
  <2> QED
    BY <1>1, <2>2, ChainInduction, Zenon
<1>8. CASE a = Genesis
  BY <1>1, <1>5, <1>6, <1>8, Ancestry
<1>9. CASE a # Genesis
  BY <1>6, <1>7, <1>9, Zenon DEF StoreInv, CheckpointDiffers
<1> QED
  BY <1>8, <1>9

LEMMA TipStep ==
    ASSUME NEW b, NEW p, NEW rest, NEW H, HandleIncomingBlock(b, p, rest, H)
    PROVE  tip' = tip \/ (tip' = b /\ Accepted(b) /\ IsBetterChain(b))
<1>1. CASE AlreadyEvaluated(b, rest, H) \/ BuildsOnInvalid(b, p, rest, H)
  BY <1>1, Zenon DEF AlreadyEvaluated, BuildsOnInvalid, disk
<1>2. CASE ParentMissing(b, p, rest, H) \/ Refused(b, p, rest, H)
  BY <1>2, Zenon DEF ParentMissing, Refused, disk
<1>3. CASE Connect(b, rest, H)
  BY <1>3 DEF Connect
<1>4. CASE ReplayFails(b, p, rest, H) \/ CommitFails(b, H) \/ Killed(b)
  BY <1>4, Zenon DEF ReplayFails, CommitFails, Killed
<1> QED
  BY <1>1, <1>2, <1>3, <1>4 DEF HandleIncomingBlock

(* handleIncomingBlock never moves the tip off a checkpoint the canonical    *)
(* chain has reached.                                                        *)
THEOREM CheckpointsAreFinal == Spec => CheckpointFinal
<1> DEFINE Keeps == \A c \in Checkpoints : c \in Chain[tip] => c \in Chain[tip']
<1>1. ASSUME StoreInv, NEW b, NEW p, NEW rest, NEW H, Arrival(b, p, rest, H),
             HandleIncomingBlock(b, p, rest, H)
      PROVE  Keeps
  <2>1. tip' = tip \/ (tip' = b /\ Accepted(b) /\ IsBetterChain(b))
    BY <1>1, TipStep, Zenon
  <2>2. b \in Block \ {Genesis}
    BY <1>1, Zenon DEF Arrival
  <2> QED
    BY <1>1, <2>1, <2>2, AdoptedKeepsCheckpoints, Zenon
<1>2. IntakeInv /\ [Next]_vars => [Keeps]_vars
  <2> SUFFICES ASSUME IntakeInv, Next PROVE Keeps
    OBVIOUS
  <2>1. ASSUME NEW b \in Block, NEW p \in Peer, NewBlock(b, p) PROVE Keeps
    <3>1. Arrival(b, p, <<>>, orphanHashes) /\ HandleIncomingBlock(b, p, <<>>, orphanHashes)
      BY <2>1, NewArrives, Zenon DEF NewBlock
    <3> QED
      BY <1>1, <3>1, Zenon DEF IntakeInv
  <2>2. CASE NextOrphan
    <3> DEFINE e == Head(todo)
    <3>1. /\ Arrival(e.block, e.from, Tail(todo), orphanHashes \ {e.block})
          /\ HandleIncomingBlock(e.block, e.from, Tail(todo), orphanHashes \ {e.block})
      BY <2>2, OrphanArrives, Zenon DEF NextOrphan
    <3> HIDE DEF e
    <3> QED
      BY <1>1, <3>1, Zenon DEF IntakeInv
  <2>3. CASE \E r \in HeaderReplies, p \in Peer : Headers(r[1], r[2], p)
    <3>1. tip' = tip
      BY <2>3, Zenon DEF Headers
    <3> QED
      BY <3>1
  <2>4. CASE Tick \/ Restart
    <3>1. tip' = tip
      BY <2>4 DEF Tick, Restart, disk
    <3> QED
      BY <3>1
  <2> QED
    BY <2>1, <2>2, <2>3, <2>4, Zenon DEF Next
<1> QED
  BY <1>2, IntakeInvariant, PTL DEF Spec, CheckpointFinal
=============================================================================
