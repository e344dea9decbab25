---------------------------- MODULE ReorgProofs -----------------------------
(* What one transaction applied, or undone, does to the coins of the         *)
(* reference replay; what planReorg's two walks build, and what the batch of *)
(* adoptBlock does to the undo records and the height index.  Then the       *)
(* inductive invariant of chain adoption, and the steps of start-up, of      *)
(* giving up and of beginning an adoption, for every block tree and every    *)
(* choice of transactions, crashes and index depths.                         *)
EXTENDS ChainAdoption, TLAPS

(* A leaf goes to the SMT solver with this limit, unless it names Zenon.     *)
USE SMTT(30)

-----------------------------------------------------------------------------
(* Heights up to z, and above x up to y, without those above y.              *)
LEMMA CutAbove ==
    ASSUME NEW x \in Nat, NEW y \in Nat, NEW z \in Nat, x <= y, x <= z
    PROVE  ((0..z) \cup ((x + 1)..y)) \ ((y + 1)..z) = 0..y
  OBVIOUS

LEMMA FromOne == ASSUME NEW n \in Nat PROVE \A g \in 1..n : g \in 0..n
  OBVIOUS

-----------------------------------------------------------------------------
(* Transactions and coins.                                                   *)

(* A block has at least one transaction.                                     *)
LEMMA LenTxs == ASSUME NEW b \in Block PROVE Len(Txs[b]) \in Nat /\ Len(Txs[b]) >= 1
<1>1. Txs[b] \in Seq(Tx) /\ Len(Txs[b]) >= 1
  BY TreeAssumption
<1> QED
  BY <1>1

(* Heights: genesis is the one block of height 0, a child is one above.      *)
LEMMA Heights ==
    ASSUME NEW b \in Block
    PROVE  /\ Height[b] \in Nat /\ (Height[b] = 0 <=> b = Genesis)
           /\ b # Genesis => Parent[b] \in Block /\ Height[Parent[b]] = Height[b] - 1
<1>1. Height[b] \in Nat /\ Height[Genesis] = 0
  BY TreeAssumption
<1>2. ASSUME b # Genesis PROVE Parent[b] \in Block /\ Height[b] = Height[Parent[b]] + 1
  BY <1>2, TreeAssumption
<1>3. ASSUME b # Genesis PROVE Height[Parent[b]] \in Nat
  BY <1>2, <1>3, TreeAssumption
<1> QED
  BY <1>1, <1>2, <1>3

(* One step of the reference replay, read both ways.                         *)
LEMMA ReplayStep ==
    ASSUME NEW b \in Block, NEW k \in 1..Len(Txs[b])
    PROVE  LET u == UtxoAt[b][k - 1]
           IN  /\ UtxoAt[b][k].ok =>
                    /\ u.ok /\ ValidateTransaction(u.coins, Txs[b][k], Height[b])
                    /\ UtxoAt[b][k].coins = ApplyTransaction(u.coins, Txs[b][k], Height[b])
               /\ u.ok /\ ValidateTransaction(u.coins, Txs[b][k], Height[b]) =>
                    /\ UtxoAt[b][k].ok
                    /\ UtxoAt[b][k].coins = ApplyTransaction(u.coins, Txs[b][k], Height[b])
<1> DEFINE u == UtxoAt[b][k - 1]
           good == u.ok /\ ValidateTransaction(u.coins, Txs[b][k], Height[b])
           coins == ApplyTransaction(u.coins, Txs[b][k], Height[b])
<1>1. UtxoAt[b][k] = IF good THEN [ok |-> TRUE, coins |-> coins] ELSE [ok |-> FALSE, coins |-> Empty]
  BY ReplayAssumption, Zenon
<1> HIDE DEF good, coins
<1>2. good => UtxoAt[b][k].ok /\ UtxoAt[b][k].coins = coins
  BY <1>1
<1>3. ~good => ~UtxoAt[b][k].ok
  BY <1>1
<1> QED
  BY <1>2, <1>3 DEF good, coins

(* The same one transaction further.                                         *)
LEMMA ReplayNext ==
    ASSUME NEW b \in Block, NEW k \in Nat, k + 1 \in 1..Len(Txs[b]), UtxoAt[b][k].ok,
           ValidateTransaction(UtxoAt[b][k].coins, Txs[b][k + 1], Height[b])
    PROVE  /\ UtxoAt[b][k + 1].ok
           /\ UtxoAt[b][k + 1].coins = ApplyTransaction(UtxoAt[b][k].coins, Txs[b][k + 1], Height[b])
<1> DEFINE n == k + 1
<1>1. n \in 1..Len(Txs[b]) /\ n - 1 = k
  OBVIOUS
<1>2. UtxoAt[b][n - 1].ok /\ ValidateTransaction(UtxoAt[b][n - 1].coins, Txs[b][n], Height[b])
  BY <1>1, Zenon
<1> HIDE DEF n
<1>3. UtxoAt[b][n].ok /\ UtxoAt[b][n].coins = ApplyTransaction(UtxoAt[b][n - 1].coins, Txs[b][n], Height[b])
  BY <1>1, <1>2, ReplayStep
<1> QED
  BY <1>1, <1>3 DEF n

(* A block is replayed on top of its parent.                                 *)
LEMMA ReplayStart ==
    ASSUME NEW b \in Block
    PROVE  /\ b # Genesis => UtxoAt[b][0] = Coins(Parent[b])
           /\ b = Genesis => UtxoAt[b][0].ok /\ UtxoAt[b][0].coins = Empty
BY ReplayAssumption DEF CoinsBefore

(* What a valid transaction of a block creates again.                        *)
LEMMA Recreates ==
    ASSUME NEW b \in Block, NEW k \in 1..Len(Txs[b]), UtxoAt[b][k].ok
    PROVE  TxOut[Txs[b][k]] \cap DOMAIN UtxoAt[b][k - 1].coins \subseteq Recreated
<1> DEFINE made(n) == TxOut[Txs[b][n]] \cap DOMAIN UtxoAt[b][n - 1].coins
           valid == {n \in 1..Len(Txs[b]) : UtxoAt[b][n].ok}
           all == UNION {made(n) : n \in valid}
<1>1. all \subseteq Recreated
  BY DEF Recreated
<1>2. k \in valid
  OBVIOUS
<1> HIDE DEF made, valid
<1>3. made(k) \subseteq all
  BY <1>2
<1> HIDE DEF all
<1> QED
  BY <1>1, <1>3 DEF made

(* Coins agree with themselves.                                              *)
LEMMA AgreesSelf == ASSUME NEW r PROVE Agrees(r, r)
BY Zenon DEF Agrees

(* A transaction that validates against coins that agree with the replay     *)
(* also validates in the replay; it leaves coins that agree, and its undo    *)
(* record is that of the replay.                                             *)
LEMMA AgreesApply ==
    ASSUME NEW u, NEW r, Agrees(u, r), NEW t, NEW h, ValidateTransaction(u, t, h)
    PROVE  /\ ValidateTransaction(r, t, h)
           /\ Agrees(ApplyTransaction(u, t, h), ApplyTransaction(r, t, h))
           /\ TxUndo(u, t) = TxUndo(r, t)
<1> DEFINE v == ApplyTransaction(u, t, h)
           w == ApplyTransaction(r, t, h)
<1>1. /\ DOMAIN u \subseteq DOMAIN r /\ DOMAIN r \ DOMAIN u \subseteq Recreated
      /\ \A o \in DOMAIN u : u[o] = r[o]
  BY Zenon DEF Agrees
<1>2. /\ Sound[t]
      /\ \A o \in TxIn[t] : o \in DOMAIN u /\ (o \in Coinbase => h >= u[o] + Maturity)
  BY Zenon DEF ValidateTransaction
<1>3. ValidateTransaction(r, t, h)
  BY <1>1, <1>2 DEF ValidateTransaction
<1>4. \A o \in TxIn[t] : u[o] = r[o]
  BY <1>1, <1>2
<1>5. TxUndo(u, t) = TxUndo(r, t)
  BY <1>4 DEF TxUndo
<1>6. /\ DOMAIN v = (DOMAIN u \ TxIn[t]) \cup TxOut[t]
      /\ \A o \in DOMAIN v : v[o] = IF o \in TxOut[t] THEN h ELSE u[o]
  BY DEF ApplyTransaction, Put, Del
<1>7. /\ DOMAIN w = (DOMAIN r \ TxIn[t]) \cup TxOut[t]
      /\ \A o \in DOMAIN w : w[o] = IF o \in TxOut[t] THEN h ELSE r[o]
  BY DEF ApplyTransaction, Put, Del
<1> HIDE DEF v, w
<1>8. DOMAIN v \subseteq DOMAIN w /\ DOMAIN w \ DOMAIN v \subseteq Recreated
  BY <1>1, <1>6, <1>7
<1>9. \A o \in DOMAIN v : v[o] = w[o]
  BY <1>1, <1>6, <1>7, <1>8
<1>10. Agrees(v, w)
  BY <1>8, <1>9, Zenon DEF Agrees
<1> QED
  BY <1>3, <1>5, <1>10 DEF v, w

(* undoTransaction reverses applyTransaction: the coins a transaction spent  *)
(* come back with the height they had, its own outputs go, and with them an  *)
(* outpoint that it had created for the second time.                         *)
LEMMA AgreesUndo ==
    ASSUME NEW u, NEW r, NEW t, NEW h, Agrees(u, ApplyTransaction(r, t, h)),
           TxIn[t] \subseteq DOMAIN r, TxOut[t] \cap DOMAIN r \subseteq Recreated
    PROVE  Agrees(UndoTransaction(u, TxUndo(r, t)), r)
<1> DEFINE a == ApplyTransaction(r, t, h)
           v == UndoTransaction(u, TxUndo(r, t))
<1>1. DOMAIN a = (DOMAIN r \ TxIn[t]) \cup TxOut[t]
  BY DEF ApplyTransaction, Put, Del
<1>2. \A o \in DOMAIN a : o \notin TxOut[t] => a[o] = r[o]
  BY DEF ApplyTransaction, Put, Del
<1>3. DOMAIN v = (DOMAIN u \ TxOut[t]) \cup TxIn[t]
  BY DEF UndoTransaction, TxUndo
<1>4. \A o \in DOMAIN v : v[o] = IF o \in TxIn[t] THEN r[o] ELSE u[o]
  BY DEF UndoTransaction, TxUndo
<1>5. /\ DOMAIN u \subseteq DOMAIN a /\ DOMAIN a \ DOMAIN u \subseteq Recreated
      /\ \A o \in DOMAIN u : u[o] = a[o]
  BY Zenon DEF Agrees
<1> HIDE DEF a, v
<1>6. DOMAIN v \subseteq DOMAIN r
  BY <1>1, <1>3, <1>5
<1>7. \A o \in DOMAIN v : v[o] = r[o]
  BY <1>2, <1>3, <1>4, <1>5
<1>8. DOMAIN r \ DOMAIN v \subseteq Recreated
  BY <1>1, <1>3, <1>5
<1> QED
  BY <1>6, <1>7, <1>8, Zenon DEF Agrees, v

(* The coins of the first start, however often it is repeated.               *)
LEMMA GenesisReplay ==
    /\ Coins(Genesis).ok
    /\ ApplyTransaction(Empty, Txs[Genesis][1], 0) = Coins(Genesis).coins
    /\ ApplyTransaction(Coins(Genesis).coins, Txs[Genesis][1], 0) = Coins(Genesis).coins
<1> DEFINE t == Txs[Genesis][1]
<1>1. Genesis \in Block /\ Height[Genesis] = 0 /\ Len(Txs[Genesis]) = 1
  BY TreeAssumption, GenesisAssumption
<1>2. UtxoAt[Genesis][0].ok /\ UtxoAt[Genesis][0].coins = Empty
  BY <1>1, ReplayStart
<1>3. ValidateTransaction(Empty, t, 0)
  BY GenesisAssumption DEF ValidateTransaction
<1>4. UtxoAt[Genesis][1].ok /\ UtxoAt[Genesis][1].coins = ApplyTransaction(Empty, t, 0)
  BY <1>1, <1>2, <1>3, ReplayStep
<1>5. Coins(Genesis).coins = ApplyTransaction(Empty, t, 0)
  BY <1>1, <1>4 DEF Coins
<1>6. ApplyTransaction(ApplyTransaction(Empty, t, 0), t, 0) = ApplyTransaction(Empty, t, 0)
  <2>1. TxIn[t] = {}
    BY GenesisAssumption
  <2>2. ApplyTransaction(Empty, t, 0) = [o \in TxOut[t] |-> 0]
    BY <2>1 DEF ApplyTransaction, Put, Del, Empty
  <2>3. ApplyTransaction([o \in TxOut[t] |-> 0], t, 0) = [o \in TxOut[t] |-> 0]
    BY <2>1 DEF ApplyTransaction, Put, Del
  <2> QED
    BY <2>2, <2>3
<1> QED
  BY <1>1, <1>4, <1>5, <1>6 DEF Coins

-----------------------------------------------------------------------------
(* Coins and undo records part-way through a block.                          *)

(* u are the coins after k transactions of b, all valid so far, but for      *)
(* outpoints created twice.                                                  *)
Staged(b, k, u) == k \in 0..Len(Txs[b]) /\ UtxoAt[b][k].ok /\ Agrees(u, UtxoAt[b][k].coins)

(* rec are the undo records of the first k transactions of b.                *)
Recorded(b, k, rec) == rec = [i \in 1..k |-> TxUndo(UtxoAt[b][i - 1].coins, Txs[b][i])]

(* A sequence is a function on the interval up to its length.                *)
LEMMA SeqIsFunction ==
    ASSUME NEW S, NEW n \in Nat, NEW s \in Seq(S), Len(s) = n
    PROVE  s \in [1..n -> S]
OBVIOUS

(* Appending the record of one more transaction.                             *)
LEMMA AppendUndo ==
    ASSUME NEW f, NEW g, NEW n \in Nat, NEW r, f = [i \in 1..n |-> g[i]], g[n + 1] = r
    PROVE  Append(f, r) = [i \in 1..(n + 1) |-> g[i]]
<1> DEFINE S == {g[i] : i \in 1..(n + 1)}
<1>1. f \in [1..n -> S] /\ r \in S
  OBVIOUS
<1> HIDE DEF S
<1>2. f \in Seq(S)
  BY <1>1
<1>3. Len(f) = n
  BY <1>1, <1>2
<1>4. /\ Append(f, r) \in Seq(S) /\ Len(Append(f, r)) = n + 1
      /\ \A i \in 1..n : Append(f, r)[i] = f[i]
      /\ Append(f, r)[n + 1] = r
  BY <1>1, <1>2, <1>3
<1>5. Append(f, r) \in [1..(n + 1) -> S]
  <2>1. n + 1 \in Nat
    OBVIOUS
  <2> QED
    BY <1>4, <2>1, SeqIsFunction, Zenon
<1>6. \A i \in 1..(n + 1) : Append(f, r)[i] = g[i]
  BY <1>4
<1> QED
  BY <1>5, <1>6, Zenon

(* connectBlock, one transaction on.                                         *)
LEMMA ApplyOne ==
    ASSUME NEW b \in Block, NEW k, NEW u, NEW rec, Staged(b, k, u), Recorded(b, k, rec),
           k < Len(Txs[b]), ValidateTransaction(u, Txs[b][k + 1], Height[b])
    PROVE  /\ Staged(b, k + 1, ApplyTransaction(u, Txs[b][k + 1], Height[b]))
           /\ Recorded(b, k + 1, Append(rec, TxUndo(u, Txs[b][k + 1])))
<1> DEFINE n == Len(Txs[b])
           log == [i \in 1..n |-> TxUndo(UtxoAt[b][i - 1].coins, Txs[b][i])]
           r == UtxoAt[b][k].coins
           t == Txs[b][k + 1]
<1>1. n \in Nat /\ k \in Nat /\ k + 1 \in 1..n /\ k + 1 \in 0..n /\ (k + 1) - 1 = k
  BY LenTxs DEF Staged
<1>2. UtxoAt[b][k].ok /\ Agrees(u, r) /\ ValidateTransaction(u, t, Height[b])
  BY Zenon DEF Staged
<1> HIDE DEF r, t
<1>3. /\ ValidateTransaction(r, t, Height[b]) /\ TxUndo(u, t) = TxUndo(r, t)
      /\ Agrees(ApplyTransaction(u, t, Height[b]), ApplyTransaction(r, t, Height[b]))
  BY <1>2, AgreesApply, Zenon
<1>4. Staged(b, k + 1, ApplyTransaction(u, t, Height[b]))
  <2>1. UtxoAt[b][k + 1].ok /\ UtxoAt[b][k + 1].coins = ApplyTransaction(r, t, Height[b])
    BY <1>1, <1>2, <1>3, ReplayNext, Zenon DEF r, t
  <2> QED
    BY <1>1, <1>3, <2>1, Zenon DEF Staged
<1>5. \A i \in 1..n : log[i] = TxUndo(UtxoAt[b][i - 1].coins, Txs[b][i])
  OBVIOUS
<1>6. log[k + 1] = TxUndo(u, Txs[b][k + 1])
  BY <1>1, <1>3, <1>5, Zenon DEF r, t
<1>7. \A i \in 1..k : i \in 1..n
  BY <1>1
<1>8. \A i \in 1..(k + 1) : i \in 1..n
  BY <1>1
<1> HIDE DEF log, n
<1>9. rec = [i \in 1..k |-> log[i]]
  BY <1>5, <1>7 DEF Recorded
<1>10. Append(rec, TxUndo(u, Txs[b][k + 1])) = [i \in 1..(k + 1) |-> log[i]]
  BY <1>1, <1>6, <1>9, AppendUndo
<1>11. Recorded(b, k + 1, Append(rec, TxUndo(u, Txs[b][k + 1])))
  BY <1>5, <1>8, <1>10, Zenon DEF Recorded
<1> QED
  BY <1>4, <1>11, Zenon DEF t

(* disconnectBlock, one transaction back.                                    *)
LEMMA UndoOne ==
    ASSUME NEW b \in Block, NEW k, NEW u, NEW rec, Staged(b, k, u), k > 0,
           Recorded(b, Len(Txs[b]), rec)
    PROVE  Staged(b, k - 1, UndoTransaction(u, rec[k]))
<1> DEFINE before == UtxoAt[b][k - 1].coins
           t == Txs[b][k]
<1>1. k \in 1..Len(Txs[b]) /\ k - 1 \in 0..Len(Txs[b])
  BY LenTxs DEF Staged
<1>2. UtxoAt[b][k].ok /\ Agrees(u, UtxoAt[b][k].coins)
  BY Zenon DEF Staged
<1>3. /\ UtxoAt[b][k - 1].ok /\ ValidateTransaction(before, t, Height[b])
      /\ UtxoAt[b][k].coins = ApplyTransaction(before, t, Height[b])
  BY <1>1, <1>2, ReplayStep
<1>4. rec[k] = TxUndo(before, t)
  BY <1>1 DEF Recorded
<1>5. TxIn[t] \subseteq DOMAIN before
  BY <1>3 DEF ValidateTransaction
<1>6. TxOut[t] \cap DOMAIN before \subseteq Recreated
  BY <1>1, <1>2, Recreates, Zenon
<1> HIDE DEF before, t
<1>7. Agrees(UndoTransaction(u, rec[k]), before)
  BY <1>2, <1>3, <1>4, <1>5, <1>6, AgreesUndo, Zenon
<1> QED
  BY <1>1, <1>3, <1>7, Zenon DEF Staged, before

(* Before the first transaction of a block the coins are its parent's.       *)
LEMMA StagedParent ==
    ASSUME NEW b \in Block \ {Genesis}, NEW u
    PROVE  Staged(b, 0, u) <=> Staged(Parent[b], Len(Txs[Parent[b]]), u)
<1>1. Parent[b] \in Block
  BY Heights
<1>2. UtxoAt[b][0] = UtxoAt[Parent[b]][Len(Txs[Parent[b]])]
  BY ReplayStart DEF Coins
<1>3. 0 \in 0..Len(Txs[b]) /\ Len(Txs[Parent[b]]) \in 0..Len(Txs[Parent[b]])
  BY <1>1, LenTxs
<1> QED
  BY <1>2, <1>3 DEF Staged

(* After the last transaction, the staged coins agree with the block's.      *)
LEMMA StagedWhole ==
    ASSUME NEW b \in Block, NEW u
    PROVE  Staged(b, Len(Txs[b]), u) <=> Coins(b).ok /\ Agrees(u, Coins(b).coins)
<1>1. Len(Txs[b]) \in 0..Len(Txs[b])
  BY LenTxs
<1> QED
  BY <1>1 DEF Staged, Coins

(* Before the first transaction nothing is recorded.                         *)
LEMMA RecordedNone == ASSUME NEW b PROVE Recorded(b, 0, << >>)
<1>1. 1..0 = {}
  OBVIOUS
<1> QED
  BY <1>1 DEF Recorded

-----------------------------------------------------------------------------
(* Chains, and the paths of a reorganisation, as plain functions of height.  *)

(* c is the chain from genesis to t, by height.                              *)
IsChain(c, t) ==
    /\ t \in Block /\ DOMAIN c = 0..Height[t] /\ c[0] = Genesis /\ c[Height[t]] = t
    /\ \A h \in 0..Height[t] : c[h] \in Block /\ Height[c[h]] = h
    /\ \A h \in 1..Height[t] : c[h] # Genesis /\ Parent[c[h]] = c[h - 1]

ChainSet(c, n) == {c[g] : g \in 1..n}

(* conn are the blocks above a on the way up to head.                        *)
Below(a, conn, g) == IF g = Height[a] + 1 THEN a ELSE conn[g - 1]

Path(a, head, conn) ==
    /\ a \in Block /\ head \in Block /\ Height[a] <= Height[head]
    /\ DOMAIN conn = (Height[a] + 1)..Height[head]
    /\ \A g \in DOMAIN conn :
        conn[g] \in Block \ {Genesis} /\ Height[conn[g]] = g /\ Parent[conn[g]] = Below(a, conn, g)
    /\ IF Height[a] = Height[head] THEN a = head ELSE conn[Height[head]] = head

(* b is on the chain c, disc are the blocks of c above it.                   *)
Fork(b, disc, c, t) ==
    /\ b \in Block /\ Height[b] <= Height[t] /\ c[Height[b]] = b
    /\ DOMAIN disc = (Height[b] + 1)..Height[t] /\ \A g \in DOMAIN disc : disc[g] = c[g]

(* The chain c up to a, then the path conn.                                  *)
Joined(c, a, conn, g) == IF g <= Height[a] THEN c[g] ELSE conn[g]
JoinedSet(c, a, conn, n) == {Joined(c, a, conn, g) : g \in 1..n}

(* The height index f describes that chain up to n; what it had above the    *)
(* fork on the old chain is still there.                                     *)
Indexed(f, c, a, conn, t, n) ==
    /\ DOMAIN f = (0..Height[t]) \cup ((Height[a] + 1)..n)
    /\ \A g \in 0..n : f[g] = Joined(c, a, conn, g)

HasUndo(f, B) == DOMAIN f = B /\ \A b \in B : f[b] = ExactUndo(b)

(* planReorg starts with an empty path at the head ...                       *)
LEMMA PathStart == ASSUME NEW b \in Block PROVE Path(b, b, Empty)
<1>1. Height[b] \in Nat
  BY Heights
<1>2. DOMAIN Empty = {} /\ (Height[b] + 1)..Height[b] = {}
  BY <1>1 DEF Empty
<1> QED
  BY <1>1, <1>2 DEF Path

(* ... and with nothing to disconnect at the tip.                            *)
LEMMA ForkStart == ASSUME NEW c, NEW t, IsChain(c, t) PROVE Fork(t, Empty, c, t)
<1>1. t \in Block /\ Height[t] \in Nat /\ c[Height[t]] = t
  BY Heights DEF IsChain
<1>2. DOMAIN Empty = {} /\ (Height[t] + 1)..Height[t] = {}
  BY <1>1 DEF Empty
<1> QED
  BY <1>1, <1>2 DEF Fork

(* One step of planReorg's walk down from the block to adopt ...             *)
LEMMA WalkConnect ==
    ASSUME NEW a, NEW head, NEW conn, Path(a, head, conn), a # Genesis
    PROVE  Path(Parent[a], head, Put(conn, {Height[a]}, a))
<1> DEFINE n == Height[a]
           top == Height[head]
           p == Parent[a]
           f == Put(conn, {n}, a)
<1>1. /\ a \in Block \ {Genesis} /\ head \in Block /\ n \in Nat /\ top \in Nat /\ n <= top
      /\ p \in Block /\ Height[p] = n - 1
  BY Heights DEF Path
<1>2. DOMAIN conn = (n + 1)..top /\ \A g \in (n + 1)..top :
        conn[g] \in Block \ {Genesis} /\ Height[conn[g]] = g /\ Parent[conn[g]] = Below(a, conn, g)
  BY DEF Path
<1>3. IF n = top THEN a = head ELSE conn[top] = head
  BY DEF Path
<1>4. /\ DOMAIN f = DOMAIN conn \cup {n} /\ f[n] = a
      /\ \A g \in DOMAIN conn : g # n => f[g] = conn[g]
  BY DEF Put
<1>5. \A g \in (n + 1)..top : Below(a, conn, g) = IF g = n + 1 THEN a ELSE conn[g - 1]
  BY DEF Below
<1>6. \A g : Below(p, f, g) = IF g = Height[p] + 1 THEN p ELSE f[g - 1]
  BY DEF Below
<1> HIDE DEF n, top, p, f
<1>7. DOMAIN f = (Height[p] + 1)..top
  <2>1. (n + 1)..top \cup {n} = n..top /\ Height[p] + 1 = n
    BY <1>1
  <2> QED
    BY <1>2, <1>4, <2>1
<1>8. ASSUME NEW g \in DOMAIN f
      PROVE  f[g] \in Block \ {Genesis} /\ Height[f[g]] = g /\ Parent[f[g]] = Below(p, f, g)
  <2>1. CASE g = n
    BY <1>1, <1>4, <1>6, <2>1 DEF n, p
  <2>2. CASE g # n
    <3>1. g \in (n + 1)..top /\ f[g] = conn[g] /\ g # Height[p] + 1
      BY <1>1, <1>2, <1>4, <2>2
    <3>2. f[g - 1] = Below(a, conn, g)
      <4>1. CASE g = n + 1
        BY <1>1, <1>4, <1>5, <3>1, <4>1
      <4>2. CASE g # n + 1
        <5>1. g - 1 \in (n + 1)..top /\ g - 1 # n
          BY <1>1, <3>1, <4>2
        <5> QED
          BY <1>2, <1>4, <1>5, <3>1, <4>2, <5>1
      <4> QED
        BY <4>1, <4>2
    <3> QED
      BY <1>2, <1>6, <3>1, <3>2
  <2> QED
    BY <2>1, <2>2
<1>9. f[top] = head
  <2>1. CASE n = top
    BY <1>3, <1>4, <2>1
  <2>2. CASE n # top
    <3>1. top \in (n + 1)..top
      BY <1>1, <2>2
    <3> QED
      BY <1>2, <1>3, <1>4, <2>2, <3>1
  <2> QED
    BY <2>1, <2>2
<1>10. Height[p] <= top /\ Height[p] # top
  BY <1>1
<1> QED
  BY <1>1, <1>7, <1>8, <1>9, <1>10, Zenon DEF Path, n, top, p, f

(* ... and down from the tip.                                                *)
LEMMA WalkDisconnect ==
    ASSUME NEW c, NEW t, IsChain(c, t), NEW b, NEW disc, Fork(b, disc, c, t), b # Genesis
    PROVE  Fork(Parent[b], Put(disc, {Height[b]}, b), c, t)
<1> DEFINE n == Height[b]
           top == Height[t]
           p == Parent[b]
           f == Put(disc, {n}, b)
<1>1. /\ n \in Nat \ {0} /\ top \in Nat /\ n <= top /\ p \in Block /\ Height[p] = n - 1
  BY Heights DEF Fork, IsChain
<1>2. c[n] = b /\ DOMAIN disc = (n + 1)..top /\ \A g \in DOMAIN disc : disc[g] = c[g]
  BY Zenon DEF Fork
<1>3. \A h \in 1..top : Parent[c[h]] = c[h - 1]
  BY Zenon DEF IsChain
<1>4. /\ DOMAIN f = DOMAIN disc \cup {n} /\ f[n] = b
      /\ \A g \in DOMAIN disc : g # n => f[g] = disc[g]
  BY Zenon DEF Put
<1> HIDE DEF f, top
<1>5. c[n - 1] = p
  BY <1>1, <1>2, <1>3
<1> HIDE DEF n, p
<1>6. (n + 1)..top \cup {n} = (Height[p] + 1)..top
  BY <1>1
<1>7. DOMAIN f = (Height[p] + 1)..top
  BY <1>2, <1>4, <1>6
<1>8. \A g \in DOMAIN f : f[g] = c[g]
  BY <1>2, <1>4
<1>9. Height[p] <= top /\ c[Height[p]] = p
  BY <1>1, <1>5
<1> QED
  BY <1>1, <1>7, <1>8, <1>9, Zenon DEF Fork, n, top, p, f

(* A block of the path, and the one below it.                                *)
LEMMA PathBlock ==
    ASSUME NEW a, NEW head, NEW conn, Path(a, head, conn),
           NEW g \in (Height[a] + 1)..Height[head]
    PROVE  /\ conn[g] \in Block \ {Genesis} /\ Height[conn[g]] = g
           /\ g = Height[a] + 1 => Parent[conn[g]] = a
           /\ g # Height[a] + 1 => Parent[conn[g]] = conn[g - 1]
           /\ g = Height[head] => conn[g] = head
<1>1. conn[g] \in Block \ {Genesis} /\ Height[conn[g]] = g /\ Parent[conn[g]] = Below(a, conn, g)
  BY Zenon DEF Path
<1>2. Height[a] \in Nat /\ Height[head] \in Nat
  BY Heights, Zenon DEF Path
<1>3. g = Height[head] => conn[g] = head
  BY <1>2 DEF Path
<1> QED
  BY <1>1, <1>3, Zenon DEF Below

(* The chain that an adoption builds is one from genesis to the new head.    *)
LEMMA JoinedChain ==
    ASSUME NEW c, NEW t, IsChain(c, t), NEW a, NEW head, NEW conn, Path(a, head, conn),
           NEW disc, Fork(a, disc, c, t)
    PROVE  /\ Height[a] \in Nat /\ Height[head] \in Nat /\ Height[t] \in Nat
           /\ Height[a] <= Height[head] /\ Height[a] <= Height[t]
           /\ IsChain([g \in 0..Height[head] |-> Joined(c, a, conn, g)], head)
<1> DEFINE n == Height[a]
           top == Height[head]
           f == [g \in 0..top |-> Joined(c, a, conn, g)]
<1>1. n \in Nat /\ top \in Nat /\ Height[t] \in Nat /\ n <= top /\ n <= Height[t] /\ c[n] = a
      /\ head \in Block
  BY Heights, Zenon DEF Path, Fork, IsChain
<1>2. \A g \in 0..top : f[g] = IF g <= n THEN c[g] ELSE conn[g]
  BY Zenon DEF Joined
<1>3. \A h \in 0..n : c[h] \in Block /\ Height[c[h]] = h
  BY <1>1 DEF IsChain
<1>4. c[0] = Genesis /\ \A h \in 1..n : c[h] # Genesis /\ Parent[c[h]] = c[h - 1]
  BY <1>1 DEF IsChain
<1>5. \A g \in (n + 1)..top :
        /\ conn[g] \in Block \ {Genesis} /\ Height[conn[g]] = g
        /\ g = n + 1 => Parent[conn[g]] = a
        /\ g # n + 1 => Parent[conn[g]] = conn[g - 1]
        /\ g = top => conn[g] = head
  BY PathBlock
<1>6. n = top => a = head
  BY DEF Path
<1>7. DOMAIN f = 0..top
  BY Zenon
<1> HIDE DEF f, n, top
<1>8. f[0] = Genesis /\ f[top] = head
  BY <1>1, <1>2, <1>4, <1>5, <1>6
<1>9. ASSUME NEW h \in 0..top PROVE f[h] \in Block /\ Height[f[h]] = h
  BY <1>1, <1>2, <1>3, <1>5
<1>10. ASSUME NEW h \in 1..top PROVE f[h] # Genesis /\ Parent[f[h]] = f[h - 1]
  <2>1. h \in 0..top /\ h - 1 \in 0..top
    BY <1>1
  <2>2. CASE h <= n
    BY <1>1, <1>2, <1>4, <2>1, <2>2
  <2>3. CASE h = n + 1
    BY <1>1, <1>2, <1>5, <2>1, <2>3
  <2>4. CASE h > n + 1
    BY <1>1, <1>2, <1>5, <2>1, <2>4
  <2> QED
    BY <1>1, <2>2, <2>3, <2>4
<1>11. IsChain(f, head)
  BY <1>1, <1>7, <1>8, <1>9, <1>10, Zenon DEF IsChain, top
<1> QED
  BY <1>1, <1>11, Zenon DEF f, n, top

(* Undo records: the one of the block disconnected goes ...                  *)
LEMMA DropUndo ==
    ASSUME NEW c, NEW t, IsChain(c, t), NEW h \in 1..Height[t], NEW f, HasUndo(f, ChainSet(c, h))
    PROVE  HasUndo(Del(f, {c[h]}), ChainSet(c, h - 1))
<1>1. Height[t] \in Nat
  BY Heights DEF IsChain
<1>2. \A g \in 0..Height[t] : Height[c[g]] = g
  BY DEF IsChain
<1>3. \A g \in 1..(h - 1) : g \in 1..h /\ g \in 0..Height[t] /\ g # h
  BY <1>1
<1>4. \A g \in 1..(h - 1) : g \in 1..h /\ c[g] # c[h]
  BY <1>1, <1>2, <1>3
<1>5. \A g \in 1..h : g = h \/ g \in 1..(h - 1)
  BY <1>1
<1>6. ChainSet(c, h) \ {c[h]} = ChainSet(c, h - 1)
  BY <1>4, <1>5 DEF ChainSet
<1>7. DOMAIN f = ChainSet(c, h) /\ \A b \in ChainSet(c, h) : f[b] = ExactUndo(b)
  BY DEF HasUndo
<1>8. DOMAIN Del(f, {c[h]}) = ChainSet(c, h - 1)
  BY <1>6, <1>7 DEF Del
<1>9. \A b \in ChainSet(c, h - 1) : Del(f, {c[h]})[b] = ExactUndo(b)
  BY <1>6, <1>7 DEF Del
<1> QED
  BY <1>8, <1>9, Zenon DEF HasUndo

(* ... and the one of the block connected comes.                             *)
LEMMA AddUndo ==
    ASSUME NEW c, NEW a, NEW conn, NEW h \in Nat \ {0}, NEW f, HasUndo(f, JoinedSet(c, a, conn, h - 1)),
           NEW b, b = Joined(c, a, conn, h)
    PROVE  HasUndo(Put(f, {b}, ExactUndo(b)), JoinedSet(c, a, conn, h))
<1>1. \A g : g \in 1..h <=> g = h \/ g \in 1..(h - 1)
  OBVIOUS
<1>2. JoinedSet(c, a, conn, h) = JoinedSet(c, a, conn, h - 1) \cup {b}
  BY <1>1 DEF JoinedSet
<1> QED
  BY <1>2 DEF HasUndo, Put

(* Connecting a block extends the staged height index by one height.         *)
LEMMA AddIndex ==
    ASSUME NEW c, NEW a, NEW conn, NEW t, NEW f, NEW h \in Nat, Height[a] \in Nat, Height[t] \in Nat,
           Height[a] < h, Height[a] <= Height[t],
           Indexed(f, c, a, conn, t, h - 1), NEW b, b = Joined(c, a, conn, h)
    PROVE  Indexed(Put(f, {h}, b), c, a, conn, t, h)
<1>1. DOMAIN f = (0..Height[t]) \cup ((Height[a] + 1)..(h - 1))
      /\ \A g \in 0..(h - 1) : f[g] = Joined(c, a, conn, g)
  BY DEF Indexed
<1>2. DOMAIN Put(f, {h}, b) = DOMAIN f \cup {h} /\ Put(f, {h}, b)[h] = b
      /\ \A g \in DOMAIN f : g # h => Put(f, {h}, b)[g] = f[g]
  BY DEF Put
<1>3. ((Height[a] + 1)..(h - 1)) \cup {h} = (Height[a] + 1)..h
  OBVIOUS
<1>4. DOMAIN Put(f, {h}, b) = (0..Height[t]) \cup ((Height[a] + 1)..h)
  BY <1>1, <1>2, <1>3, Zenon
<1>5. \A g \in 0..h : g # h => g \in 0..(h - 1) /\ g \in (0..Height[t]) \cup ((Height[a] + 1)..(h - 1))
  OBVIOUS
<1>6. \A g \in 0..h : Put(f, {h}, b)[g] = Joined(c, a, conn, g)
  BY <1>1, <1>2, <1>5, Zenon
<1> QED
  BY <1>4, <1>6, Zenon DEF Indexed

(* When everything above the fork is disconnected ...                        *)
LEMMA AtFork ==
    ASSUME NEW c, NEW a, NEW conn, NEW t, IsChain(c, t), Height[a] \in Nat
    PROVE  /\ Indexed(c, c, a, conn, t, Height[a])
           /\ JoinedSet(c, a, conn, Height[a]) = ChainSet(c, Height[a])
<1>1. \A g \in 0..Height[a] : Joined(c, a, conn, g) = c[g]
  BY DEF Joined
<1>2. (Height[a] + 1)..Height[a] = {}
  OBVIOUS
<1>3. DOMAIN c = 0..Height[t]
  BY DEF IsChain
<1>4. \A g \in 1..Height[a] : g \in 0..Height[a]
  OBVIOUS
<1> QED
  BY <1>1, <1>2, <1>3, <1>4 DEF Indexed, JoinedSet, ChainSet

(* ... and when everything is connected and stale heights are cleared.       *)
LEMMA AtHead ==
    ASSUME NEW c, NEW t, IsChain(c, t), NEW a, NEW head, NEW conn, Path(a, head, conn),
           NEW disc, Fork(a, disc, c, t), NEW f, Indexed(f, c, a, conn, t, Height[head])
    PROVE  LET new == ClearCanonicalHashesAbove(f, Height[head], Height[t])
           IN  IsChain(new, head) /\ ChainSet(new, Height[head]) = JoinedSet(c, a, conn, Height[head])
<1> DEFINE top == Height[head]
           new == ClearCanonicalHashesAbove(f, top, Height[t])
           j == [g \in 0..top |-> Joined(c, a, conn, g)]
<1>1. Height[a] \in Nat /\ top \in Nat /\ Height[t] \in Nat /\ Height[a] <= top
      /\ Height[a] <= Height[t] /\ IsChain(j, head)
  BY JoinedChain
<1>2. DOMAIN f = (0..Height[t]) \cup ((Height[a] + 1)..top)
      /\ \A g \in 0..top : f[g] = Joined(c, a, conn, g)
  BY DEF Indexed
<1>3. /\ new = [g \in DOMAIN new |-> new[g]] /\ DOMAIN new = DOMAIN f \ ((top + 1)..Height[t])
      /\ \A g \in DOMAIN new : new[g] = f[g]
  BY DEF ClearCanonicalHashesAbove, Del
<1>4. ((0..Height[t]) \cup ((Height[a] + 1)..top)) \ ((top + 1)..Height[t]) = 0..top
  BY <1>1, CutAbove, Zenon
<1>5. DOMAIN new = 0..top
  BY <1>2, <1>3, <1>4
<1>6. \A g \in 0..top : new[g] = Joined(c, a, conn, g)
  BY <1>2, <1>3, <1>5, Zenon
<1>7. new = j
  BY <1>3, <1>5, <1>6, Zenon
<1>8. \A g \in 1..top : g \in 0..top
  BY <1>1, FromOne, Zenon
<1>9. ChainSet(new, top) = JoinedSet(c, a, conn, top)
  BY <1>6, <1>8 DEF ChainSet, JoinedSet
<1> QED
  BY <1>1, <1>7, <1>9

-----------------------------------------------------------------------------
(* The inductive invariant.                                                  *)

GenesisCoinSet == Coins(Genesis).coins

BatchFields == {"open", "utxo", "undo", "canon", "txIndex", "anchors", "addrIndex"}
JobFields == {"head", "a", "b", "conn", "disc", "h", "k", "rec", "replay"}

Shape ==
    /\ blocks \subseteq Block /\ tip \in Block \cup {None}
    /\ phase \in Phases
    /\ DOMAIN batch = BatchFields /\ DOMAIN job = JobFields
    /\ phase \in AdoptPhases => batch.open = TRUE
    /\ phase \notin AdoptPhases => batch.open = FALSE /\ job = NoJob

(* Before the first tip is written, the disk holds a prefix of what the      *)
(* first start writes, and a later start writes the same again.              *)
FirstStart ==
    /\ tip = None =>
        /\ phase \in {"down", "genesis coins", "genesis block", "genesis height", "genesis tip"}
        /\ utxo \in {Empty, GenesisCoinSet}
        /\ blocks \subseteq {Genesis}
        /\ DOMAIN undo = {}
        /\ DOMAIN canon \subseteq {0} /\ (0 \in DOMAIN canon => canon[0] = Genesis)
    /\ phase \in {"genesis coins", "genesis block", "genesis height", "genesis tip"} => tip = None
    /\ phase \in {"genesis block", "genesis height", "genesis tip"} => utxo = GenesisCoinSet
    /\ phase \in {"genesis height", "genesis tip"} => Genesis \in blocks
    /\ phase = "genesis tip" => 0 \in DOMAIN canon

(* Once there is a tip, the disk describes exactly the chain it ends.        *)
Disk ==
    /\ AncestryStored
    /\ tip # None =>
        /\ IsChain(canon, tip)
        /\ Staged(tip, Len(Txs[tip]), utxo)
        /\ HasUndo(undo, ChainSet(canon, Height[tip]))

(* What is being adopted, and the two paths planReorg has found so far.      *)
Planned ==
    /\ tip # None
    /\ job.head # Genesis /\ Parent[job.head] \in blocks /\ Weight[job.head] > Weight[tip]
    /\ Path(job.a, job.head, job.conn)
    /\ Fork(job.b, job.disc, canon, tip)

Planning == batch.utxo = utxo /\ batch.undo = undo /\ batch.canon = canon /\ job.rec = <<>>

(* The staged coins are those after k transactions of the block at height h, *)
(* and the blocks above it have lost their undo records.                     *)
Disconnecting ==
    /\ job.a = job.b
    /\ job.h \in Height[job.a]..Height[tip]
    /\ job.h = Height[job.a] => job.k = Len(Txs[job.a])
    /\ Staged(canon[job.h], job.k, batch.utxo)
    /\ HasUndo(batch.undo, ChainSet(canon, job.h))
    /\ batch.canon = canon /\ job.rec = <<>>

(* The staged coins are those after k transactions of the block of the path  *)
(* at height h, and the batch describes the chain up to the block below.     *)
Connecting ==
    /\ job.a = job.b
    /\ job.h \in (Height[job.a] + 1)..(Height[job.head] + 1)
    /\ job.h <= Height[job.head] =>
        Staged(job.conn[job.h], job.k, batch.utxo) /\ Recorded(job.conn[job.h], job.k, job.rec)
    /\ job.h > Height[job.head] => Staged(job.head, Len(Txs[job.head]), batch.utxo)
    /\ HasUndo(batch.undo, JoinedSet(canon, job.a, job.conn, job.h - 1))
    /\ Indexed(batch.canon, canon, job.a, job.conn, tip, job.h - 1)

ChainInv ==
    /\ Shape /\ FirstStart /\ Disk
    /\ phase # "collect"
    /\ phase \in AdoptPhases => Planned
    /\ phase = "plan" => Planning
    /\ phase = "disconnect" => Disconnecting
    /\ phase = "connect" => Connecting

(* Whoever is up or adopting has a tip: Node.start wrote one first.          *)
LEMMA HasTip == ChainInv /\ phase \in {"idle"} \cup AdoptPhases => tip # None
BY Zenon DEF ChainInv, FirstStart, AdoptPhases

(* Disk speaks of the chain on disk only.                                    *)
LEMMA DiskStays == Disk /\ UNCHANGED <<blocks, undo, canon, tip, utxo>> => Disk'
BY DEF Disk, AncestryStored

(* A step of an adoption that only changes the batch and local variables.    *)
LEMMA BatchStep ==
    ASSUME ChainInv, phase \in AdoptPhases, UNCHANGED <<blocks, undo, canon, tip, utxo>>,
           phase' \in AdoptPhases \ {"collect"},
           DOMAIN job' = JobFields, DOMAIN batch' = BatchFields, batch'.open = TRUE,
           Planned',
           phase' = "plan" => Planning',
           phase' = "disconnect" => Disconnecting',
           phase' = "connect" => Connecting'
    PROVE  ChainInv'
<1>1. tip # None
  BY HasTip
<1>2. Shape'
  BY Zenon DEF ChainInv, Shape, AdoptPhases, Phases
<1>3. FirstStart'
  BY <1>1, Zenon DEF FirstStart, AdoptPhases
<1>4. Disk'
  BY DiskStays DEF ChainInv
<1> QED
  BY <1>2, <1>3, <1>4, Zenon DEF ChainInv

-----------------------------------------------------------------------------
(* The steps that leave the chain alone: start-up, index maintenance,        *)
(* giving up and dying.                                                      *)

(* A step of Node.start that leaves the chain on disk alone.                 *)
LEMMA QuietStep ==
    ASSUME ChainInv, UNCHANGED <<blocks, undo, canon, tip, utxo, job, batch>>,
           phase \notin AdoptPhases, phase' \in Phases \ AdoptPhases,
           IF tip = None THEN phase = "down" /\ phase' = "genesis coins"
           ELSE phase' \in {"tx index", "address index", "forget address index", "idle"}
    PROVE  ChainInv'
<1>1. Disk'
  BY DiskStays, Zenon DEF ChainInv
<1>2. Shape'
  BY Zenon DEF ChainInv, Shape
<1>3. FirstStart'
  BY Zenon DEF ChainInv, FirstStart
<1> QED
  BY <1>1, <1>2, <1>3, Zenon DEF ChainInv, AdoptPhases

(* Starting, and every step that maintains an index.                         *)
LEMMA BootQuiet ==
    ASSUME ChainInv,
           \/ \E d \in Depths : Start(d)
           \/ BackfillTxIndex \/ ReconcileNothing \/ ReconcileBuild \/ ReconcileLoosen
           \/ SweepBatch \/ ReconcileTighten \/ DropAddressIndex \/ ForgetAddressIndex
    PROVE  ChainInv'
<1>1. CASE \E d \in Depths : Start(d)
  BY <1>1, QuietStep, Zenon DEF Start, disk, Phases, AdoptPhases
<1>2. ASSUME phase \in {"tx index", "address index", "forget address index"} PROVE tip # None
  BY <1>2, Zenon DEF ChainInv, FirstStart
<1>3. CASE BackfillTxIndex
  <2>1. phase = "tx index" /\ phase' = "address index"
        /\ UNCHANGED <<blocks, undo, canon, tip, utxo, job, batch>>
    BY <1>3, Zenon DEF BackfillTxIndex
  <2> QED
    BY <2>1, <1>2, QuietStep, Zenon DEF Phases, AdoptPhases
<1>4. CASE ReconcileNothing \/ ReconcileBuild \/ ReconcileLoosen \/ ReconcileTighten \/ ForgetAddressIndex
  <2>1. phase \in {"address index", "forget address index"} /\ phase' = "idle"
        /\ UNCHANGED <<blocks, undo, canon, tip, utxo, job, batch>>
    BY <1>4, Zenon DEF ReconcileNothing, ReconcileBuild, ReconcileLoosen, ReconcileTighten,
                ForgetAddressIndex, Reconciled
  <2> QED
    BY <2>1, <1>2, QuietStep, Zenon DEF Phases, AdoptPhases
<1>5. CASE SweepBatch \/ DropAddressIndex
  <2>1. phase = "address index" /\ phase' \in {"address index", "forget address index"}
        /\ UNCHANGED <<blocks, undo, canon, tip, utxo, job, batch>>
    BY <1>5, Zenon DEF SweepBatch, DropAddressIndex
  <2> QED
    BY <2>1, <1>2, QuietStep, Zenon DEF Phases, AdoptPhases
<1> QED
  BY <1>1, <1>3, <1>4, <1>5

(* Giving up, a failed commit and a crash: the staging area is gone and the  *)
(* disk is what it was.                                                      *)
LEMMA Abandon ==
    ASSUME ChainInv, UNCHANGED <<blocks, undo, canon, tip, utxo>>,
           job' = NoJob, batch' = NoBatch,
           phase' = "down" \/ (phase' = "idle" /\ tip # None)
    PROVE  ChainInv'
<1>1. Disk'
  BY DiskStays, Zenon DEF ChainInv
<1>2. DOMAIN NoBatch = BatchFields /\ NoBatch.open = FALSE /\ DOMAIN NoJob = JobFields
  BY DEF NoBatch, NoJob, BatchFields, JobFields
<1>3. Shape'
  BY <1>2, Zenon DEF ChainInv, Shape, Phases, AdoptPhases
<1>4. FirstStart'
  BY Zenon DEF ChainInv, FirstStart
<1> QED
  BY <1>1, <1>3, <1>4 DEF ChainInv, AdoptPhases

(* ChainReplayError, a failed commitAtomic and a crash.                      *)
LEMMA GivingUp ==
    ASSUME ChainInv, ConnectFails \/ CommitFails \/ Crash
    PROVE  ChainInv'
<1>1. CASE ConnectFails \/ CommitFails
  <2>1. phase = "connect" /\ phase' = "idle" /\ job' = NoJob /\ batch' = NoBatch
        /\ UNCHANGED <<blocks, undo, canon, tip, utxo>>
    BY <1>1, Zenon DEF ConnectFails, CommitFails, Release, disk
  <2>2. tip # None
    BY <2>1, Zenon DEF ChainInv, FirstStart
  <2> QED
    BY <2>1, <2>2, Abandon
<1>2. CASE Crash
  BY <1>2, Abandon DEF Crash, disk
<1> QED
  BY <1>1, <1>2

(* The first start: separate writes, any prefix of which a crash may leave.  *)
LEMMA GenesisStep ==
    ASSUME ChainInv, GenesisCoins \/ GenesisBlock \/ GenesisHeight \/ GenesisTip
    PROVE  ChainInv'
<1>1. phase \in {"genesis coins", "genesis block", "genesis height", "genesis tip"} /\ tip = None
  BY Zenon DEF ChainInv, FirstStart, GenesisCoins, GenesisBlock, GenesisHeight, GenesisTip
<1>2. phase' \in {"genesis block", "genesis height", "genesis tip", "tx index"}
      /\ UNCHANGED <<undo, job, batch>>
  BY Zenon DEF GenesisCoins, GenesisBlock, GenesisHeight, GenesisTip
<1>3. Genesis \in Block /\ None \notin Block /\ Height[Genesis] = 0
  BY TreeAssumption
<1>4. blocks' \subseteq Block /\ tip' \in Block \cup {None}
  BY <1>1, <1>3, Zenon DEF ChainInv, Shape, GenesisCoins, GenesisBlock, GenesisHeight, GenesisTip
<1>5. Shape'
  BY <1>1, <1>2, <1>4, Zenon DEF ChainInv, Shape, Phases, AdoptPhases
<1>6. CASE ~GenesisTip
  <2>1. tip' = None /\ phase' # "tx index"
    BY <1>1, <1>6, Zenon DEF GenesisCoins, GenesisBlock, GenesisHeight
  <2>2. utxo' \in {Empty, GenesisCoinSet}
        /\ (phase' \in {"genesis block", "genesis height", "genesis tip"} => utxo' = GenesisCoinSet)
    BY <1>1, <1>6, GenesisReplay, Zenon
    DEF GenesisCoinSet, ChainInv, FirstStart, GenesisCoins, GenesisBlock, GenesisHeight
  <2>3. blocks' \subseteq {Genesis}
        /\ (phase' \in {"genesis height", "genesis tip"} => Genesis \in blocks')
    BY <1>1, <1>6, Zenon DEF ChainInv, FirstStart, GenesisCoins, GenesisBlock, GenesisHeight
  <2>4. DOMAIN canon' \subseteq {0} /\ (0 \in DOMAIN canon' => canon'[0] = Genesis)
        /\ (phase' = "genesis tip" => 0 \in DOMAIN canon')
    <3>1. DOMAIN canon \subseteq {0} /\ (0 \in DOMAIN canon => canon[0] = Genesis)
      BY <1>1, Zenon DEF ChainInv, FirstStart
    <3>2. CASE GenesisHeight
      <4>1. canon' = Put(canon, {0}, Genesis)
        BY <3>2, Zenon DEF GenesisHeight
      <4>2. DOMAIN canon' = DOMAIN canon \cup {0} /\ canon'[0] = Genesis
        BY <4>1 DEF Put
      <4> QED
        BY <3>1, <4>2
    <3>3. CASE ~GenesisHeight
      BY <3>1, <3>3, <1>6, Zenon DEF GenesisCoins, GenesisBlock
    <3> QED
      BY <3>2, <3>3, Zenon
  <2>5. FirstStart'
    BY <1>1, <1>2, <2>1, <2>2, <2>3, <2>4, Zenon DEF ChainInv, FirstStart
  <2>6. Disk'
    BY <2>1, <2>3, Zenon DEF Disk, AncestryStored
  <2> QED
    BY <1>2, <1>5, <2>5, <2>6, Zenon DEF ChainInv, AdoptPhases
<1>7. CASE GenesisTip
  <2>1. tip' = Genesis /\ phase' = "tx index" /\ UNCHANGED <<blocks, undo, canon, utxo>>
    BY <1>7, Zenon DEF GenesisTip
  <2>2. utxo = GenesisCoinSet /\ blocks = {Genesis} /\ DOMAIN undo = {}
        /\ DOMAIN canon = {0} /\ canon[0] = Genesis
    BY <1>1, <1>7, Zenon DEF ChainInv, FirstStart, GenesisTip
  <2>3. FirstStart'
    BY <1>3, <2>1, Zenon DEF FirstStart
  <2>4. AncestryStored'
    BY <2>1, <2>2, Zenon DEF AncestryStored
  <2>5. 0..0 = {0} /\ 1..0 = {}
    OBVIOUS
  <2>6. IsChain(canon, Genesis)
    BY <1>3, <2>2, <2>5, Zenon DEF IsChain
  <2>7. Staged(Genesis, Len(Txs[Genesis]), utxo)
    BY <1>3, <2>2, GenesisReplay, AgreesSelf, StagedWhole, Zenon DEF GenesisCoinSet
  <2>8. HasUndo(undo, ChainSet(canon, Height[Genesis]))
    BY <1>3, <2>2, <2>5 DEF HasUndo, ChainSet
  <2>9. Disk'
    BY <2>1, <2>4, <2>6, <2>7, <2>8, Zenon DEF Disk
  <2> QED
    BY <1>5, <2>1, <2>3, <2>9, Zenon DEF ChainInv, AdoptPhases
<1> QED
  BY <1>6, <1>7

-----------------------------------------------------------------------------
(* Beginning an adoption.                                                    *)

(* handleIncomingBlock's putBlock keeps the ancestry stored.                 *)
LEMMA StoreBlock ==
    ASSUME ChainInv, NEW b \in Block \ {Genesis}, Parent[b] \in blocks,
           blocks' = blocks \cup {b}, UNCHANGED <<undo, canon, tip, utxo>>
    PROVE  Disk' /\ blocks' \subseteq Block
<1>1. blocks' \subseteq Block
  BY Zenon DEF ChainInv, Shape
<1>2. AncestryStored'
  BY Zenon DEF ChainInv, Disk, AncestryStored
<1> QED
  BY <1>1, <1>2 DEF ChainInv, Disk

(* beginStaging, for a strictly heavier block with a stored parent.          *)
LEMMA Begin ==
    ASSUME ChainInv, phase = "idle", NEW b \in Block \ {Genesis}, Parent[b] \in blocks,
           Weight[b] > Weight[tip], BeginAdoption(b),
           Disk', blocks \subseteq blocks', blocks' \subseteq Block,
           UNCHANGED <<undo, canon, tip, utxo>>
    PROVE  ChainInv'
<1>1. tip # None /\ Shape
  BY HasTip, Zenon DEF ChainInv
<1>2. IsChain(canon, tip)
  BY <1>1 DEF ChainInv, Disk
<1>3. /\ phase' = "plan" /\ DOMAIN job' = JobFields
      /\ job'.head = b /\ job'.a = b /\ job'.b = tip /\ job'.conn = Empty /\ job'.disc = Empty
      /\ job'.rec = <<>>
  BY DEF BeginAdoption, NoJob, JobFields
<1>4. /\ DOMAIN batch' = BatchFields /\ batch'.open = TRUE
      /\ batch'.utxo = utxo' /\ batch'.undo = undo' /\ batch'.canon = canon'
  BY Zenon DEF BeginAdoption, BatchFields, StagedBase
<1>5. Shape'
  BY <1>1, <1>3, <1>4, Zenon DEF Shape, Phases, AdoptPhases
<1>6. FirstStart'
  BY <1>1, <1>3, Zenon DEF FirstStart
<1>7. Path(b, b, Empty) /\ Fork(tip, Empty, canon, tip)
  BY <1>2, PathStart, ForkStart, Zenon
<1>8. Planned'
  BY <1>1, <1>3, <1>7, Zenon DEF Planned
<1>9. Planning'
  BY <1>3, <1>4 DEF Planning
<1> QED
  BY <1>3, <1>5, <1>6, <1>8, <1>9, Zenon DEF ChainInv

(* The two callers of adoptBlock: a received and a mined block.              *)
LEMMA BeginStep ==
    ASSUME ChainInv, NEW b \in Block, Receive(b) \/ Mine(b)
    PROVE  ChainInv'
<1>1. tip # None /\ Shape /\ Disk /\ FirstStart
  BY HasTip DEF ChainInv, Receive, Mine
<1>2. CASE Receive(b)
  <2>1. /\ phase = "idle" /\ b # Genesis /\ Parent[b] \in blocks /\ blocks' = blocks \cup {b}
        /\ UNCHANGED <<undo, canon, tip, utxo>>
    BY <1>2, Zenon DEF Receive, ParentStored
  <2>2. Disk' /\ blocks' \subseteq Block
    BY <2>1, StoreBlock, Zenon
  <2>3. CASE IsBetterChain(b)
    <3>1. BeginAdoption(b) /\ Weight[b] > Weight[tip]
      BY <1>2, <2>3, Zenon DEF Receive, IsBetterChain
    <3> QED
      BY <2>1, <2>2, <3>1, Begin, Zenon
  <2>4. CASE ~IsBetterChain(b)
    <3>1. UNCHANGED <<phase, job, batch>>
      BY <1>2, <2>4, Zenon DEF Receive
    <3>2. Shape'
      BY <1>1, <2>1, <2>2, <3>1, Zenon DEF Shape
    <3>3. FirstStart'
      BY <1>1, <2>1, <3>1, Zenon DEF FirstStart
    <3> QED
      BY <2>1, <2>2, <3>1, <3>2, <3>3, Zenon DEF ChainInv, AdoptPhases
  <2> QED
    BY <2>3, <2>4
<1>3. CASE Mine(b)
  <2>1. /\ phase = "idle" /\ b # Genesis /\ Parent[b] = tip /\ BeginAdoption(b)
        /\ UNCHANGED <<blocks, undo, canon, tip, utxo>>
    BY <1>3, Zenon DEF Mine, disk
  <2>2. Disk' /\ blocks' \subseteq Block
    BY <1>1, <2>1, DiskStays, Zenon DEF Shape
  <2>3. Parent[b] \in blocks
    BY <1>1, <2>1, Zenon DEF Disk, AncestryStored
  <2>4. Weight[b] > Weight[tip]
    BY <2>1, TreeAssumption
  <2> QED
    BY <2>1, <2>2, <2>3, <2>4, Begin
<1> QED
  BY <1>2, <1>3, Zenon
=============================================================================
