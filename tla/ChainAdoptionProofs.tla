------------------------ MODULE ChainAdoptionProofs -------------------------
(* The steps of planning, disconnecting, connecting and the commit keep the  *)
(* invariant; and the theorems about module ChainAdoption.                   *)
EXTENDS ReorgProofs

(* A leaf goes to the SMT solver with this limit, unless it names Zenon.     *)
USE SMTT(30)

-----------------------------------------------------------------------------
(* Heights g..n of a path that starts above h.                               *)
LEMMA PathHeights ==
    ASSUME NEW h \in Nat, NEW n \in Nat, NEW g \in (h + 1)..n
    PROVE  /\ g \in Nat /\ g <= n /\ n \in (h + 1)..n /\ n \in g..n
           /\ \A m \in g..n : m \in Nat
  OBVIOUS

(* The height below one that is not the lowest.                              *)
LEMMA HeightBelow ==
    ASSUME NEW h \in Nat, NEW n \in Nat, NEW g \in (h + 1)..n, NEW m \in g..n, m # g
    PROVE  m \in (h + 1)..n /\ m # h + 1 /\ m - 1 \in g..n /\ m - 1 < m
  OBVIOUS

-----------------------------------------------------------------------------
(* Planning.                                                                 *)

(* What the invariant gives while adoptBlock runs.                           *)
LEMMA InPlan ==
    ASSUME ChainInv, phase \in AdoptPhases
    PROVE  /\ tip # None /\ IsChain(canon, tip) /\ Planned
           /\ DOMAIN job = JobFields /\ DOMAIN batch = BatchFields /\ batch.open = TRUE
           /\ Path(job.a, job.head, job.conn) /\ Fork(job.b, job.disc, canon, tip)
           /\ job.a \in Block /\ job.b \in Block /\ job.head \in Block
           /\ Height[job.a] \in Nat /\ Height[job.b] \in Nat
           /\ Height[job.head] \in Nat /\ Height[tip] \in Nat
<1>1. tip # None /\ IsChain(canon, tip) /\ Planned
  BY HasTip DEF ChainInv, Disk
<1>2. Path(job.a, job.head, job.conn) /\ Fork(job.b, job.disc, canon, tip)
  BY <1>1 DEF Planned
<1>3. job.a \in Block /\ job.b \in Block /\ job.head \in Block /\ tip \in Block
  BY <1>1, <1>2 DEF Path, Fork, IsChain
<1>4. DOMAIN job = JobFields /\ DOMAIN batch = BatchFields /\ batch.open = TRUE
  BY DEF ChainInv, Shape
<1> QED
  BY <1>1, <1>2, <1>3, <1>4, Heights

(* planReorg's three walking steps.                                          *)
LEMMA PlanWalk ==
    ASSUME ChainInv, PlanConnect \/ PlanDisconnect \/ PlanBoth
    PROVE  ChainInv'
<1>1. phase = "plan" /\ UNCHANGED <<blocks, undo, canon, tip, utxo, phase, batch>>
  BY DEF PlanConnect, PlanDisconnect, PlanBoth, disk
<1>2. phase \in AdoptPhases /\ phase' \in AdoptPhases \ {"collect"}
  BY <1>1 DEF AdoptPhases
<1>3. /\ IsChain(canon, tip) /\ Planned /\ DOMAIN job = JobFields
      /\ Path(job.a, job.head, job.conn) /\ Fork(job.b, job.disc, canon, tip)
  BY <1>2, InPlan
<1>4. /\ Height[job.a] \in Nat /\ Height[job.b] \in Nat
      /\ (Height[job.a] = 0 <=> job.a = Genesis) /\ (Height[job.b] = 0 <=> job.b = Genesis)
  BY <1>2, InPlan, Heights
<1>5. DOMAIN job' = JobFields /\ job'.head = job.head /\ job'.rec = job.rec
  BY <1>3, Zenon DEF PlanConnect, PlanDisconnect, PlanBoth, JobFields
<1>6. Path(job'.a, job'.head, job'.conn)
  <2>1. CASE PlanDisconnect
    <3>1. job'.a = job.a /\ job'.conn = job.conn
      BY <1>3, <2>1 DEF PlanDisconnect, JobFields
    <3> QED
      BY <1>3, <1>5, <3>1
  <2>2. CASE PlanConnect \/ PlanBoth
    <3>1. job'.a = Parent[job.a] /\ job'.conn = Put(job.conn, {Height[job.a]}, job.a)
      BY <1>3, <2>2, Zenon DEF PlanConnect, PlanBoth, JobFields
    <3>2. job.a # Genesis
      BY <1>4, <2>2 DEF PlanConnect, PlanBoth
    <3> QED
      BY <1>3, <1>5, <3>1, <3>2, WalkConnect
  <2> QED
    BY <2>1, <2>2
<1>7. Fork(job'.b, job'.disc, canon, tip)
  <2>1. CASE PlanConnect
    <3>1. job'.b = job.b /\ job'.disc = job.disc
      BY <1>3, <2>1 DEF PlanConnect, JobFields
    <3> QED
      BY <1>3, <3>1
  <2>2. CASE PlanDisconnect \/ PlanBoth
    <3>1. job'.b = Parent[job.b] /\ job'.disc = Put(job.disc, {Height[job.b]}, job.b)
      BY <1>3, <2>2, Zenon DEF PlanDisconnect, PlanBoth, JobFields
    <3>2. job.b # Genesis
      BY <1>4, <2>2 DEF PlanDisconnect, PlanBoth
    <3> QED
      BY <1>3, <3>1, <3>2, WalkDisconnect
  <2> QED
    BY <2>1, <2>2
<1>8. Planned'
  BY <1>1, <1>3, <1>5, <1>6, <1>7 DEF Planned
<1>9. Planning'
  BY <1>1, <1>5 DEF ChainInv, Planning
<1>10. DOMAIN batch' = BatchFields /\ batch'.open = TRUE
  BY <1>1, <1>2, InPlan, Zenon
<1> QED
  BY <1>1, <1>2, <1>5, <1>8, <1>9, <1>10, BatchStep, Zenon

(* The plan stays as it is until the commit.                                 *)
SamePlan ==
    /\ DOMAIN job' = JobFields /\ job'.head = job.head /\ job'.a = job.a /\ job'.b = job.b
    /\ job'.conn = job.conn /\ job'.disc = job.disc
    /\ UNCHANGED <<blocks, undo, canon, tip, utxo>>

(* The plan speaks of the job's targets and paths only.                      *)
LEMMA PlanKept == Planned /\ SamePlan => Planned'
BY DEF Planned, SamePlan

(* The fork point is found; every block to disconnect has an undo record, so *)
(* the replay fallback is not taken.                                         *)
LEMMA PlanDoneStep ==
    ASSUME ChainInv, PlanDone
    PROVE  ChainInv'
<1>1. phase = "plan" /\ job.a = job.b /\ UNCHANGED <<blocks, undo, canon, tip, utxo>>
  BY DEF PlanDone, disk
<1>2. phase \in AdoptPhases /\ Planning
  BY <1>1 DEF AdoptPhases, ChainInv
<1>3. /\ tip # None /\ IsChain(canon, tip) /\ Planned /\ DOMAIN job = JobFields
      /\ DOMAIN batch = BatchFields /\ batch.open = TRUE
      /\ Fork(job.b, job.disc, canon, tip) /\ Height[job.b] \in Nat /\ Height[tip] \in Nat
  BY <1>2, InPlan, Zenon
<1>4. Staged(tip, Len(Txs[tip]), utxo) /\ HasUndo(undo, ChainSet(canon, Height[tip]))
  BY <1>3, Zenon DEF ChainInv, Disk
<1>5. Height[job.b] <= Height[tip] /\ canon[Height[job.b]] = job.b /\ canon[Height[tip]] = tip
  BY <1>3 DEF Fork, IsChain
<1>6. ASSUME NEW h \in DOMAIN job.disc PROVE job.disc[h] \in DOMAIN undo
  <2>1. h \in (Height[job.b] + 1)..Height[tip] /\ job.disc[h] = canon[h]
    BY <1>3 DEF Fork
  <2>2. h \in 1..Height[tip]
    BY <1>3, <2>1
  <2> QED
    BY <1>4, <2>1, <2>2, Zenon DEF HasUndo, ChainSet
<1>7. /\ phase' = "disconnect" /\ batch' = batch
      /\ job' = [job EXCEPT !.h = Height[tip], !.k = Len(Txs[tip])]
  BY <1>6, Zenon DEF PlanDone
<1>8. SamePlan /\ job'.h = Height[tip] /\ job'.k = Len(Txs[tip]) /\ job'.rec = job.rec
  BY <1>1, <1>3, <1>7 DEF JobFields, SamePlan
<1>9. Planned'
  BY <1>3, <1>8, PlanKept
<1>10. job'.a = job'.b /\ job'.h \in Height[job'.a]..Height[tip]
  BY <1>1, <1>3, <1>5, <1>8 DEF SamePlan
<1>11. job'.h = Height[job'.a] => job'.k = Len(Txs[job'.a])
  BY <1>1, <1>5, <1>8 DEF SamePlan
<1>12. Staged(canon[job'.h], job'.k, batch'.utxo) /\ HasUndo(batch'.undo, ChainSet(canon, job'.h))
  BY <1>2, <1>4, <1>5, <1>7, <1>8 DEF Planning
<1>13. batch'.canon = canon /\ job'.rec = <<>>
  BY <1>2, <1>7, <1>8 DEF Planning
<1>14. Disconnecting'
  BY <1>1, <1>10, <1>11, <1>12, <1>13 DEF Disconnecting
<1>15. /\ phase' \in AdoptPhases \ {"collect"} /\ phase' # "plan" /\ phase' # "connect"
       /\ DOMAIN batch' = BatchFields /\ batch'.open = TRUE /\ DOMAIN job' = JobFields
  BY <1>3, <1>7, <1>8 DEF AdoptPhases, SamePlan
<1> QED
  BY <1>1, <1>2, <1>9, <1>14, <1>15, BatchStep, Zenon

-----------------------------------------------------------------------------
(* Disconnecting.                                                            *)

(* A whole undo record is what connecting the whole block records.           *)
LEMMA ExactIsRecorded == ASSUME NEW b PROVE Recorded(b, Len(Txs[b]), ExactUndo(b))
BY DEF Recorded, ExactUndo

(* The block being disconnected.                                             *)
LEMMA DisconnectedBlock ==
    ASSUME ChainInv, phase = "disconnect", job.h > Height[job.a]
    PROVE  /\ job.h \in 1..Height[tip] /\ job.disc[job.h] = canon[job.h]
           /\ canon[job.h] \in Block \ {Genesis} /\ Parent[canon[job.h]] = canon[job.h - 1]
           /\ undo[canon[job.h]] = ExactUndo(canon[job.h])
<1>1. phase \in AdoptPhases /\ Disconnecting
  BY Zenon DEF AdoptPhases, ChainInv
<1>2. /\ IsChain(canon, tip) /\ Fork(job.b, job.disc, canon, tip) /\ tip # None
      /\ Height[job.b] \in Nat /\ Height[tip] \in Nat
  BY <1>1, InPlan, Zenon
<1>3. job.a = job.b /\ job.h \in Height[job.a]..Height[tip]
  BY <1>1 DEF Disconnecting
<1>4. job.h \in 1..Height[tip] /\ job.h \in (Height[job.b] + 1)..Height[tip]
      /\ job.h \in 0..Height[tip]
  BY <1>2, <1>3
<1>5. job.disc[job.h] = canon[job.h]
  BY <1>2, <1>4, Zenon DEF Fork
<1>6. canon[job.h] \in Block \ {Genesis} /\ Parent[canon[job.h]] = canon[job.h - 1]
  BY <1>2, <1>4, Zenon DEF IsChain
<1>7. HasUndo(undo, ChainSet(canon, Height[tip]))
  BY <1>2 DEF ChainInv, Disk
<1>8. undo[canon[job.h]] = ExactUndo(canon[job.h])
  BY <1>4, <1>7 DEF HasUndo, ChainSet
<1> QED
  BY <1>4, <1>5, <1>6, <1>8

(* disconnectBlock reverses one transaction.                                 *)
LEMMA UndoTxStep ==
    ASSUME ChainInv, UndoTx
    PROVE  ChainInv'
<1> DEFINE b == canon[job.h]
<1>1. /\ phase = "disconnect" /\ job.h > Height[job.a] /\ job.k > 0
      /\ UNCHANGED <<blocks, undo, canon, tip, utxo, phase>>
  BY DEF UndoTx, disk
<1>2. phase \in AdoptPhases /\ Disconnecting /\ phase' \in AdoptPhases \ {"collect"}
      /\ phase' # "plan" /\ phase' # "connect"
  BY <1>1 DEF AdoptPhases, ChainInv
<1>3. Planned /\ DOMAIN job = JobFields /\ DOMAIN batch = BatchFields /\ batch.open = TRUE
      /\ Height[job.a] \in Nat /\ Height[tip] \in Nat
  BY <1>2, InPlan, Zenon
<1>4. job.disc[job.h] = b /\ b \in Block /\ undo[b] = ExactUndo(b) /\ job.h \in 1..Height[tip]
  BY <1>1, DisconnectedBlock
<1>5. Staged(b, job.k - 1, UndoTransaction(batch.utxo, undo[b][job.k]))
  <2>1. Staged(b, job.k, batch.utxo)
    BY <1>2 DEF Disconnecting
  <2> QED
    BY <1>1, <1>4, <2>1, ExactIsRecorded, UndoOne, Zenon
<1>6. /\ DOMAIN batch' = BatchFields /\ batch'.open = TRUE
      /\ batch'.utxo = UndoTransaction(batch.utxo, undo[b][job.k])
      /\ batch'.undo = batch.undo /\ batch'.canon = batch.canon
  BY <1>3, <1>4 DEF UndoTx, BatchFields
<1>7. SamePlan /\ job'.h = job.h /\ job'.k = job.k - 1 /\ job'.rec = job.rec
  BY <1>1, <1>3 DEF UndoTx, JobFields, SamePlan
<1>8. Planned'
  BY <1>3, <1>7, PlanKept, Zenon
<1>9. job'.a = job'.b /\ job'.h \in Height[job'.a]..Height[tip]
      /\ HasUndo(batch'.undo, ChainSet(canon, job'.h)) /\ batch'.canon = canon /\ job'.rec = <<>>
  BY <1>2, <1>6, <1>7, Zenon DEF Disconnecting, SamePlan
<1>10. job'.h # Height[job'.a]
  BY <1>1, <1>3, <1>4, <1>7 DEF SamePlan
<1>11. Staged(canon[job'.h], job'.k, batch'.utxo)
  BY <1>5, <1>6, <1>7
<1>12. Disconnecting'
  BY <1>1, <1>9, <1>10, <1>11 DEF Disconnecting
<1> QED
  BY <1>1, <1>2, <1>6, <1>7, <1>8, <1>12, BatchStep, Zenon DEF SamePlan

(* disconnectBlock drops the block's undo record.                            *)
LEMMA DisconnectBlockStep ==
    ASSUME ChainInv, DisconnectBlock
    PROVE  ChainInv'
<1> DEFINE b == canon[job.h]
<1>1. /\ phase = "disconnect" /\ job.h > Height[job.a] /\ job.k = 0
      /\ UNCHANGED <<blocks, undo, canon, tip, utxo, phase>>
  BY DEF DisconnectBlock, disk
<1>2. phase \in AdoptPhases /\ Disconnecting /\ phase' \in AdoptPhases \ {"collect"}
      /\ phase' # "plan" /\ phase' # "connect"
  BY <1>1 DEF AdoptPhases, ChainInv
<1>3. /\ Planned /\ DOMAIN job = JobFields /\ DOMAIN batch = BatchFields /\ batch.open = TRUE
      /\ IsChain(canon, tip) /\ Fork(job.b, job.disc, canon, tip)
      /\ Height[job.a] \in Nat /\ Height[tip] \in Nat
  BY <1>2, InPlan, Zenon
<1>4. /\ job.disc[job.h] = b /\ b \in Block \ {Genesis} /\ Parent[b] = canon[job.h - 1]
      /\ job.h \in 1..Height[tip]
  BY <1>1, DisconnectedBlock
<1>5. /\ DOMAIN batch' = BatchFields /\ batch'.open = TRUE /\ batch'.utxo = batch.utxo
      /\ batch'.undo = Del(batch.undo, {b}) /\ batch'.canon = batch.canon
  BY <1>3, <1>4 DEF DisconnectBlock, BatchFields
<1>6. SamePlan /\ job'.h = job.h - 1 /\ job'.k = Len(Txs[Parent[b]]) /\ job'.rec = job.rec
  BY <1>1, <1>3, <1>4 DEF DisconnectBlock, JobFields, SamePlan
<1>7. Planned'
  BY <1>3, <1>6, PlanKept, Zenon
<1>8. job'.a = job'.b /\ batch'.canon = canon /\ job'.rec = <<>>
  BY <1>2, <1>5, <1>6, Zenon DEF Disconnecting, SamePlan
<1>9. job'.h \in Height[job'.a]..Height[tip]
  BY <1>1, <1>3, <1>4, <1>6 DEF SamePlan
<1>10. HasUndo(batch'.undo, ChainSet(canon, job'.h))
  <2>1. HasUndo(batch.undo, ChainSet(canon, job.h))
    BY <1>2, Zenon DEF Disconnecting
  <2> QED
    BY <1>3, <1>4, <1>5, <1>6, <2>1, DropUndo, Zenon
<1>11. Staged(canon[job'.h], job'.k, batch'.utxo)
  <2>1. Staged(b, 0, batch.utxo)
    BY <1>1, <1>2 DEF Disconnecting
  <2> QED
    BY <1>4, <1>5, <1>6, <2>1, StagedParent
<1>12. job'.h = Height[job'.a] => job'.k = Len(Txs[job'.a])
  <2>1. canon[Height[job.b]] = job.b /\ job.a = job.b
    BY <1>2, <1>3, Zenon DEF Fork, Disconnecting
  <2> QED
    BY <1>4, <1>6, <2>1, Zenon DEF SamePlan
<1>13. Disconnecting'
  BY <1>1, <1>8, <1>9, <1>10, <1>11, <1>12 DEF Disconnecting
<1> QED
  BY <1>1, <1>2, <1>5, <1>6, <1>7, <1>13, BatchStep, Zenon DEF SamePlan

(* Everything above the fork is undone.                                      *)
LEMMA DisconnectDoneStep ==
    ASSUME ChainInv, DisconnectDone
    PROVE  ChainInv'
<1> DEFINE n == Height[job.a]
<1>1. /\ phase = "disconnect" /\ job.h = n /\ phase' = "connect" /\ batch' = batch
      /\ UNCHANGED <<blocks, undo, canon, tip, utxo>>
  BY DEF DisconnectDone, disk
<1>2. phase \in AdoptPhases /\ Disconnecting /\ phase' \in AdoptPhases \ {"collect"}
  BY <1>1 DEF AdoptPhases, ChainInv
<1>3. /\ Planned /\ DOMAIN job = JobFields /\ DOMAIN batch = BatchFields /\ batch.open = TRUE
      /\ IsChain(canon, tip) /\ Path(job.a, job.head, job.conn)
      /\ Fork(job.b, job.disc, canon, tip)
      /\ job.a \in Block /\ n \in Nat /\ Height[job.head] \in Nat
  BY <1>2, InPlan, Zenon
<1>4. job.a = job.b /\ job.k = Len(Txs[job.a]) /\ Staged(canon[n], job.k, batch.utxo)
      /\ HasUndo(batch.undo, ChainSet(canon, n)) /\ batch.canon = canon /\ job.rec = <<>>
  BY <1>1, <1>2 DEF Disconnecting
<1>5. canon[n] = job.a /\ n <= Height[job.head] /\ (n = Height[job.head] => job.a = job.head)
  BY <1>3, <1>4, Zenon DEF Fork, Path
<1>6. SamePlan /\ job'.h = n + 1 /\ job'.k = 0 /\ job'.rec = job.rec
  BY <1>1, <1>3 DEF DisconnectDone, JobFields, SamePlan
<1>7. Planned'
  BY <1>3, <1>6, PlanKept, Zenon
<1>8. job'.a = job'.b /\ job'.h \in (Height[job'.a] + 1)..(Height[job'.head] + 1) /\ job'.h - 1 = n
  BY <1>3, <1>4, <1>5, <1>6 DEF SamePlan
<1>9. ASSUME job'.h <= Height[job'.head]
      PROVE  Staged(job'.conn[job'.h], job'.k, batch'.utxo) /\ Recorded(job'.conn[job'.h], job'.k, job'.rec)
  <2>1. n + 1 \in (n + 1)..Height[job.head]
    BY <1>3, <1>6, <1>9 DEF SamePlan
  <2>2. job.conn[n + 1] \in Block \ {Genesis} /\ Parent[job.conn[n + 1]] = job.a
    BY <1>3, <2>1, PathBlock
  <2>3. Staged(job.conn[n + 1], 0, batch.utxo)
    BY <1>4, <1>5, <2>2, StagedParent
  <2> QED
    BY <1>1, <1>4, <1>6, <2>3, RecordedNone DEF SamePlan
<1>10. ASSUME job'.h > Height[job'.head]
       PROVE  Staged(job'.head, Len(Txs[job'.head]), batch'.utxo)
  <2>1. n = Height[job.head]
    BY <1>3, <1>5, <1>6, <1>10 DEF SamePlan
  <2> QED
    BY <1>1, <1>4, <1>5, <1>6, <2>1, Zenon DEF SamePlan
<1>11. Indexed(canon, canon, job.a, job.conn, tip, n)
       /\ JoinedSet(canon, job.a, job.conn, n) = ChainSet(canon, n)
  BY <1>3, AtFork, Zenon
<1>12. HasUndo(batch'.undo, JoinedSet(canon, job'.a, job'.conn, job'.h - 1))
       /\ Indexed(batch'.canon, canon, job'.a, job'.conn, tip, job'.h - 1)
  BY <1>1, <1>4, <1>6, <1>8, <1>11 DEF SamePlan
<1>13. Connecting'
  BY <1>1, <1>8, <1>9, <1>10, <1>12, Zenon DEF Connecting
<1> QED
  BY <1>1, <1>2, <1>3, <1>6, <1>7, <1>13, BatchStep, Zenon DEF SamePlan

-----------------------------------------------------------------------------
(* Connecting.                                                               *)

(* The block being connected.                                                *)
LEMMA ConnectedBlock ==
    ASSUME ChainInv, phase = "connect", job.h <= Height[job.head]
    PROVE  /\ job.h \in (Height[job.a] + 1)..Height[job.head] /\ job.h \in Nat \ {0}
           /\ job.conn[job.h] \in Block /\ Height[job.conn[job.h]] = job.h
           /\ job.conn[job.h] = Joined(canon, job.a, job.conn, job.h)
           /\ Staged(job.conn[job.h], job.k, batch.utxo) /\ Recorded(job.conn[job.h], job.k, job.rec)
<1>1. phase \in AdoptPhases /\ Connecting
  BY DEF AdoptPhases, ChainInv
<1>2. Path(job.a, job.head, job.conn) /\ Height[job.a] \in Nat /\ Height[job.head] \in Nat
  BY <1>1, InPlan, Zenon
<1>3. job.h \in (Height[job.a] + 1)..(Height[job.head] + 1)
  BY <1>1, Zenon DEF Connecting
<1>4. job.h \in (Height[job.a] + 1)..Height[job.head] /\ job.h \in Nat \ {0}
      /\ ~(job.h <= Height[job.a])
  BY <1>2, <1>3
<1>5. job.conn[job.h] \in Block /\ Height[job.conn[job.h]] = job.h
  BY <1>2, <1>4, PathBlock
<1>6. job.conn[job.h] = Joined(canon, job.a, job.conn, job.h)
  BY <1>4, Zenon DEF Joined
<1>7. Staged(job.conn[job.h], job.k, batch.utxo) /\ Recorded(job.conn[job.h], job.k, job.rec)
  BY <1>1 DEF Connecting
<1> QED
  BY <1>4, <1>5, <1>6, <1>7

(* connectBlock applies one transaction and records what it spent.           *)
LEMMA ConnectTxStep ==
    ASSUME ChainInv, ConnectTx
    PROVE  ChainInv'
<1> DEFINE b == job.conn[job.h]
           t == Txs[b][job.k + 1]
<1>1. /\ phase = "connect" /\ job.h <= Height[job.head] /\ job.k < Len(Txs[b])
      /\ ValidateTransaction(batch.utxo, t, job.h)
      /\ UNCHANGED <<blocks, undo, canon, tip, utxo, phase>>
  BY Zenon DEF ConnectTx, disk
<1>2. phase \in AdoptPhases /\ Connecting /\ phase' \in AdoptPhases \ {"collect"}
      /\ phase' # "plan" /\ phase' # "disconnect"
  BY <1>1 DEF AdoptPhases, ChainInv
<1>3. Planned /\ DOMAIN job = JobFields /\ DOMAIN batch = BatchFields /\ batch.open = TRUE
      /\ Height[job.head] \in Nat
  BY <1>2, InPlan, Zenon
<1>4. b \in Block /\ Height[b] = job.h /\ job.h \in Nat
      /\ Staged(b, job.k, batch.utxo) /\ Recorded(b, job.k, job.rec)
  BY <1>1, ConnectedBlock, Zenon
<1>5. /\ DOMAIN batch' = BatchFields /\ batch'.open = TRUE
      /\ batch'.utxo = ApplyTransaction(batch.utxo, t, job.h)
      /\ batch'.undo = batch.undo /\ batch'.canon = batch.canon
  BY <1>3 DEF ConnectTx, BatchFields
<1>6. SamePlan /\ job'.h = job.h /\ job'.k = job.k + 1
      /\ job'.rec = Append(job.rec, TxUndo(batch.utxo, t))
  BY <1>1, <1>3, Zenon DEF ConnectTx, JobFields, SamePlan, PushUndo
<1>7. Planned'
  BY <1>3, <1>6, PlanKept, Zenon
<1>8. Staged(b, job'.k, batch'.utxo) /\ Recorded(b, job'.k, job'.rec)
  <2> HIDE DEF b
  <2> QED
    BY <1>1, <1>4, <1>5, <1>6, ApplyOne
<1>9. job'.conn[job'.h] = b /\ ~(job'.h > Height[job'.head])
  <2>1. job.h <= Height[job.head] /\ job.h \in Nat /\ Height[job.head] \in Nat
    BY <1>1, <1>3, <1>4, Zenon
  <2>2. ~(job.h > Height[job.head])
    BY <2>1
  <2> QED
    BY <1>6, <2>2, Zenon DEF SamePlan
<1>10. /\ job'.a = job'.b /\ job'.h \in (Height[job'.a] + 1)..(Height[job'.head] + 1)
       /\ HasUndo(batch'.undo, JoinedSet(canon, job'.a, job'.conn, job'.h - 1))
       /\ Indexed(batch'.canon, canon, job'.a, job'.conn, tip, job'.h - 1)
  BY <1>2, <1>5, <1>6, Zenon DEF Connecting, SamePlan
<1> HIDE DEF b, t
<1>11. Connecting'
  BY <1>1, <1>8, <1>9, <1>10 DEF Connecting
<1> QED
  BY <1>1, <1>2, <1>5, <1>6, <1>7, <1>11, BatchStep, Zenon DEF SamePlan

(* connectBlock collects the undo record and the height.                     *)
LEMMA ConnectBlockStep ==
    ASSUME ChainInv, ConnectBlock
    PROVE  ChainInv'
<1> DEFINE b == job.conn[job.h]
<1>1. /\ phase = "connect" /\ job.h <= Height[job.head] /\ job.k = Len(Txs[b])
      /\ UNCHANGED <<blocks, undo, canon, tip, utxo, phase>>
  BY Zenon DEF ConnectBlock, disk
<1>2. phase \in AdoptPhases /\ Connecting /\ phase' \in AdoptPhases \ {"collect"}
      /\ phase' # "plan" /\ phase' # "disconnect"
  BY <1>1 DEF AdoptPhases, ChainInv
<1>3. /\ Planned /\ DOMAIN job = JobFields /\ DOMAIN batch = BatchFields /\ batch.open = TRUE
      /\ Path(job.a, job.head, job.conn) /\ Fork(job.b, job.disc, canon, tip)
      /\ Height[job.a] \in Nat /\ Height[job.head] \in Nat /\ Height[tip] \in Nat
  BY <1>2, InPlan, Zenon
<1>4. /\ job.h \in (Height[job.a] + 1)..Height[job.head] /\ job.h \in Nat \ {0}
      /\ b \in Block /\ b = Joined(canon, job.a, job.conn, job.h)
      /\ Staged(b, job.k, batch.utxo) /\ Recorded(b, job.k, job.rec)
  BY <1>1, ConnectedBlock, Zenon
<1>5. job.rec = ExactUndo(b) /\ Staged(b, Len(Txs[b]), batch.utxo)
  BY <1>1, <1>4 DEF Recorded, ExactUndo
<1>6. /\ DOMAIN batch' = BatchFields /\ batch'.open = TRUE /\ batch'.utxo = batch.utxo
      /\ batch'.undo = Put(batch.undo, {b}, job.rec) /\ batch'.canon = Put(batch.canon, {job.h}, b)
  BY <1>3 DEF ConnectBlock, BatchFields, PutUndo
<1>7. SamePlan /\ job'.h = job.h + 1 /\ job'.k = 0 /\ job'.rec = <<>>
  BY <1>1, <1>3 DEF ConnectBlock, JobFields, SamePlan
<1>8. Planned'
  BY <1>3, <1>7, PlanKept, Zenon
<1>9. job.a = job.b /\ HasUndo(batch.undo, JoinedSet(canon, job.a, job.conn, job.h - 1))
      /\ Indexed(batch.canon, canon, job.a, job.conn, tip, job.h - 1)
  BY <1>2 DEF Connecting
<1>10. job'.a = job'.b /\ job'.h \in (Height[job'.a] + 1)..(Height[job'.head] + 1)
       /\ job'.h - 1 = job.h
  <2>1. Height[job.a] \in Nat /\ Height[job.head] \in Nat
    BY <1>3, Zenon
  <2>2. job.h \in (Height[job.a] + 1)..Height[job.head]
    BY <1>4, Zenon
  <2>3. job.h + 1 \in (Height[job.a] + 1)..(Height[job.head] + 1) /\ (job.h + 1) - 1 = job.h
    BY <2>1, <2>2
  <2>4. job'.a = job.a /\ job'.b = job.b /\ job'.head = job.head /\ job'.h = job.h + 1
    BY <1>7, Zenon DEF SamePlan
  <2> QED
    BY <1>9, <2>3, <2>4, Zenon
<1>11. ASSUME job'.h <= Height[job'.head]
       PROVE  Staged(job'.conn[job'.h], job'.k, batch'.utxo) /\ Recorded(job'.conn[job'.h], job'.k, job'.rec)
  <2> DEFINE g == job.h + 1
             c == job.conn[g]
  <2>1. g \in (Height[job.a] + 1)..Height[job.head] /\ g # Height[job.a] + 1 /\ g - 1 = job.h
    <3>1. Height[job.a] \in Nat /\ Height[job.head] \in Nat
      BY <1>3, Zenon
    <3>2. job.h \in (Height[job.a] + 1)..Height[job.head] /\ job.h + 1 <= Height[job.head]
      BY <1>4, <1>7, <1>11, Zenon DEF SamePlan
    <3> QED
      BY <3>1, <3>2
  <2>2. c \in Block \ {Genesis} /\ Parent[c] = b
    BY <1>3, <2>1, PathBlock
  <2>3. Staged(c, 0, batch.utxo)
    BY <1>5, <2>2, StagedParent, Zenon
  <2> QED
    BY <1>6, <1>7, <2>3, RecordedNone, Zenon DEF SamePlan
<1>12. ASSUME job'.h > Height[job'.head]
       PROVE  Staged(job'.head, Len(Txs[job'.head]), batch'.utxo)
  <2>1. job.h = Height[job.head]
    <3>1. Height[job.a] \in Nat /\ Height[job.head] \in Nat
      BY <1>3, Zenon
    <3>2. job.h \in (Height[job.a] + 1)..Height[job.head] /\ job.h + 1 > Height[job.head]
      BY <1>4, <1>7, <1>12, Zenon DEF SamePlan
    <3> QED
      BY <3>1, <3>2
  <2>2. b = job.head
    <3>1. Path(job.a, job.head, job.conn) /\ job.h \in (Height[job.a] + 1)..Height[job.head]
      BY <1>3, <1>4, Zenon
    <3> QED
      BY <2>1, <3>1, PathBlock
  <2> QED
    BY <1>5, <1>6, <1>7, <2>2, Zenon DEF SamePlan
<1>13. HasUndo(batch'.undo, JoinedSet(canon, job.a, job.conn, job.h))
  <2> HIDE DEF b
  <2> QED
    BY <1>4, <1>5, <1>6, <1>9, AddUndo, Zenon
<1>14. Indexed(batch'.canon, canon, job.a, job.conn, tip, job.h)
  <2>1. Height[job.a] < job.h /\ Height[job.a] <= Height[tip]
    <3>1. Height[job.a] \in Nat /\ Height[job.head] \in Nat /\ Height[job.a] <= Height[tip]
      BY <1>3, <1>9, Zenon DEF Fork
    <3>2. job.h \in (Height[job.a] + 1)..Height[job.head]
      BY <1>4, Zenon
    <3> QED
      BY <3>1, <3>2
  <2> HIDE DEF b
  <2> QED
    BY <1>3, <1>4, <1>6, <1>9, <2>1, AddIndex
<1>15. HasUndo(batch'.undo, JoinedSet(canon, job'.a, job'.conn, job'.h - 1))
       /\ Indexed(batch'.canon, canon, job'.a, job'.conn, tip, job'.h - 1)
  BY <1>7, <1>10, <1>13, <1>14, Zenon DEF SamePlan
<1> HIDE DEF b
<1>16. Connecting'
  BY <1>1, <1>10, <1>11, <1>12, <1>15, Zenon DEF Connecting
<1> QED
  BY <1>1, <1>2, <1>6, <1>7, <1>8, <1>16, BatchStep, Zenon DEF SamePlan

(* The commit makes the staged chain the one on disk.                        *)
LEMMA CommitStep ==
    ASSUME ChainInv, Commit
    PROVE  ChainInv'
<1> DEFINE top == Height[job.head]
<1>1. /\ phase = "connect" /\ job.h > top /\ phase' = "idle" /\ job' = NoJob /\ batch' = NoBatch
      /\ blocks' = blocks \cup {job.head} /\ tip' = job.head /\ undo' = batch.undo
      /\ utxo' = batch.utxo /\ canon' = ClearCanonicalHashesAbove(batch.canon, top, Height[tip])
  BY Zenon DEF Commit, Release
<1>2. phase \in AdoptPhases /\ Connecting /\ Shape /\ AncestryStored
  BY <1>1, Zenon DEF AdoptPhases, ChainInv, Disk
<1>3. /\ Planned /\ IsChain(canon, tip) /\ Path(job.a, job.head, job.conn)
      /\ Fork(job.b, job.disc, canon, tip) /\ job.head \in Block /\ top \in Nat
  BY <1>2, InPlan, Zenon
<1>4. job.a = job.b /\ job.h \in (Height[job.a] + 1)..(top + 1) /\ Height[job.a] \in Nat
  BY <1>2, InPlan, Zenon DEF Connecting
<1>5. job.h - 1 = top
  <2>1. job.h > top /\ top \in Nat
    BY <1>1, <1>3, Zenon
  <2> QED
    BY <1>4, <2>1
<1>6. /\ Staged(job.head, Len(Txs[job.head]), batch.utxo)
      /\ HasUndo(batch.undo, JoinedSet(canon, job.a, job.conn, top))
      /\ Indexed(batch.canon, canon, job.a, job.conn, tip, top)
  BY <1>1, <1>2, <1>5, Zenon DEF Connecting
<1>7. IsChain(canon', job.head) /\ ChainSet(canon', top) = JoinedSet(canon, job.a, job.conn, top)
  <2>1. canon' = ClearCanonicalHashesAbove(batch.canon, top, Height[tip])
    BY <1>1, Zenon
  <2>2. IsChain(canon, tip) /\ Path(job.a, job.head, job.conn) /\ Fork(job.a, job.disc, canon, tip)
        /\ Indexed(batch.canon, canon, job.a, job.conn, tip, top)
    BY <1>3, <1>4, <1>6, Zenon
  <2> QED
    BY <2>1, <2>2, AtHead
<1>8. AncestryStored'
  BY <1>1, <1>2, <1>3, Zenon DEF AncestryStored, Planned
<1>9. Disk'
  BY <1>1, <1>6, <1>7, <1>8, Zenon DEF Disk
<1>10. DOMAIN NoBatch = BatchFields /\ NoBatch.open = FALSE /\ DOMAIN NoJob = JobFields
  BY Zenon DEF NoBatch, NoJob, BatchFields, JobFields
<1>11. Shape'
  BY <1>1, <1>2, <1>3, <1>10, Zenon DEF Shape, Phases, AdoptPhases
<1>12. FirstStart'
  BY <1>1, <1>3, TreeAssumption, Zenon DEF FirstStart
<1> QED
  BY <1>1, <1>9, <1>11, <1>12, Zenon DEF ChainInv, AdoptPhases

-----------------------------------------------------------------------------
(* The theorems.                                                             *)

(* An empty database satisfies the invariant.                                *)
LEMMA InitInv == Init => ChainInv
<1> SUFFICES ASSUME Init PROVE ChainInv
  BY Zenon
<1>1. DOMAIN NoBatch = BatchFields /\ NoBatch.open = FALSE /\ DOMAIN NoJob = JobFields
  BY DEF NoBatch, NoJob, BatchFields, JobFields
<1>2. Shape
  BY <1>1, Zenon DEF Init, Shape, Phases, AdoptPhases
<1>3. FirstStart
  BY Zenon DEF Init, FirstStart, Empty
<1>4. Disk
  BY DEF Init, Disk, AncestryStored
<1> QED
  BY <1>2, <1>3, <1>4 DEF ChainInv, Init, AdoptPhases

(* A step that changes nothing preserves the invariant.                      *)
LEMMA StutterInv == ChainInv /\ UNCHANGED vars => ChainInv'
<1> SUFFICES ASSUME ChainInv, UNCHANGED vars PROVE ChainInv'
  OBVIOUS
<1>1. UNCHANGED <<blocks, undo, canon, tip, utxo, phase, job, batch>>
  BY DEF vars, disk
<1>2. Shape' /\ FirstStart' /\ Disk'
  BY <1>1, DiskStays, Zenon DEF ChainInv, Shape, FirstStart
<1>3. Planned => Planned'
  BY <1>1 DEF Planned
<1>4. Planning => Planning'
  BY <1>1, Zenon DEF Planning
<1>5. Disconnecting => Disconnecting'
  BY <1>1, Zenon DEF Disconnecting
<1>6. Connecting => Connecting'
  BY <1>1 DEF Connecting
<1> QED
  BY <1>1, <1>2, <1>3, <1>4, <1>5, <1>6 DEF ChainInv

(* Every step preserves the invariant.                                       *)
LEMMA StepInv == ChainInv /\ [Next]_vars => ChainInv'
<1> SUFFICES ASSUME ChainInv, [Next]_vars PROVE ChainInv'
  OBVIOUS
<1>1. CASE UNCHANGED vars
  BY <1>1, StutterInv
<1>2. CASE Environment
  BY <1>2, BootQuiet, BeginStep, GivingUp DEF Environment
<1>3. CASE Boot
  BY <1>3, BootQuiet, GenesisStep DEF Boot
<1>4. CASE Adopt
  <2>1. ~Collect
    BY DEF ChainInv, Collect
  <2> QED
    BY <1>4, <2>1, PlanWalk, PlanDoneStep, UndoTxStep, DisconnectBlockStep, DisconnectDoneStep,
       ConnectTxStep, GivingUp, ConnectBlockStep, CommitStep DEF Adopt
<1> QED
  BY <1>1, <1>2, <1>3, <1>4 DEF Next

(* The inductive invariant of chain adoption: before the first tip the disk  *)
(* holds a prefix of what Node.start writes for genesis, afterwards it       *)
(* describes exactly the tip's chain, and while adoptBlock runs the batch    *)
(* describes exactly the chain up to the transaction it has reached.  Only   *)
(* coins that some block of the tree creates a second time may be missing.   *)
THEOREM ChainInvariant == Spec => []ChainInv
BY InitInv, StepInv, PTL DEF Spec

(* What the invariant says of the stored chain, in the terms of the          *)
(* properties.                                                               *)
LEMMA DiskMeans ==
    ASSUME ChainInv
    PROVE  UtxoIsReplay /\ CanonIsAncestry /\ AncestryStored /\ UndoExact
<1> SUFFICES ASSUME tip # None PROVE UtxoIsReplay /\ CanonIsAncestry /\ UndoExact
  BY DEF ChainInv, Disk, UtxoIsReplay, CanonIsAncestry, UndoExact
<1>1. /\ IsChain(canon, tip) /\ Staged(tip, Len(Txs[tip]), utxo)
      /\ HasUndo(undo, ChainSet(canon, Height[tip]))
  BY Zenon DEF ChainInv, Disk
<1>2. tip \in Block /\ Height[tip] \in Nat
  BY <1>1, Heights DEF IsChain
<1>3. UtxoIsReplay
  BY <1>1, <1>2, StagedWhole, Zenon DEF UtxoIsReplay
<1>4. CanonIsAncestry
  <2>1. \A h \in 1..Height[tip] : h \in 0..Height[tip]
    BY <1>2
  <2> QED
    BY <1>1, <2>1 DEF IsChain, CanonIsAncestry
<1>5. UndoExact
  <2>1. DOMAIN canon = 0..Height[tip] /\ canon[0] = Genesis
        /\ \A h \in 1..Height[tip] : canon[h] # Genesis
    BY <1>1 DEF IsChain
  <2>2. \A h : h \in 0..Height[tip] <=> h = 0 \/ h \in 1..Height[tip]
    BY <1>2
  <2>3. OnChain \ {Genesis} = ChainSet(canon, Height[tip])
    BY <2>1, <2>2 DEF OnChain, ChainSet
  <2> QED
    BY <1>1, <2>3, Zenon DEF HasUndo, UndoExact
<1> QED
  BY <1>3, <1>4, <1>5, Zenon

(* Type correctness; and the staging area is open exactly while adoptBlock   *)
(* runs, so beginStaging never finds one left behind.                        *)
THEOREM Typing == Spec => []TypeOK
<1>1. ChainInv => TypeOK
  <2> SUFFICES ASSUME ChainInv PROVE TypeOK
    BY Zenon
  <2>1. Genesis \in Block /\ None \notin Block
    BY TreeAssumption
  <2>2. Shape /\ FirstStart /\ Disk
    BY Zenon DEF ChainInv
  <2>3. /\ DOMAIN canon \subseteq Nat /\ \A h \in DOMAIN canon : canon[h] \in Block
        /\ DOMAIN undo \subseteq Block
    <3>1. CASE tip = None
      <4>1. DOMAIN undo = {} /\ DOMAIN canon \subseteq {0} /\ (0 \in DOMAIN canon => canon[0] = Genesis)
        BY <2>2, <3>1, Zenon DEF FirstStart
      <4> QED
        BY <2>1, <4>1
    <3>2. CASE tip # None
      <4>1. DOMAIN canon = 0..Height[tip] /\ \A h \in 0..Height[tip] : canon[h] \in Block
        BY <2>2, <3>2 DEF Disk, IsChain
      <4>2. DOMAIN undo \subseteq OnChain
        BY <3>2, DiskMeans DEF UndoExact
      <4> QED
        BY <4>1, <4>2 DEF OnChain
    <3> QED
      BY <3>1, <3>2, Zenon
  <2>4. NoJob.head = None
    BY DEF NoJob
  <2>5. CASE phase \in AdoptPhases
    <3>1. tip \in Block /\ job.head \in Block /\ batch.open = TRUE
      BY <2>2, <2>5, InPlan DEF Shape
    <3>2. batch.open = (phase \in AdoptPhases)
      BY <2>5, <3>1, Zenon
    <3> QED
      BY <2>2, <2>3, <3>1, <3>2, Zenon DEF TypeOK, Shape
  <2>6. CASE phase \notin AdoptPhases
    <3>1. job.head = None /\ batch.open = FALSE
      BY <2>2, <2>4, <2>6 DEF Shape
    <3>2. batch.open = (phase \in AdoptPhases)
      <4>1. (phase \in AdoptPhases) = FALSE
        BY <2>6
      <4> QED
        BY <3>1, <4>1, Zenon
    <3> QED
      BY <2>2, <2>3, <2>6, <3>1, <3>2 DEF TypeOK, Shape
  <2> QED
    BY <2>5, <2>6
<1> QED
  BY <1>1, ChainInvariant, PTL

(* At every moment, crashes included, the stored coins are those a replay of *)
(* the canonical chain from genesis gives, except that an outpoint which     *)
(* some block creates while its chain still has it may be missing; where no  *)
(* block repeats a coinbase, they are exactly those of the replay.           *)
THEOREM CoinsAreReplay == Spec => []UtxoIsReplay
<1>1. ChainInv => UtxoIsReplay
  BY DiskMeans
<1> QED
  BY <1>1, ChainInvariant, PTL

(* The height index is the ancestry of the tip, and every ancestor of a      *)
(* stored block is stored.                                                   *)
THEOREM IndexIsAncestry == Spec => [](CanonIsAncestry /\ AncestryStored)
<1>1. ChainInv => CanonIsAncestry /\ AncestryStored
  BY DiskMeans
<1> QED
  BY <1>1, ChainInvariant, PTL

(* Exactly the canonical blocks above genesis have undo records, and a       *)
(* record holds what connecting the block spent.                             *)
THEOREM UndoIsExact == Spec => []UndoExact
<1>1. ChainInv => UndoExact
  BY DiskMeans
<1> QED
  BY <1>1, ChainInvariant, PTL

(* Seen from disk, adoption is atomic: a step leaves the tip and its coins   *)
(* alone, or is the commit that moves both to a strictly heavier valid chain *)
(* (or the first start's write of the genesis tip).  The coins are those of  *)
(* that chain in the sense of UtxoIsReplay.                                  *)
THEOREM AdoptionIsAtomic == Spec => FollowsHeaviest
<1>1. Init => HC!Init
  BY DEF Init, HC!Init
<1>2. ChainInv /\ UtxoIsReplay /\ UtxoIsReplay' /\ [Next]_vars => [HC!Next]_(HC!vars)
  <2> SUFFICES ASSUME ChainInv, UtxoIsReplay, UtxoIsReplay', [Next]_vars
               PROVE  [HC!Next]_(HC!vars)
    OBVIOUS
  <2>1. (tip' = tip /\ utxo' = utxo) \/ GenesisCoins \/ GenesisTip \/ Commit
    BY Zenon
       DEF Next, vars, disk, Environment, Boot, Adopt, Start, Receive, Mine, CommitFails,
        Crash, GenesisBlock, GenesisHeight, BackfillTxIndex, ReconcileNothing,
        ReconcileBuild, ReconcileLoosen, SweepBatch, ReconcileTighten, DropAddressIndex,
        ForgetAddressIndex, Reconciled, PlanConnect, PlanDisconnect, PlanBoth, PlanDone, UndoTx,
        DisconnectBlock, DisconnectDone, Collect, ConnectTx, ConnectFails, ConnectBlock
  <2>2. CASE (tip' = tip /\ utxo' = utxo) \/ GenesisCoins
    <3>1. tip' = tip /\ (tip = None \/ utxo' = utxo)
      BY <2>2, Zenon DEF GenesisCoins, ChainInv, FirstStart
    <3> QED
      BY <3>1 DEF HC!vars
  <2>3. CASE GenesisTip
    <3>1. tip = None /\ tip' = Genesis /\ Genesis # None
      BY <2>3, TreeAssumption, Zenon DEF GenesisTip, ChainInv, FirstStart
    <3>2. Agrees(utxo', Coins(Genesis).coins)
      BY <3>1 DEF UtxoIsReplay
    <3> QED
      BY <3>1, <3>2 DEF HC!Next, HC!Begin
  <2>4. CASE Commit
    <3>1. phase \in AdoptPhases /\ tip' = job.head
      BY <2>4, Zenon DEF Commit, AdoptPhases
    <3>2. /\ job.head \in Block /\ job.head # None /\ tip # None
          /\ Weight[job.head] > Weight[tip]
      BY <3>1, InPlan, TreeAssumption, Zenon DEF Planned
    <3>3. Coins(job.head).ok /\ Agrees(utxo', Coins(job.head).coins)
      BY <3>1, <3>2 DEF UtxoIsReplay
    <3>4. HC!Follow(job.head)
      BY <3>1, <3>2, <3>3 DEF HC!Follow
    <3> QED
      BY <3>2, <3>4, Zenon DEF HC!Next
  <2> QED
    BY <2>1, <2>2, <2>3, <2>4, Zenon
<1> QED
  BY <1>1, <1>2, ChainInvariant, CoinsAreReplay, PTL DEF Spec, FollowsHeaviest, HC!Spec

-----------------------------------------------------------------------------
(* What a refusal says of the head, by induction.                            *)
INSTANCE WellFoundedInduction

(* A non-empty set of naturals has a least element.                          *)
LEMMA LeastNat ==
    ASSUME NEW T \in SUBSET Nat, T # {}
    PROVE  \E x \in T : \A y \in T : ~(y < x)
<1> DEFINE R == OpToRel(<, Nat)
<1>1. IsWellFoundedOn(R, Nat)
  BY NatLessThanWellFounded, Zenon
<1>2. ASSUME NEW x \in Nat, NEW y \in Nat, y < x PROVE <<y, x>> \in R
  BY <1>2 DEF OpToRel
<1> HIDE DEF R
<1>3. PICK x \in T : \A y \in T : ~(<<y, x>> \in R)
  BY <1>1, WFMin, Zenon
<1>4. ASSUME NEW y \in T, y < x PROVE FALSE
  BY <1>2, <1>3, <1>4, Zenon
<1> QED
  BY <1>3, <1>4

(* The replay of a block does not recover from an invalid transaction.       *)
LEMMA FailsToTheEnd ==
    ASSUME NEW b \in Block, NEW k \in 0..Len(Txs[b]), ~UtxoAt[b][k].ok
    PROVE  ~Coins(b).ok
<1> SUFFICES ASSUME Coins(b).ok PROVE FALSE
  BY Zenon
<1> DEFINE n == Len(Txs[b])
           T == {m \in k..n : UtxoAt[b][m].ok}
<1>1. n \in Nat /\ k \in Nat /\ k <= n
  BY LenTxs
<1>2. n \in T
  BY <1>1 DEF Coins
<1>3. T \in SUBSET Nat
  BY <1>1
<1>4. PICK m \in T : \A y \in T : ~(y < m)
  <2> HIDE DEF T
  <2> QED
    BY <1>2, <1>3, LeastNat, Zenon
<1>5. m \in Nat /\ m \in k..n /\ UtxoAt[b][m].ok
  BY <1>1, <1>4
<1>6. m # k
  BY <1>5, Zenon
<1>7. m \in 1..n /\ m - 1 \in k..n /\ m - 1 < m
  BY <1>1, <1>5, <1>6
<1>8. UtxoAt[b][m - 1].ok
  BY <1>5, <1>7, ReplayStep, Zenon
<1>9. m - 1 \in T
  BY <1>7, <1>8, Zenon
<1> QED
  BY <1>4, <1>7, <1>9, Zenon

(* A block whose replay fails makes every block above it on the path fail,   *)
(* up to the head.                                                           *)
LEMMA FailsUpToHead ==
    ASSUME NEW a, NEW head, NEW conn, Path(a, head, conn),
           NEW g \in (Height[a] + 1)..Height[head], ~Coins(conn[g]).ok
    PROVE  ~Coins(head).ok
<1> SUFFICES ASSUME Coins(head).ok PROVE FALSE
  BY Zenon
<1> DEFINE n == Height[head]
           T == {m \in g..n : Coins(conn[m]).ok}
<1>1. Height[a] \in Nat /\ n \in Nat
  BY Heights, Zenon DEF Path
<1>2. g \in Nat /\ g <= n /\ n \in (Height[a] + 1)..n /\ n \in g..n
  BY <1>1, PathHeights, Zenon
<1>3. conn[n] = head
  BY <1>2, PathBlock
<1>4. n \in T
  BY <1>2, <1>3, Zenon
<1>5. T \in SUBSET Nat
  BY <1>1, <1>2
<1>6. PICK m \in T : \A y \in T : ~(y < m)
  <2> HIDE DEF T
  <2> QED
    BY <1>4, <1>5, LeastNat, Zenon
<1>7. m \in Nat /\ m \in g..n /\ Coins(conn[m]).ok
  BY <1>1, <1>6, PathHeights, Zenon
<1>8. m # g
  BY <1>7, Zenon
<1>9. /\ m \in (Height[a] + 1)..n /\ m # Height[a] + 1
      /\ m - 1 \in g..n /\ m - 1 < m
  <2> HIDE DEF T
  <2>1. m \in g..n
    BY <1>7, Zenon
  <2> QED
    BY <1>1, <1>8, <2>1, HeightBelow, Zenon
<1>10. conn[m] \in Block \ {Genesis} /\ Parent[conn[m]] = conn[m - 1]
  BY <1>9, PathBlock
<1>11. UtxoAt[conn[m]][0] = Coins(conn[m - 1])
  BY <1>10, ReplayStart, Zenon
<1>12. 0 \in 0..Len(Txs[conn[m]])
  BY <1>10, LenTxs
<1>13. UtxoAt[conn[m]][0].ok
  BY <1>7, <1>10, <1>12, FailsToTheEnd, Zenon
<1>14. m - 1 \in T
  BY <1>9, <1>11, <1>13, Zenon
<1> QED
  BY <1>6, <1>9, <1>14, Zenon

(* A transaction that connectBlock rejects is one the replay rejects, or it  *)
(* spends a coin that the replay has and that is lost.                       *)
LEMMA RejectedInReplay ==
    ASSUME NEW b \in Block, NEW k, NEW u, Staged(b, k, u), k < Len(Txs[b]),
           ~ValidateTransaction(u, Txs[b][k + 1], Height[b]), Coins(b).ok
    PROVE  \E o \in TxIn[Txs[b][k + 1]] \ DOMAIN u : o \in Recreated
<1> DEFINE m == k + 1
           t == Txs[b][m]
           r == UtxoAt[b][m - 1].coins
<1>1. m \in 1..Len(Txs[b]) /\ m \in 0..Len(Txs[b]) /\ m - 1 = k
  BY LenTxs DEF Staged
<1>2. Agrees(u, r) /\ ~ValidateTransaction(u, t, Height[b])
  BY <1>1, Zenon DEF Staged
<1>3. ValidateTransaction(r, t, Height[b])
  <2> HIDE DEF m
  <2>1. UtxoAt[b][m].ok
    BY <1>1, FailsToTheEnd, Zenon
  <2> QED
    BY <1>1, <2>1, ReplayStep
<1> HIDE DEF m, t, r
<1>4. /\ DOMAIN r \ DOMAIN u \subseteq Recreated
      /\ \A o \in DOMAIN u : u[o] = r[o]
  BY <1>2, Zenon DEF Agrees
<1>5. /\ Sound[t]
      /\ \A o \in TxIn[t] : o \in DOMAIN r /\ (o \in Coinbase => Height[b] >= r[o] + Maturity)
  BY <1>3, Zenon DEF ValidateTransaction
<1>6. PICK o \in TxIn[t] : ~(o \in DOMAIN u /\ (o \in Coinbase => Height[b] >= u[o] + Maturity))
  BY <1>2, <1>5, Zenon DEF ValidateTransaction
<1>7. o \notin DOMAIN u /\ o \in Recreated
  BY <1>4, <1>5, <1>6
<1> QED
  BY <1>7, Zenon DEF t, m

(* adoptBlock gives up on a validation error only for a head whose chain is  *)
(* invalid from genesis, or at a transaction that spends a coin lost by      *)
(* undoing a repeated coinbase: apart from such coins, what it has staged at *)
(* that point, after any disconnecting, on however many blocks of the new    *)
(* branch, is what a replay has there.                                       *)
THEOREM RefusalIsJust == Spec => RefusesOnlyInvalid
<1>1. ASSUME ChainInv, ConnectFails PROVE ~Coins(job.head).ok \/ SpendsLostCoin
  <2> DEFINE b == job.conn[job.h]
  <2>1. /\ phase = "connect" /\ job.h <= Height[job.head] /\ job.k < Len(Txs[b])
        /\ ~ValidateTransaction(batch.utxo, Txs[b][job.k + 1], job.h)
    BY <1>1, Zenon DEF ConnectFails
  <2>2. /\ job.h \in (Height[job.a] + 1)..Height[job.head] /\ b \in Block /\ Height[b] = job.h
        /\ Staged(b, job.k, batch.utxo)
    BY <1>1, <2>1, ConnectedBlock, Zenon
  <2>3. Path(job.a, job.head, job.conn)
    BY <1>1, <2>1, InPlan, Zenon DEF AdoptPhases
  <2> HIDE DEF b
  <2>4. CASE Coins(b).ok
    <3>1. \E o \in TxIn[Txs[b][job.k + 1]] \ DOMAIN batch.utxo : o \in Recreated
      BY <2>1, <2>2, <2>4, RejectedInReplay
    <3> QED
      BY <3>1, Zenon DEF SpendsLostCoin, b
  <2>5. CASE ~Coins(b).ok
    BY <2>2, <2>3, <2>5, FailsUpToHead, Zenon DEF b
  <2> QED
    BY <2>4, <2>5
<1>2. ChainInv /\ [Next]_vars => [ConnectFails => ~Coins(job.head).ok \/ SpendsLostCoin]_vars
  BY <1>1
<1> QED
  BY <1>2, ChainInvariant, PTL DEF Spec, RefusesOnlyInvalid
=============================================================================
