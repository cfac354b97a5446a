---------------------------- MODULE HistoryProofs ----------------------------
(***************************************************************************)
(* Proofs about the history projection: what the rebuild repairs, and what *)
(* a walk over the pages shows, for every number of transfers, every size  *)
(* of batch and of page.                                                   *)
(***************************************************************************)
EXTENDS History, DataLemmas

Statuses == {"NONE", "BEGUN", "PENDING", "PROCESSING", "COMPLETED", "FAILED"}

\* The row is the one the rebuild would write now.
Repaired(t) == row[t] = ExpectedRow(Current(t)) /\ t \notin stray

-----------------------------------------------------------------------------
(* The inductive invariant of the rebuild *)

TypeOK ==
  /\ status \in [Transfer -> Statuses] /\ row \in [Transfer -> Statuses]
  /\ phase \in {"idle", "read", "write", "done"} /\ after \in Nat
  /\ DOMAIN batch \subseteq Committed /\ \A t \in DOMAIN batch : ExpectedRow(batch[t]) \in Statuses

\* A transfer that is not committed has no row, and one within a country has its
\* terms from its commit on.
RowsOK ==
  /\ \A t \in Transfer \ Committed : row[t] = "NONE" /\ t \notin terms /\ t \notin stray
  /\ Committed \ International \subseteq terms

\* What the rebuild has come past is repaired; what it has read and not written is
\* still as it was read, unless it moved.
RebuildOK ==
  /\ phase = "idle" => after = 0
  /\ phase = "read" => \A t \in Committed \ moved : t <= after => Repaired(t)
  /\ phase = "done" => \A t \in Committed \ moved : Repaired(t)
  /\ IF phase = "write"
     THEN /\ DOMAIN batch # {}
          /\ \A t \in DOMAIN batch \ moved : batch[t] = Current(t)
          /\ \A t \in Committed \ (moved \cup DOMAIN batch) :
               t <= Max(DOMAIN batch) => Repaired(t)
     ELSE DOMAIN batch = {}

RInv == TypeOK /\ RowsOK /\ RebuildOK

\* There are finitely many transfers.
LEMMA FiniteTransfers == IsFiniteSet(Transfer)
  <1>1. PICK m \in Int, n \in Int : m = 1 /\ n = Transfers
    BY TransfersAssumption
  <1>2. IsFiniteSet(m..n)
    BY FS_Interval
  <1> QED
    BY <1>1, <1>2 DEF Transfer

\* A batch is an initial part of the ids it is taken from, and empty only if there
\* are none.
LEMMA FirstIdsFacts ==
  ASSUME NEW S \in SUBSET Transfer
  PROVE  /\ FirstIds(S, BatchSize) \subseteq S
         /\ S # {} => FirstIds(S, BatchSize) # {}
         /\ \A t \in S, u \in FirstIds(S, BatchSize) : t <= u => t \in FirstIds(S, BatchSize)
  <1> DEFINE Below(t) == {u \in S : u < t}
  <1>1. IsFiniteSet(S)
    BY FiniteTransfers, FS_Subset
  <1>2. \A t \in S : IsFiniteSet(Below(t)) /\ Cardinality(Below(t)) \in Nat
    BY <1>1, FS_Subset, FS_CardinalityType
  <1>3. ASSUME S # {} PROVE FirstIds(S, BatchSize) # {}
    <2>1. S \in SUBSET Nat
      BY DEF Transfer
    <2>2. PICK t \in S : \A u \in S : t <= u
      BY <1>3, <2>1, LeastNat
    <2>3. Below(t) = {}
      <3>1. \A u \in S : ~ (u < t)
        <4> TAKE u \in S
        <4>1. t \in Nat /\ u \in Nat /\ t <= u
          BY <2>1, <2>2
        <4> QED
          BY <4>1
      <3> QED
        BY <3>1
    <2>4. Cardinality(Below(t)) < BatchSize
      BY <2>3, FS_EmptySet, SizesAssumption
    <2> QED
      BY <2>4 DEF FirstIds
  <1>4. ASSUME NEW t \in S, NEW u \in FirstIds(S, BatchSize), t <= u
        PROVE  t \in FirstIds(S, BatchSize)
    <2>1. u \in S /\ Cardinality(Below(u)) < BatchSize
      BY DEF FirstIds
    <2>2. t \in Int /\ u \in Int
      BY <2>1 DEF Transfer
    <2>3. PICK B, C : B = Below(t) /\ C = Below(u)
      OBVIOUS
    <2>4. B \in SUBSET C /\ IsFiniteSet(C)
      <3>1. \A x \in S : x < t => x < u
        <4> TAKE x \in S
        <4>1. x \in Int
          BY DEF Transfer
        <4> QED
          BY <1>4, <2>2, <4>1
      <3> QED
        BY <1>2, <2>1, <2>3, <3>1
    <2>5. Cardinality(B) <= Cardinality(C)
      BY <2>4, FS_Subset
    <2>6. Cardinality(B) \in Nat /\ Cardinality(C) \in Nat /\ Cardinality(C) < BatchSize
      BY <1>2, <2>1, <2>3
    <2>7. Cardinality(Below(t)) < BatchSize
      BY <2>3, <2>5, <2>6, SizesAssumption
    <2> QED
      BY <2>7 DEF FirstIds
  <1> QED
    BY <1>3, <1>4 DEF FirstIds

\* The last id of a batch.
LEMMA LastId ==
  ASSUME NEW T \in SUBSET Transfer, T # {}
  PROVE  Max(T) \in T /\ \A t \in T : t <= Max(T)
  <1>1. T \in SUBSET Nat /\ \A t \in T : t <= Transfers
    BY TransfersAssumption DEF Transfer
  <1> QED
    BY <1>1, TransfersAssumption, GreatestNat

\* What the steps of a transfer make of its row, whatever id a new one draws.
LEMMA TransferRows ==
  ASSUME NEW t \in Transfer
  PROVE  /\ Begin(t) => row' = row
         /\ Commit(t) => row' = [row EXCEPT ![t] = IF t \in International THEN "NONE" ELSE "PENDING"]
         /\ Process(t) =>
              row' = [row EXCEPT ![t] = IF t \in International \/ @ # "NONE" THEN "PROCESSING" ELSE @]
         /\ Settle(t) => \E st \in {"COMPLETED", "FAILED"} :
              /\ status' = [status EXCEPT ![t] = st]
              /\ row' = [row EXCEPT ![t] = IF @ = "NONE" THEN @ ELSE st]
  <1>1. \A new : RowsBecome(new) => row' = new
    BY DEF RowsBecome
  <1>2. Begin(t) => row' = row
    BY DEF Begin, rows
  <1>3. Commit(t) => row' = [row EXCEPT ![t] = IF t \in International THEN "NONE" ELSE "PENDING"]
    BY <1>1, Zenon DEF Commit
  <1>4. Process(t) =>
          row' = [row EXCEPT ![t] = IF t \in International \/ @ # "NONE" THEN "PROCESSING" ELSE @]
    BY <1>1, Zenon DEF Process
  <1>5. Settle(t) => \E st \in {"COMPLETED", "FAILED"} :
          /\ status' = [status EXCEPT ![t] = st]
          /\ row' = [row EXCEPT ![t] = IF @ = "NONE" THEN @ ELSE st]
    <2> SUFFICES ASSUME Settle(t)
                 PROVE  \E st \in {"COMPLETED", "FAILED"} :
                          /\ status' = [status EXCEPT ![t] = st]
                          /\ row' = [row EXCEPT ![t] = IF @ = "NONE" THEN @ ELSE st]
      OBVIOUS
    <2>1. PICK st \in {"COMPLETED", "FAILED"} :
            /\ status' = [status EXCEPT ![t] = st]
            /\ RowsBecome([row EXCEPT ![t] = IF @ = "NONE" THEN @ ELSE st])
      BY Zenon DEF Settle
    <2>2. row' = [row EXCEPT ![t] = IF @ = "NONE" THEN @ ELSE st]
      BY <1>1, <2>1, Zenon
    <2> QED
      BY <2>1, <2>2, Zenon
  <1> QED
    BY <1>2, <1>3, <1>4, <1>5, Zenon

\* A step of a transfer that the rebuild may have come past.
LEMMA TransferStep ==
  ASSUME RInv, NEW t \in Transfer, Begin(t) \/ Commit(t) \/ Process(t) \/ Settle(t)
  PROVE  RInv' /\ Committed \subseteq Committed'
  <1>1. Committed \subseteq Committed'
    BY DEF RInv, TypeOK, Statuses, Committed, Begin, Commit, Process, Settle, rows, rebuild
  <1>2. TypeOK'
    BY <1>1, TransferRows DEF RInv, TypeOK, Statuses, Begin, Commit, Process, Settle, rows, rebuild
  <1>3. RowsOK'
    <2>1. CASE Begin(t)
      BY <2>1, TransferRows DEF RInv, TypeOK, RowsOK, Statuses, Committed, Begin, rows
    <2>2. CASE Commit(t)
      BY <2>2, TransferRows DEF RInv, TypeOK, RowsOK, Statuses, Committed, Commit
    <2>3. CASE Process(t)
      BY <2>3, TransferRows DEF RInv, TypeOK, RowsOK, Statuses, Committed, Process
    <2>4. CASE Settle(t)
      <3>1. status[t] \in {"PENDING", "PROCESSING"} /\ UNCHANGED <<terms, stray>>
        BY <2>4, Zenon DEF Settle
      <3>2. PICK st \in {"COMPLETED", "FAILED"} :
              /\ status' = [status EXCEPT ![t] = st]
              /\ row' = [row EXCEPT ![t] = IF @ = "NONE" THEN @ ELSE st]
        BY <2>4, TransferRows, Zenon
      <3> QED
        BY <3>1, <3>2 DEF RInv, TypeOK, RowsOK, Statuses, Committed
    <2> QED
      BY <2>1, <2>2, <2>3, <2>4
  <1>4. \A u \in Committed' \ moved' : u \in Committed => u \notin moved
    BY DEF Begin, Commit, Process, Settle, rows, Move, rebuild
  <1>5. \A u \in Committed' : (u \in Committed => Repaired(u)) => Repaired(u)'
    <2> SUFFICES ASSUME NEW u \in Committed', u \in Committed => Repaired(u) PROVE Repaired(u)'
      OBVIOUS
    <2>0. u \in Transfer
      BY DEF Committed
    <2>1. CASE u # t
      BY <2>0, <2>1, TransferRows DEF RInv, TypeOK, Committed, Repaired, Current, ExpectedRow,
                        Begin, Commit, Process, Settle, rows
    <2>2. CASE u = t
      <3>1. ~Begin(t)
        BY <2>2 DEF RInv, TypeOK, Committed, Begin
      <3>2. CASE Commit(t)
        BY <2>2, <3>2, TransferRows DEF RInv, TypeOK, RowsOK, Committed, Repaired, Current, ExpectedRow, Commit
      <3>3. CASE Process(t)
        <4>1. status[t] = "PENDING" /\ t \in Committed
          BY <2>2, <3>3 DEF Process, Committed
        <4>2. t \in International \/ t \in terms
          BY <4>1 DEF RInv, RowsOK
        <4>3. row[t] = ExpectedRow(Current(t)) /\ t \notin stray
          BY <2>2, <4>1 DEF Repaired
        <4>4. t \in terms => row[t] = "PENDING"
          BY <4>1, <4>3 DEF ExpectedRow, Current
        <4>5. /\ status'[t] = "PROCESSING" /\ row'[t] = "PROCESSING"
              /\ t \in terms' /\ stray' = stray
          BY <3>3, <4>2, <4>4, TransferRows DEF Process, RInv, TypeOK
        <4> QED
          BY <2>2, <4>3, <4>5 DEF Repaired, ExpectedRow, Current
      <3>4. CASE Settle(t)
        <4>1. t \in Committed /\ status[t] # "NONE"
          BY <2>2, <3>4 DEF Settle, Committed
        <4>2. row[t] = ExpectedRow(Current(t)) /\ t \notin stray
          BY <2>2, <4>1 DEF Repaired
        <4>3. row[t] = IF t \in terms THEN status[t] ELSE "NONE"
          BY <4>2 DEF ExpectedRow, Current
        <4>4. PICK st \in {"COMPLETED", "FAILED"} :
                /\ status'[t] = st /\ row'[t] = IF row[t] = "NONE" THEN "NONE" ELSE st
                /\ terms' = terms /\ stray' = stray
          BY <3>4, TransferRows DEF Settle, RInv, TypeOK
        <4>5. row'[t] = IF t \in terms THEN status'[t] ELSE "NONE"
          BY <4>1, <4>3, <4>4
        <4> QED
          BY <2>2, <4>2, <4>4, <4>5 DEF Repaired, ExpectedRow, Current
      <3> QED
        BY <3>1, <3>2, <3>3, <3>4
    <2> QED
      BY <2>1, <2>2
  <1>6. \A u \in DOMAIN batch \ moved' : u \notin moved /\ Current(u)' = Current(u)
    BY DEF RInv, TypeOK, Committed, Current, Begin, Commit, Process, Settle, rows, Move, rebuild
  <1>7. UNCHANGED <<phase, after, batch>>
    BY DEF Begin, Commit, Process, Settle, rows, rebuild
  <1>8. RebuildOK'
    BY <1>1, <1>4, <1>5, <1>6, <1>7 DEF RInv, RebuildOK
  <1> QED
    BY <1>1, <1>2, <1>3, <1>8 DEF RInv
\* The read of a batch skips only what is repaired.
LEMMA ReadStep ==
  ASSUME RInv, ReadBatch
  PROVE  RInv'
  <1> DEFINE S == {t \in Committed : t > after}
             found == FirstIds(S, BatchSize)
  <1>0. UNCHANGED <<status, terms, row, stray, after, moved>> /\ Committed' = Committed
    BY DEF ReadBatch, table, rows, Committed
  <1>1. /\ S \in SUBSET Transfer /\ found \subseteq S
        /\ S # {} => found # {} /\ \A t \in S, u \in found : t <= u => t \in found
    <2>1. S \in SUBSET Transfer
      BY DEF Committed
    <2> HIDE DEF S
    <2> QED
      BY <2>1, FirstIdsFacts
  <1>2. /\ batch' = [t \in found |-> Current(t)] /\ phase' = IF found = {} THEN "done" ELSE "write"
        /\ DOMAIN batch' = found
    BY DEF ReadBatch
  <1>3. \A t \in Committed \ moved : t \notin S => Repaired(t)
    <2> SUFFICES ASSUME NEW t \in Committed \ moved, t \notin S PROVE Repaired(t)
      OBVIOUS
    <2>1. t \in Int /\ t >= 1 /\ after \in Int
      BY DEF Committed, Transfer, RInv, TypeOK
    <2>2. t <= after
      BY <2>1
    <2> QED
      BY <2>1, <2>2 DEF ReadBatch, RInv, RebuildOK
  <1>4. Repaired(0)' = Repaired(0) /\ \A t : Repaired(t)' = Repaired(t) /\ Current(t)' = Current(t)
    BY <1>0 DEF Repaired, Current
  <1>5. TypeOK'
    <2>1. \A t \in Transfer : ExpectedRow(Current(t)) \in Statuses
      BY DEF RInv, TypeOK, ExpectedRow, Current, Statuses
    <2>2. \A t \in DOMAIN batch' : t \in Transfer /\ t \in Committed /\ batch'[t] = Current(t)
      BY <1>1, <1>2 DEF Committed
    <2>3. phase' \in {"idle", "read", "write", "done"}
      BY <1>2
    <2> QED
      BY <1>0, <2>1, <2>2, <2>3 DEF RInv, TypeOK
  <1>6. RowsOK'
    BY <1>0 DEF RInv, RowsOK
  <1>7. CASE found = {}
    <2>1. S = {}
      BY <1>1, <1>7
    <2>2. phase' = "done" /\ DOMAIN batch' = {}
      BY <1>2, <1>7
    <2>3. \A t \in Committed \ moved : Repaired(t)
      BY <1>3, <2>1
    <2>4. RebuildOK'
      BY <1>0, <1>4, <2>2, <2>3 DEF RebuildOK
    <2> QED
      BY <1>5, <1>6, <2>4 DEF RInv
  <1>8. CASE found # {}
    <2> HIDE DEF found, S
    <2>1. phase' = "write" /\ DOMAIN batch' # {}
      BY <1>2, <1>8
    <2>2. \A t \in DOMAIN batch' : batch'[t] = Current(t)
      BY <1>2
    <2>3. Max(found) \in found
      BY <1>1, <1>8, LastId
    <2>4. \A t \in Committed \ (moved \cup found) : t <= Max(found) => Repaired(t)
      BY <1>1, <1>3, <2>3
    <2>5. RebuildOK'
      BY <1>0, <1>2, <1>4, <2>1, <2>2, <2>4 DEF RebuildOK
    <2> QED
      BY <1>5, <1>6, <2>5 DEF RInv
  <1> QED
    BY <1>7, <1>8

\* The write of a batch repairs it, and leaves what came before it repaired.
LEMMA WriteStep ==
  ASSUME RInv, WriteBatch
  PROVE  RInv'
  <1> DEFINE B == DOMAIN batch
  <1>0. /\ UNCHANGED <<status, terms, moved>> /\ Committed' = Committed /\ Committed \subseteq Transfer
        /\ row' = [t \in Transfer |-> IF t \in B THEN ExpectedRow(batch[t]) ELSE row[t]]
        /\ stray' = stray \ B /\ after' = Max(B) /\ phase' = "read" /\ DOMAIN batch' = {}
    BY DEF WriteBatch, RowsBecome, table, Committed, NoBatch
  <1>1. /\ B # {} /\ B \subseteq Committed /\ \A t \in B \ moved : batch[t] = Current(t)
        /\ \A t \in Committed \ (moved \cup B) : t <= Max(B) => Repaired(t)
    BY DEF RInv, TypeOK, RebuildOK, WriteBatch
  <1>2. Max(B) \in B /\ Max(B) \in Nat
    <2>1. B \in SUBSET Transfer
      BY <1>0, <1>1
    <2> QED
      BY <1>1, <2>1, LastId DEF Transfer
  <1>3. \A t \in Committed \ moved : t <= Max(B) => Repaired(t)'
    <2> SUFFICES ASSUME NEW t \in Committed \ moved, t <= Max(B) PROVE Repaired(t)'
      OBVIOUS
    <2>1. Current(t)' = Current(t) /\ t \in Transfer
      BY <1>0 DEF Current
    <2>2. CASE t \in B
      BY <1>0, <1>1, <2>1, <2>2 DEF Repaired
    <2>3. CASE t \notin B
      BY <1>0, <1>1, <2>1, <2>3 DEF Repaired
    <2> QED
      BY <2>2, <2>3
  <1>4. TypeOK'
    BY <1>0, <1>1, <1>2 DEF RInv, TypeOK
  <1>5. RowsOK'
    BY <1>0, <1>1 DEF RInv, RowsOK
  <1>6. RebuildOK'
    BY <1>0, <1>3 DEF RebuildOK
  <1> QED
    BY <1>4, <1>5, <1>6 DEF RInv

\* Every step keeps the invariant of the rebuild.
LEMMA RebuildStep ==
  ASSUME RInv, [Next]_vars
  PROVE  RInv'
  <1>1. CASE UNCHANGED <<status, terms, row, stray, phase, after, batch, moved>>
    BY <1>1 DEF RInv, TypeOK, RowsOK, RebuildOK, Committed, Repaired, Current
  <1>2. ASSUME NEW t \in Transfer, Damage(t) PROVE RInv'
    <2>0. row' = row \/ \E st \in {"NONE", "FAILED"} : row' = [row EXCEPT ![t] = st]
      <3>1. UNCHANGED rows \/ \E st \in {"NONE", "FAILED"} : RowsBecome([row EXCEPT ![t] = st])
        BY <1>2, Zenon DEF Damage
      <3>2. \A new : RowsBecome(new) => row' = new
        BY DEF RowsBecome
      <3> QED
        BY <3>1, <3>2, Zenon DEF rows
    <2>1. /\ UNCHANGED <<status, terms, phase, after, batch, moved>> /\ phase = "idle"
          /\ row[t] # "NONE" /\ row' \in [Transfer -> Statuses]
          /\ \A u \in Transfer \ {t} : row'[u] = row[u] /\ (u \in stray' => u \in stray)
      BY <1>2, <2>0 DEF Damage, table, rebuild, RInv, TypeOK, Statuses
    <2>2. t \in Committed /\ Committed' = Committed
      BY <2>1 DEF RInv, RowsOK, Committed
    <2> QED
      BY <2>1, <2>2 DEF RInv, TypeOK, RowsOK, RebuildOK
  <1> QED
    BY <1>1, <1>2, TransferStep, ReadStep, WriteStep
       DEF Next, Tick, ReadPage, Finished, table, rows, rebuild, vars

\* The rebuild repairs what it has come past, whatever transfers are created and
\* settle while it runs: every row that was lost, wrong or nobody's before it began,
\* for a transfer that did not change between the read and the write of its batch.
THEOREM RebuildRepairsTheorem == Spec => []RebuildRepairs
  <1>1. Init => RInv
    BY DEF Init, RInv, TypeOK, RowsOK, RebuildOK, Statuses, Committed, NoBatch
  <1>2. RInv => RebuildRepairs
    BY DEF RInv, RebuildOK, RebuildRepairs, Repaired
  <1> QED
    BY <1>1, <1>2, RebuildStep, PTL DEF Spec
-----------------------------------------------------------------------------
(* The walk over the pages *)

Shown == {shown[i] : i \in 1..Len(shown)}

\* What an entry can be.
Place == [transfer : Transfer, at : Nat, id : Nat \ {0}]

\* The ids of rows are drawn and differ.
IdsOK ==
  /\ clock \in Nat /\ at \in [Transfer -> Nat] /\ id \in [Transfer -> Nat]
  /\ \A t \in WithRow : id[t] \in drawn \ {0}
  /\ \A t, u \in WithRow : id[t] = id[u] => t = u

\* What was shown goes from newer to older; the rows that were always there and were
\* not shown yet come after the cursor.
WalkOK ==
  /\ walk \in {"idle", "page", "done"}
  /\ shown \in Seq(Place)
  /\ \A i, j \in 1..Len(shown) : i < j => Newer(shown[i], shown[j])
  /\ walk = "idle" => cursor = NoEntry /\ Len(shown) = 0
  /\ walk # "idle" => present \subseteq Entries
  /\ walk = "page" => /\ Len(shown) # 0 /\ cursor = shown[Len(shown)]
                     /\ \A x \in present \ Shown : Newer(cursor, x)
  /\ walk = "done" => present \subseteq Shown

\* A row that stays keeps its id, and a new one draws another.
LEMMA IdsStep ==
  ASSUME IdsOK, UNCHANGED rows \/ \E new : RowsBecome(new), clock' \in Nat, at' \in [Transfer -> Nat]
  PROVE  IdsOK' /\ \A t \in WithRow : t \in WithRow' => id'[t] = id[t]
  <1>1. CASE UNCHANGED rows
    BY <1>1 DEF IdsOK, WithRow, rows
  <1>2. ASSUME NEW new, RowsBecome(new)
        PROVE  IdsOK' /\ \A t \in WithRow : t \in WithRow' => id'[t] = id[t]
    <2> DEFINE Created == {t \in Transfer : row[t] = "NONE" /\ new[t] # "NONE"}
    <2>1. PICK draw \in [Created -> RowIds \ drawn] :
            /\ IsInjective(draw)
            /\ row' = new
            /\ id' = [t \in Transfer |-> IF new[t] = "NONE" THEN 0
                                         ELSE IF t \in Created THEN draw[t] ELSE id[t]]
            /\ drawn' = drawn \cup {draw[t] : t \in Created}
      BY <1>2, Zenon DEF RowsBecome
    <2>2. /\ \A t \in Created : draw[t] \in Nat \ {0} /\ draw[t] \notin drawn /\ draw[t] \in drawn'
          /\ \A t, u \in Created : draw[t] = draw[u] => t = u
          /\ drawn \subseteq drawn'
      BY <2>1, RowIdsAssumption DEF IsInjective
    <2>3. /\ \A t \in Created : t \in Transfer /\ row[t] = "NONE" /\ new[t] # "NONE"
          /\ \A t \in Transfer : row[t] # "NONE" \/ new[t] = "NONE" \/ t \in Created
      OBVIOUS
    <2>4. WithRow' = {t \in Transfer : new[t] # "NONE"}
      BY <2>1 DEF WithRow
    <2> HIDE DEF Created
    <2>5. \A t \in WithRow' : \/ t \in Created /\ id'[t] = draw[t]
                              \/ t \in WithRow /\ id'[t] = id[t] /\ id[t] \in drawn \ {0}
      BY <2>1, <2>3, <2>4 DEF WithRow, IdsOK
    <2>6. id' \in [Transfer -> Nat]
      BY <2>1, <2>2 DEF IdsOK
    <2>7. \A t \in WithRow' : id'[t] \in drawn' \ {0}
      BY <2>2, <2>5
    <2>8. \A t, u \in WithRow' : id'[t] = id'[u] => t = u
      BY <2>2, <2>5 DEF IdsOK
    <2>9. \A t \in WithRow : t \in WithRow' => id'[t] = id[t]
      BY <2>1, <2>3, <2>4 DEF WithRow
    <2> QED
      BY <2>6, <2>7, <2>8, <2>9 DEF IdsOK
  <1> QED
    BY <1>1, <1>2

\* The rows are finitely many, and their order is strict and total.
LEMMA EntriesFacts ==
  ASSUME IdsOK, NEW S \in SUBSET Entries
  PROVE  S \subseteq Place /\ IsFiniteSet(S) /\ TotalOrder(NewestFirst, S)
  <1>1. \A x \in Entries : \E t \in WithRow : x = [transfer |-> t, at |-> at[t], id |-> id[t]]
    BY DEF Entries, Entry
  <1>2. \A t \in WithRow : t \in Transfer /\ at[t] \in Nat /\ id[t] \in Nat \ {0}
    BY DEF WithRow, IdsOK
  <1>3. Entries \subseteq Place
    BY <1>1, <1>2 DEF Place
  <1>4. IsFiniteSet(Entries)
    <2> DEFINE e == [t \in WithRow |-> Entry(t)]
    <2>1. e \in Surjection(WithRow, Entries)
      BY DEF Surjection, Entries
    <2>2. IsFiniteSet(WithRow)
      BY FiniteTransfers, FS_Subset DEF WithRow
    <2> HIDE DEF e
    <2> QED
      BY <2>1, <2>2, FS_Surjection
  <1>5. \A x, y \in Entries : <<x, y>> \in NewestFirst <=> Newer(x, y)
    BY DEF NewestFirst
  <1>6. \A x \in Entries : x.at \in Int /\ x.id \in Int
    BY <1>3 DEF Place
  <1>7. \A x, y \in Entries : x.at = y.at /\ x.id = y.id => x = y
    <2> TAKE x \in Entries, y \in Entries
    <2> HAVE x.at = y.at /\ x.id = y.id
    <2>1. PICK t \in WithRow, u \in WithRow :
            /\ x = [transfer |-> t, at |-> at[t], id |-> id[t]]
            /\ y = [transfer |-> u, at |-> at[u], id |-> id[u]]
      BY <1>1
    <2>2. id[t] = id[u]
      BY <2>1
    <2>3. t = u
      BY <2>2 DEF IdsOK
    <2> QED
      BY <2>1, <2>3
  <1>8. \A x \in Entries : ~Newer(x, x)
    BY <1>6 DEF Newer
  <1>9. \A x, y, z \in Entries : Newer(x, y) /\ Newer(y, z) => Newer(x, z)
    BY <1>6 DEF Newer
  <1>10. \A x, y \in Entries : x = y \/ Newer(x, y) \/ Newer(y, x)
    BY <1>6, <1>7 DEF Newer
  <1>11. IsFiniteSet(S)
    BY <1>4, FS_Subset
  <1>12. \A x \in S : x \in Entries
    OBVIOUS
  <1>13. TotalOrder(NewestFirst, S)
    BY <1>5, <1>8, <1>9, <1>10, <1>12, Zenon DEF TotalOrder
  <1> QED
    BY <1>3, <1>11, <1>13

\* A step that leaves the reader alone: rows that go are taken out of what the walk
\* must show.
LEMMA WalkKept ==
  ASSUME WalkOK, UNCHANGED <<walk, cursor, shown>>,
         present' \subseteq present, walk # "idle" => present' \subseteq Entries'
  PROVE  WalkOK'
  <1>1. Shown' = Shown
    BY DEF Shown
  <1> QED
    BY <1>1 DEF WalkOK, Newer

\* What Take takes.
LEMMA TakeFacts ==
  ASSUME NEW S, NEW s \in Seq(S), NEW k \in Nat
  PROVE  /\ Take(s, k) \in Seq(S) /\ Len(Take(s, k)) = (IF Len(s) <= k THEN Len(s) ELSE k)
         /\ \A i \in 1..Len(Take(s, k)) : Take(s, k)[i] = s[i]
  <1>1. PICK m : m = IF Len(s) <= k THEN Len(s) ELSE k
    OBVIOUS
  <1>2. m \in Nat /\ m <= Len(s) /\ Len(s) \in Nat
    BY <1>1
  <1>3. m \in Int /\ 1 \in Int /\ \A i \in 1..m : s[i] \in S
    BY <1>2
  <1>4. SubSeq(s, 1, m) \in Seq(S) /\ Len(SubSeq(s, 1, m)) = m /\ \A i \in 1..m : SubSeq(s, 1, m)[i] = s[i]
    BY <1>2, <1>3, SubSeqProperties
  <1>5. Take(s, k) = SubSeq(s, 1, m)
    BY <1>1 DEF Take
  <1> QED
    BY <1>1, <1>4, <1>5

\* What a page shows: the first rows after the cursor, in order.
LEMMA PageFacts ==
  ASSUME NEW W, NEW n \in Nat, NEW found \in Seq(W), Len(found) = n,
         NEW list, list = Take(found, Limit + 1), NEW page, page = Take(list, Limit)
  PROVE  /\ page \in Seq(W) /\ Len(page) = (IF n <= Limit THEN n ELSE Limit)
         /\ \A i \in 1..Len(page) : page[i] = found[i]
         /\ Len(list) > Limit <=> n > Limit
  <1>2. Limit \in Nat /\ Limit + 1 \in Nat
    BY SizesAssumption
  <1>3. /\ list \in Seq(W) /\ Len(list) = (IF n <= Limit + 1 THEN n ELSE Limit + 1)
        /\ \A i \in 1..Len(list) : list[i] = found[i]
    BY <1>2, TakeFacts
  <1>4. /\ page \in Seq(W) /\ Len(page) = (IF Len(list) <= Limit THEN Len(list) ELSE Limit)
        /\ \A i \in 1..Len(page) : page[i] = list[i]
    BY <1>2, <1>3, TakeFacts
  <1>5. PICK k, m : k = Len(list) /\ m = Len(page)
    OBVIOUS
  <1>6. k = (IF n <= Limit + 1 THEN n ELSE Limit + 1) /\ m = (IF k <= Limit THEN k ELSE Limit)
    BY <1>3, <1>4, <1>5
  <1>7. /\ k \in Nat /\ m \in Nat /\ m <= k /\ m = (IF n <= Limit THEN n ELSE Limit)
        /\ k > Limit <=> n > Limit
    BY <1>2, <1>6
  <1>8. \A i \in 1..m : i \in 1..k
    BY <1>7
  <1> QED
    BY <1>3, <1>4, <1>5, <1>7, <1>8

\* The next page goes on where the last one ended.
LEMMA PageStep ==
  ASSUME IdsOK, WalkOK, ReadPage
  PROVE  WalkOK'
  <1>1. PICK W, found, list, page, n :
          /\ W = {x \in Entries : Beyond(x)} /\ n = Cardinality(W)
          /\ found = InOrder(W, NewestFirst)
          /\ list = Take(found, Limit + 1) /\ page = Take(list, Limit)
    OBVIOUS
  <1>2. /\ walk # "done" /\ present' = IF walk = "idle" THEN Entries ELSE present
        /\ shown' = shown \o page
        /\ IF Len(list) > Limit THEN walk' = "page" /\ cursor' = Last(page)
           ELSE walk' = "done" /\ UNCHANGED cursor
        /\ Entries' = Entries
    BY <1>1 DEF ReadPage, table, rows, Entries, Entry, WithRow
  <1>3. W \subseteq Entries /\ W \subseteq Place /\ IsFiniteSet(W) /\ TotalOrder(NewestFirst, W)
    BY <1>1, EntriesFacts
  <1>4. /\ n \in Nat /\ found \in [1..n -> W]
        /\ \A x \in W : \E i \in 1..n : found[i] = x
        /\ \A i, j \in 1..n : i < j => Newer(found[i], found[j])
    <2>1. /\ Cardinality(W) \in Nat
          /\ InOrder(W, NewestFirst) \in [1..Cardinality(W) -> W]
          /\ \A x \in W : \E i \in 1..Cardinality(W) : InOrder(W, NewestFirst)[i] = x
          /\ \A i, j \in 1..Cardinality(W) :
               i < j => <<InOrder(W, NewestFirst)[i], InOrder(W, NewestFirst)[j]>> \in NewestFirst
      BY <1>3, InOrderLists, Zenon
    <2>2. \A x, y : <<x, y>> \in NewestFirst => Newer(x, y)
      BY DEF NewestFirst
    <2> QED
      BY <1>1, <2>1, <2>2
  <1>5. PICK m : m = Len(page)
    OBVIOUS
  <1>6. /\ page \in Seq(W) /\ Len(page) = (IF n <= Limit THEN n ELSE Limit)
        /\ \A i \in 1..Len(page) : page[i] = found[i]
        /\ Len(list) > Limit <=> n > Limit
    <2>1. n \in Nat /\ found \in Seq(W) /\ Len(found) = n /\ list = Take(found, Limit + 1) /\ page = Take(list, Limit)
      BY <1>1, <1>4
    <2> QED
      BY <2>1, PageFacts
  <1>7. m \in Nat /\ n \in Nat /\ m <= n /\ (n > Limit => m = Limit) /\ (~(n > Limit) => m = n) /\ Limit \in Nat \ {0}
    BY <1>4, <1>5, <1>6, SizesAssumption
  <1>8. PICK l : l = Len(shown)
    OBVIOUS
  <1>9. /\ l \in Nat /\ shown' \in Seq(Place) /\ Len(shown') = l + m
        /\ \A i \in 1..(l + m) : shown'[i] = IF i <= l THEN shown[i] ELSE found[i - l]
    <2>1. shown \in Seq(Place) /\ page \in Seq(Place)
      BY <1>3, <1>6 DEF WalkOK
    <2>2. /\ shown' \in Seq(Place) /\ Len(shown') = l + m
          /\ \A i \in 1..(l + m) : shown'[i] = IF i <= l THEN shown[i] ELSE page[i - l]
      BY <1>2, <1>5, <1>8, <2>1, ConcatProperties
    <2>3. l \in Nat
      BY <1>8, <2>1
    <2>4. \A i \in 1..(l + m) : ~(i <= l) => i - l \in 1..m
      BY <1>7, <2>3
    <2> QED
      BY <1>5, <1>6, <2>2, <2>3, <2>4
  <1>10. /\ \A i \in 1..l : shown'[i] = shown[i]
         /\ \A k \in 1..m : l + k \in 1..(l + m) /\ shown'[l + k] = found[k]
         /\ \A i \in 1..(l + m) : i \in 1..l \/ \E k \in 1..m : i = l + k
    <2>1. \A k \in 1..m : l + k \in 1..(l + m) /\ ~(l + k <= l) /\ (l + k) - l = k
      BY <1>7, <1>9
    <2>2. \A i \in 1..l : i \in 1..(l + m) /\ i <= l
      BY <1>7, <1>9
    <2>3. ASSUME NEW i \in 1..(l + m), i \notin 1..l PROVE \E k \in 1..m : i = l + k
      <3>1. i - l \in 1..m /\ i = l + (i - l)
        BY <1>7, <1>9, <2>3
      <3> QED
        BY <3>1
    <2> QED
      BY <1>9, <2>1, <2>2, <2>3
  <1>11. \A i \in 1..l : shown[i] \in Place /\ shown[i] \in Shown
    BY <1>8 DEF WalkOK, Shown
  <1>12. \A k \in 1..n : found[k] \in Place /\ Beyond(found[k])
    BY <1>1, <1>3, <1>4
  <1>13. \A x \in W : x \in Shown' \/ (walk' = "page" /\ Newer(cursor', x))
    <2> SUFFICES ASSUME NEW x \in W, x \notin Shown'
                 PROVE  walk' = "page" /\ Newer(cursor', x)
      OBVIOUS
    <2>1. PICK k \in 1..n : found[k] = x
      BY <1>4
    <2>2. k \notin 1..m
      BY <1>9, <1>10, <2>1 DEF Shown
    <2>3. n > Limit /\ m = Limit /\ m \in 1..n /\ m < k
      BY <1>4, <1>7, <2>2
    <2>4. walk' = "page" /\ cursor' = found[m]
      BY <1>2, <1>5, <1>6, <2>3 DEF Last
    <2> QED
      BY <1>4, <2>1, <2>3, <2>4
  <1>14. \A x \in present' : x \in Shown \/ x \in W
    BY <1>1, <1>2 DEF WalkOK, Beyond
  <1>15. Shown \subseteq Shown'
    BY <1>7, <1>8, <1>9, <1>10 DEF Shown
  <1>16. present' \subseteq Entries'
    BY <1>2 DEF WalkOK
  <1>17. \A i, j \in 1..(l + m) : i < j => Newer(shown'[i], shown'[j])
    <2> SUFFICES ASSUME NEW i \in 1..(l + m), NEW j \in 1..(l + m), i < j
                 PROVE  Newer(shown'[i], shown'[j])
      OBVIOUS
    <2>0. i \in Int /\ j \in Int
      OBVIOUS
    <2>1. CASE i \in 1..l /\ j \in 1..l
      BY <1>8, <1>10, <2>1 DEF WalkOK
    <2>2. ASSUME NEW k \in 1..m, j = l + k, i \in 1..l PROVE Newer(shown'[i], shown'[j])
      <3>1. walk = "page" /\ cursor = shown[l] /\ l \in 1..l
        BY <1>2, <1>8, <1>9, <2>2 DEF WalkOK
      <3>2. cursor \in Place /\ shown[i] \in Place /\ found[k] \in Place
        BY <1>7, <1>11, <1>12, <2>2, <3>1
      <3>3. Newer(cursor, found[k])
        <4>1. cursor # NoEntry
          BY <3>2 DEF Place, NoEntry
        <4>2. k \in 1..n
          BY <1>7
        <4> QED
          BY <1>12, <4>1, <4>2 DEF Beyond
      <3>4. shown[i] = cursor \/ Newer(shown[i], cursor)
        BY <1>8, <2>0, <2>2, <3>1 DEF WalkOK
      <3>5. Newer(shown[i], found[k])
        BY <3>2, <3>3, <3>4 DEF Newer, Place
      <3> QED
        BY <1>10, <2>2, <3>5
    <2>3. ASSUME NEW h \in 1..m, NEW k \in 1..m, i = l + h, j = l + k
          PROVE  Newer(shown'[i], shown'[j])
      <3>1. h < k /\ h \in 1..n /\ k \in 1..n
        BY <1>7, <1>9, <2>0, <2>3
      <3> QED
        BY <1>4, <1>10, <2>3, <3>1
    <2>4. ~(j \in 1..l /\ \E k \in 1..m : i = l + k)
      BY <1>7, <1>9, <2>0
    <2> QED
      BY <1>10, <2>1, <2>2, <2>3, <2>4
  <1>18. walk' = "page" => Len(shown') # 0 /\ cursor' = shown'[Len(shown')]
    <2> SUFFICES ASSUME walk' = "page" PROVE l + m # 0 /\ cursor' = shown'[l + m]
      BY <1>9
    <2>1. n > Limit /\ m = Limit /\ cursor' = page[m] /\ m \in 1..m
      BY <1>2, <1>5, <1>6, <1>7 DEF Last
    <2> QED
      BY <1>5, <1>6, <1>7, <1>9, <1>10, <2>1
  <1>19. \A x, y : Newer(x, y)' = Newer(x, y)
    BY DEF Newer
  <1> QED
    BY <1>2, <1>9, <1>13, <1>14, <1>15, <1>16, <1>17, <1>18 DEF WalkOK, Newer

\* A row that is neither lost nor moved in time is the same entry after a step.
LEMMA EntriesKept ==
  ASSUME NEW T \in SUBSET WithRow, T \subseteq WithRow',
         \A t \in T : at'[t] = at[t] /\ id'[t] = id[t]
  PROVE  {Entry(t) : t \in T} \subseteq Entries'
  <1> SUFFICES ASSUME NEW t \in T PROVE Entry(t) \in Entries'
    OBVIOUS
  <1>1. Entry(t)' = Entry(t) /\ t \in WithRow'
    BY DEF Entry
  <1> QED
    BY <1>1 DEF Entries

\* Every step keeps the invariant of the walk.
LEMMA WalkStep ==
  ASSUME RInv, IdsOK, WalkOK, [Next]_vars
  PROVE  IdsOK' /\ WalkOK'
  <1>1. CASE UNCHANGED <<clock, at, rows, walk, cursor, shown, present>>
    <2>1. WithRow' = WithRow /\ Entries' = Entries /\ Shown' = Shown
      BY <1>1 DEF WithRow, Entries, Entry, Shown, rows
    <2> QED
      BY <1>1, <2>1 DEF IdsOK, WalkOK, Newer, rows
  <1>2. ASSUME NEW t \in Transfer, Begin(t) \/ Commit(t) \/ Process(t) \/ Settle(t)
        PROVE  IdsOK' /\ WalkOK'
    <2>1. /\ UNCHANGED <<walk, cursor, shown, present, clock>> /\ at' \in [Transfer -> Nat]
          /\ \A u \in Committed : at'[u] = at[u]
      BY <1>2 DEF Begin, Commit, Process, Settle, reader, IdsOK, Committed
    <2>2. UNCHANGED rows \/ \E new : RowsBecome(new)
      BY <1>2, Zenon DEF Begin, Commit, Process, Settle
    <2>3. IdsOK' /\ \A u \in WithRow : u \in WithRow' => id'[u] = id[u]
      BY <2>1, <2>2, IdsStep DEF IdsOK
    <2>4. WithRow \subseteq WithRow' /\ WithRow \subseteq Committed
      <3>1. row \in [Transfer -> Statuses]
        BY DEF RInv, TypeOK
      <3>2. \A u \in Transfer : row[u] # "NONE" => row'[u] # "NONE"
        <4>1. CASE Begin(t)
          BY <4>1, TransferRows
        <4>2. CASE Commit(t)
          <5>1. row[t] = "NONE"
            BY <4>2 DEF Commit, RInv, RowsOK, Committed
          <5> QED
            BY <3>1, <4>2, <5>1, TransferRows
        <4>3. CASE Process(t)
          BY <3>1, <4>3, TransferRows
        <4>4. CASE Settle(t)
          BY <3>1, <4>4, TransferRows
        <4> QED
          BY <1>2, <4>1, <4>2, <4>3, <4>4
      <3> QED
        BY <3>2 DEF WithRow, RInv, RowsOK
    <2>5. Entries \subseteq Entries'
      <3>1. \A u \in WithRow : at'[u] = at[u] /\ id'[u] = id[u]
        BY <2>1, <2>3, <2>4
      <3> QED
        BY <2>4, <3>1, EntriesKept DEF Entries
    <2> QED
      BY <2>1, <2>3, <2>5, WalkKept DEF WalkOK
  <1>3. ASSUME UNCHANGED <<walk, cursor, shown, clock, at>>, present' = present \cap Entries',
               UNCHANGED rows \/ \E new : RowsBecome(new)
        PROVE  IdsOK' /\ WalkOK'
    <2>1. IdsOK'
      BY <1>3, IdsStep DEF IdsOK
    <2> QED
      BY <1>3, <2>1, WalkKept DEF WalkOK
  <1>4. ASSUME NEW t \in Transfer, Damage(t) PROVE IdsOK' /\ WalkOK'
    <2>1. UNCHANGED <<walk, cursor, shown, clock, at>> /\ present' = present \cap Entries'
      BY <1>4 DEF Damage, Lose, table
    <2>2. UNCHANGED rows \/ \E new : RowsBecome(new)
      BY <1>4, Zenon DEF Damage
    <2> QED
      BY <1>3, <2>1, <2>2
  <1>5. CASE WriteBatch
    <2>1. UNCHANGED <<walk, cursor, shown, clock, at>> /\ present' = present \cap Entries'
      BY <1>5 DEF WriteBatch, Lose, table
    <2>2. \E new : RowsBecome(new)
      BY <1>5, Zenon DEF WriteBatch
    <2> QED
      BY <1>3, <2>1, <2>2
  <1>6. CASE Tick
    <2>1. UNCHANGED <<walk, cursor, shown, present, at, rows>> /\ clock' = clock + 1
      BY <1>6 DEF Tick, table, reader
    <2>2. WithRow' = WithRow /\ Entries' = Entries /\ Shown' = Shown
      BY <2>1 DEF WithRow, Entries, Entry, Shown, rows
    <2> QED
      BY <2>1, <2>2 DEF IdsOK, WalkOK, Newer, rows
  <1>7. CASE ReadPage
    <2>1. UNCHANGED <<clock, at, rows>>
      BY <1>7 DEF ReadPage, table
    <2>2. IdsOK'
      BY <2>1 DEF IdsOK, WithRow, rows
    <2> QED
      BY <1>7, <2>2, PageStep
  <1> QED
    BY <1>1, <1>2, <1>4, <1>5, <1>6, <1>7 DEF Next, ReadBatch, Finished, table, reader, rows, vars

\* A client that follows the cursors sees every row that was there all the time, no
\* row twice, newest first, although rows appear, are repaired and are lost behind
\* and ahead of it and many have the same time.
THEOREM PagesAreCompleteTheorem == Spec => []PagesAreComplete
  <1>1. Init => RInv /\ IdsOK /\ WalkOK
    <2>1. Init => RInv
      BY DEF Init, RInv, TypeOK, RowsOK, RebuildOK, Statuses, Committed, NoBatch
    <2>2. Init => IdsOK
      BY DEF Init, IdsOK, WithRow
    <2>3. Init => WalkOK
      BY DEF Init, WalkOK, Shown
    <2> QED
      BY <2>1, <2>2, <2>3
  <1>2. WalkOK => PagesAreComplete
    BY DEF WalkOK, PagesAreComplete, Shown
  <1> QED
    BY <1>1, <1>2, RebuildStep, WalkStep, PTL DEF Spec
=============================================================================
