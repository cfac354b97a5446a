---------------------------- MODULE LedgerProofs ----------------------------
(***************************************************************************)
(* Theorems about the posting engine, for every set of accounts, requests  *)
(* and commands and every number of attempts.                              *)
(*                                                                         *)
(* The inductive invariant says what an open transaction may rely on: the  *)
(* rows it has locked are those of its posting, were locked in ascending   *)
(* order and still hold what its snapshot saw; once the funds are checked  *)
(* it holds all its rows and has computed each balance from them.          *)
(***************************************************************************)
EXTENDS Ledger, DataLemmas

InTransaction == {"locking", "checked"}

\* Domains of the requests' local state, which the EXCEPT updates rely on.
Domains ==
  /\ owner \in [Account -> Request \cup {NoRequest}]
  /\ pc \in [Request -> Labels]
  /\ version \in [Account -> Nat]
  /\ DOMAIN balance = Account
  /\ DOMAIN posting = Request
  /\ DOMAIN snap = Request
  /\ DOMAIN next = Request

\* A locked row belongs to the posting of the transaction that locked it.
LocksAreOwned ==
  \A r \in Request, a \in Account : owner[a] = r =>
    pc[r] \in InTransaction /\ a \in AccountsOf(posting[r])

\* A locked row still holds what the snapshot of its owner saw.
LocksAreFresh ==
  \A r \in Request, a \in Account : owner[a] = r =>
    snap[r].version[a] = version[a] /\ snap[r].balance[a] = balance[a]

\* Equal versions mean equal balances: no balance changes without its version.
\* It is needed when a row is locked, which compares only versions.
SnapshotsAreVersioned ==
  \A r \in Request : pc[r] \in InTransaction =>
    \A a \in Account :
      /\ snap[r].version[a] \in Nat
      /\ snap[r].version[a] <= version[a]
      /\ snap[r].version[a] = version[a] => snap[r].balance[a] = balance[a]

\* Rows are locked in ascending order.
LocksAreAscending ==
  \A r \in Request : pc[r] = "locking" =>
    \A a \in Held(r), b \in Missing(r) : b \in Account => a < b

\* What the funds check leaves behind.
CheckedIsComputed ==
  \A r \in Request : pc[r] = "checked" =>
    /\ Missing(r) = {}
    /\ \A a \in AccountsOf(posting[r]) :
         next[r][a] = snap[r].balance[a] + Effect(posting[r], a)
    /\ \A a \in AccountsOf(posting[r]) \cap Customer : next[r][a] >= 0

IInv ==
  /\ Domains
  /\ LocksAreOwned
  /\ LocksAreFresh
  /\ SnapshotsAreVersioned
  /\ LocksAreAscending
  /\ CheckedIsComputed
  /\ NoOverdraft

-----------------------------------------------------------------------------
\* The invariant holds before the first request.
LEMMA InitInv == Init => IInv
  BY RequestAssumption, AccountAssumption
     DEF Init, IInv, Domains, LocksAreOwned, LocksAreFresh, SnapshotsAreVersioned,
         LocksAreAscending, CheckedIsComputed, NoOverdraft, Labels, InTransaction,
         Held, Missing

\* A request that is outside a transaction and stays outside disturbs nothing:
\* it holds no lock, and the other requests' state is not its to change.
LEMMA OutsideStep ==
  ASSUME IInv, NEW r \in Request,
         pc[r] \notin InTransaction, pc'[r] \notin InTransaction,
         pc' \in [Request -> Labels], DOMAIN posting' = Request,
         \A q \in Request \ {r} : pc'[q] = pc[q] /\ posting'[q] = posting[q],
         UNCHANGED <<balance, version, owner, snap, next>>
  PROVE  IInv'
  <1>1. \A a \in Account : owner[a] # r
    BY DEF IInv, LocksAreOwned
  <1>2. Domains'
    BY DEF IInv, Domains
  <1>3. LocksAreOwned' /\ LocksAreFresh' /\ SnapshotsAreVersioned'
    BY <1>1 DEF IInv, LocksAreOwned, LocksAreFresh, SnapshotsAreVersioned, AccountsOf
  <1>4. \A q \in Request \ {r} : Held(q)' = Held(q) /\ Missing(q)' = Missing(q)
    BY DEF Held, Missing, AccountsOf
  <1>5. LocksAreAscending'
    BY <1>4 DEF IInv, LocksAreAscending, InTransaction
  <1>6. CheckedIsComputed'
    BY <1>4 DEF IInv, CheckedIsComputed, InTransaction
  <1> QED
    BY <1>2, <1>3, <1>5, <1>6 DEF IInv, NoOverdraft

\* A transaction that ends without writing, or a request that dies: its locks
\* are released and nothing else changes.
LEMMA RollbackStep ==
  ASSUME IInv, NEW r \in Request, Rollback(r),
         pc'[r] \notin InTransaction, pc' \in [Request -> Labels],
         \A q \in Request \ {r} : pc'[q] = pc[q],
         UNCHANGED <<balance, version, posting, snap, next>>
  PROVE  IInv'
  <1>1. /\ owner' \in [Account -> Request \cup {NoRequest}]
        /\ \A a \in Account : owner'[a] # r
        /\ \A a \in Account, q \in Request \ {r} : owner'[a] = q <=> owner[a] = q
    BY RequestAssumption DEF Rollback, IInv, Domains
  <1>2. Domains'
    BY <1>1 DEF IInv, Domains
  <1>3. LocksAreOwned' /\ LocksAreFresh' /\ SnapshotsAreVersioned'
    BY <1>1 DEF IInv, LocksAreOwned, LocksAreFresh, SnapshotsAreVersioned, AccountsOf
  <1>4. \A q \in Request \ {r} : Held(q)' = Held(q) /\ Missing(q)' = Missing(q)
    BY <1>1 DEF Held, Missing, AccountsOf
  <1>5. LocksAreAscending'
    BY <1>4 DEF IInv, LocksAreAscending, InTransaction
  <1>6. CheckedIsComputed'
    BY <1>4 DEF IInv, CheckedIsComputed, InTransaction
  <1> QED
    BY <1>2, <1>3, <1>5, <1>6 DEF IInv, NoOverdraft

\* The snapshot is taken: it agrees with every row, and no row is locked yet.
LEMMA BeginStep ==
  ASSUME IInv, NEW r \in Request, BeginTransaction(r)
  PROVE  IInv'
  <1>1. /\ pc[r] = "begin" /\ UNCHANGED <<balance, version, owner, posting, next>>
        /\ pc' \in [Request -> Labels]
        /\ \A q \in Request \ {r} : pc'[q] = pc[q]
    BY DEF BeginTransaction, Go, Answer, IInv, Domains, Labels, tables
  <1>2. CASE UNCHANGED snap /\ pc'[r] \notin InTransaction
    BY <1>1, <1>2, OutsideStep DEF InTransaction, IInv, Domains
  <1>3. CASE /\ pc'[r] = "locking"
             /\ snap' = [snap EXCEPT ![r] = [balance |-> balance, version |-> version]]
    <2>1. \A a \in Account : owner[a] # r
      BY <1>1 DEF IInv, LocksAreOwned, InTransaction
    <2>2. /\ DOMAIN snap' = Request
          /\ \A q \in Request \ {r} : snap'[q] = snap[q]
          /\ snap'[r].balance = balance /\ snap'[r].version = version
      BY <1>3 DEF IInv, Domains
    <2>3. Domains'
      BY <1>1, <2>2 DEF IInv, Domains
    <2>4. LocksAreOwned'
      BY <1>1, <2>1 DEF IInv, LocksAreOwned, AccountsOf
    <2>5. LocksAreFresh'
      BY <1>1, <2>1, <2>2 DEF IInv, LocksAreFresh
    <2>6. SnapshotsAreVersioned'
      BY <1>1, <2>2 DEF IInv, SnapshotsAreVersioned, Domains
    <2>7. \A q \in Request : Held(q)' = Held(q) /\ Missing(q)' = Missing(q)
      BY <1>1 DEF Held, Missing, AccountsOf
    <2>8. LocksAreAscending'
      BY <1>1, <2>1, <2>7 DEF IInv, LocksAreAscending, Held
    <2>9. CheckedIsComputed'
      BY <1>1, <1>3, <2>2, <2>7 DEF IInv, CheckedIsComputed
    <2> QED
      BY <1>1, <2>3, <2>4, <2>5, <2>6, <2>8, <2>9 DEF IInv, NoOverdraft
  <1> QED
    BY <1>1, <1>2, <1>3 DEF BeginTransaction, Go, Answer, InTransaction, IInv, Domains
\* A row is locked: its version is that of the snapshot, so its balance is too,
\* and it is the smallest row still missing.
LEMMA LockStep ==
  ASSUME IInv, NEW r \in Request, LockRow(r)
  PROVE  IInv'
  <1>1. PICK a \in Account : /\ NextRow(r, a)
                             /\ owner[a] = NoRequest
                             /\ RowIsCurrent(r, a)
                             /\ owner' = [owner EXCEPT ![a] = r]
    BY DEF LockRow
  <1>2. /\ pc[r] = "locking"
        /\ UNCHANGED <<balance, version, pc, posting, snap, next>>
    BY DEF LockRow, tables, locals
  <1>3. /\ owner' \in [Account -> Request \cup {NoRequest}]
        /\ owner'[a] = r
        /\ \A b \in Account \ {a} : owner'[b] = owner[b]
    BY <1>1 DEF IInv, Domains
  <1>4. a \in AccountsOf(posting[r])
    BY <1>1 DEF NextRow, Missing
  <1>5. Domains'
    BY <1>2, <1>3 DEF IInv, Domains
  <1>6. LocksAreOwned'
    BY <1>2, <1>3, <1>4 DEF IInv, LocksAreOwned, AccountsOf, InTransaction
  <1>7. LocksAreFresh'
    BY <1>1, <1>2, <1>3
       DEF IInv, LocksAreFresh, SnapshotsAreVersioned, RowIsCurrent, InTransaction
  <1>8. SnapshotsAreVersioned'
    BY <1>2 DEF IInv, SnapshotsAreVersioned
  <1>9. /\ \A q \in Request \ {r} : Held(q)' = Held(q) /\ Missing(q)' = Missing(q)
        /\ Held(r)' = Held(r) \cup {a}
        /\ Missing(r)' = Missing(r) \ {a}
    <2>1. \A q \in Request \ {r} : Held(q)' = Held(q)
      BY <1>1, <1>3, RequestAssumption DEF Held
    <2>2. Held(r)' = Held(r) \cup {a}
      BY <1>3 DEF Held
    <2> QED
      BY <1>2, <2>1, <2>2 DEF Missing, AccountsOf
  <1>10. LocksAreAscending'
    <2> SUFFICES ASSUME NEW q \in Request, pc[q] = "locking",
                        NEW b \in Held(q)', NEW c \in Missing(q)', c \in Account
                 PROVE  b < c
      BY <1>2 DEF LocksAreAscending
    <2>1. CASE q # r
      BY <2>1, <1>9 DEF IInv, LocksAreAscending
    <2>2. CASE q = r /\ b \in Held(r)
      BY <2>2, <1>9 DEF IInv, LocksAreAscending
    <2>3. CASE q = r /\ b = a
      BY <2>3, <1>1, <1>9, AccountAssumption DEF NextRow
    <2> QED
      BY <2>1, <2>2, <2>3, <1>9
  <1>11. CheckedIsComputed'
    BY <1>2, <1>9 DEF IInv, CheckedIsComputed
  <1> QED
    BY <1>2, <1>5, <1>6, <1>7, <1>8, <1>10, <1>11 DEF IInv, NoOverdraft

\* The funds check: all rows are locked, and the new balances are computed from
\* the snapshot.
LEMMA CheckStep ==
  ASSUME IInv, NEW r \in Request, CheckFunds(r)
  PROVE  IInv'
  <1>1. /\ pc[r] = "locking" /\ Missing(r) = {}
        /\ UNCHANGED <<balance, version, posting, snap>>
        /\ pc' \in [Request -> Labels]
        /\ \A q \in Request \ {r} : pc'[q] = pc[q]
    BY DEF CheckFunds, RowsLocked, Go, Answer, IInv, Domains, Labels, tables
  <1>2. CASE ~FundsAvailable(After(r))
    <2>1. Rollback(r) /\ UNCHANGED next /\ pc'[r] \notin InTransaction
      BY <1>2 DEF CheckFunds, Answer, Go, InTransaction, IInv, Domains
    <2> QED
      BY <1>1, <2>1, RollbackStep
  <1>3. CASE FundsAvailable(After(r))
    <2>1. /\ next' = [next EXCEPT ![r] = After(r)]
          /\ pc'[r] = "checked" /\ UNCHANGED owner
      BY <1>3 DEF CheckFunds, Go, IInv, Domains
    <2>2. /\ DOMAIN next' = Request
          /\ \A q \in Request \ {r} : next'[q] = next[q]
          /\ next'[r] = After(r)
      BY <2>1 DEF IInv, Domains
    <2>3. /\ \A a \in AccountsOf(posting[r]) :
               After(r)[a] = snap[r].balance[a] + Effect(posting[r], a)
          /\ \A a \in AccountsOf(posting[r]) \cap Customer : After(r)[a] >= 0
      BY <1>3 DEF After, FundsAvailable
    <2>4. Domains'
      BY <1>1, <2>1, <2>2 DEF IInv, Domains
    <2>5. LocksAreOwned' /\ LocksAreFresh' /\ SnapshotsAreVersioned'
      BY <1>1, <2>1
         DEF IInv, LocksAreOwned, LocksAreFresh, SnapshotsAreVersioned, AccountsOf,
             InTransaction
    <2>6. \A q \in Request : Held(q)' = Held(q) /\ Missing(q)' = Missing(q)
      BY <1>1, <2>1 DEF Held, Missing, AccountsOf
    <2>7. LocksAreAscending'
      BY <1>1, <2>1, <2>6 DEF IInv, LocksAreAscending
    <2>8. CheckedIsComputed'
      BY <1>1, <2>1, <2>2, <2>3, <2>6 DEF IInv, CheckedIsComputed
    <2> QED
      BY <1>1, <2>4, <2>5, <2>7, <2>8 DEF IInv, NoOverdraft
  <1> QED
    BY <1>2, <1>3

\* What a commit writes: every row of the posting is held, so each balance moves
\* by exactly the effect of the posting and no customer falls below zero.
LEMMA CommitWrites ==
  ASSUME IInv, NEW r \in Request, pc[r] = "checked",
         NEW a \in AccountsOf(posting[r])
  PROVE  /\ a \in Account /\ owner[a] = r
         /\ next[r][a] = balance[a] + Effect(posting[r], a)
         /\ a \in Customer => next[r][a] >= 0
  <1>1. a \in Held(r)
    BY DEF IInv, CheckedIsComputed, Missing
  <1>2. a \in Account /\ owner[a] = r
    BY <1>1 DEF Held
  <1>3. snap[r].balance[a] = balance[a]
    BY <1>2 DEF IInv, LocksAreFresh
  <1> QED
    BY <1>2, <1>3 DEF IInv, CheckedIsComputed
\* The commit: rows that other transactions hold are not touched, and snapshots
\* that saw an overwritten row are older than it from now on.
LEMMA CommitStep ==
  ASSUME IInv, NEW r \in Request, Commit(r)
  PROVE  IInv'
  <1> DEFINE P == AccountsOf(posting[r])
  <1>1. /\ pc[r] = "checked" /\ Rollback(r)
        /\ UNCHANGED <<posting, snap, next>>
        /\ pc' \in [Request -> Labels] /\ pc'[r] = "done"
        /\ \A q \in Request \ {r} : pc'[q] = pc[q]
    BY DEF Commit, Answer, Go, IInv, Domains, Labels, locals
  <1>2. CASE UNCHANGED <<balance, version>>
    BY <1>1, <1>2, RollbackStep DEF InTransaction
  <1>3. CASE /\ balance' = [a \in Account |-> IF a \in P THEN next[r][a] ELSE balance[a]]
             /\ version' = [a \in Account |-> IF a \in P THEN version[a] + 1 ELSE version[a]]
    <2>1. \A a \in P : owner[a] = r /\ (a \in Customer => next[r][a] >= 0)
      BY <1>1, CommitWrites
    <2>2. /\ owner' \in [Account -> Request \cup {NoRequest}]
          /\ \A a \in Account : owner'[a] # r
          /\ \A a \in Account, q \in Request \ {r} : owner'[a] = q <=> owner[a] = q
      BY <1>1, RequestAssumption DEF Rollback, IInv, Domains
    <2>3. \A a \in Account : version[a] \in Nat
      BY DEF IInv, Domains
    <2>4. Domains'
      BY <1>1, <1>3, <2>2, <2>3 DEF IInv, Domains
    <2>5. LocksAreOwned'
      BY <1>1, <2>2 DEF IInv, LocksAreOwned, AccountsOf
    <2>6. LocksAreFresh'
      <3> SUFFICES ASSUME NEW q \in Request, NEW a \in Account, owner'[a] = q
                   PROVE  snap[q].version[a] = version'[a] /\ snap[q].balance[a] = balance'[a]
        BY <1>1 DEF LocksAreFresh
      <3>1. q # r /\ owner[a] = q
        BY <2>2
      <3>2. a \notin P
        BY <2>1, <3>1
      <3> QED
        BY <1>3, <3>1, <3>2 DEF IInv, LocksAreFresh
    <2>7. SnapshotsAreVersioned'
      <3> SUFFICES ASSUME NEW q \in Request, pc'[q] \in InTransaction, NEW a \in Account
                   PROVE  /\ snap[q].version[a] \in Nat
                          /\ snap[q].version[a] <= version'[a]
                          /\ snap[q].version[a] = version'[a] =>
                               snap[q].balance[a] = balance'[a]
        BY <1>1 DEF SnapshotsAreVersioned
      <3>1. pc[q] \in InTransaction
        BY <1>1 DEF InTransaction
      <3>2. /\ snap[q].version[a] \in Nat
            /\ snap[q].version[a] <= version[a]
            /\ snap[q].version[a] = version[a] => snap[q].balance[a] = balance[a]
        BY <3>1 DEF IInv, SnapshotsAreVersioned
      <3>3. CASE a \in P
        <4>1. version'[a] = version[a] + 1
          BY <1>3, <3>3
        <4> QED
          BY <3>2, <4>1, <2>3
      <3>4. CASE a \notin P
        <4>1. version'[a] = version[a] /\ balance'[a] = balance[a]
          BY <1>3, <3>4
        <4> QED
          BY <3>2, <4>1
      <3> QED
        BY <3>3, <3>4
    <2>8. \A q \in Request \ {r} : Held(q)' = Held(q) /\ Missing(q)' = Missing(q)
      BY <1>1, <2>2 DEF Held, Missing, AccountsOf
    <2>9. LocksAreAscending'
      BY <1>1, <2>8 DEF IInv, LocksAreAscending
    <2>10. CheckedIsComputed'
      BY <1>1, <2>8 DEF IInv, CheckedIsComputed
    <2>11. NoOverdraft'
      BY <1>3, <2>1, AccountAssumption DEF IInv, NoOverdraft
    <2> QED
      BY <2>4, <2>5, <2>6, <2>7, <2>9, <2>10, <2>11 DEF IInv
  <1> QED
    BY <1>2, <1>3 DEF Commit

\* Every step preserves the invariant.
LEMMA NextInv ==
  ASSUME IInv, [Next]_vars
  PROVE  IInv'
  <1>1. CASE UNCHANGED vars
    BY <1>1 DEF vars, IInv, Domains, LocksAreOwned, LocksAreFresh, SnapshotsAreVersioned,
                LocksAreAscending, CheckedIsComputed, NoOverdraft, Held, Missing, AccountsOf
  <1>2. ASSUME NEW r \in Request, NEW c \in Command,
               ReceivePost(r, c) \/ ReceiveFunding(r, c) \/ ReceiveReversal(r, c)
        PROVE  IInv'
    <2>1. /\ pc[r] \notin InTransaction /\ pc'[r] \notin InTransaction
          /\ pc' \in [Request -> Labels] /\ DOMAIN posting' = Request
          /\ \A q \in Request \ {r} : pc'[q] = pc[q] /\ posting'[q] = posting[q]
          /\ UNCHANGED <<balance, version, owner, snap, next>>
      BY <1>2 DEF ReceivePost, ReceiveFunding, ReceiveReversal, Answer, Go, IInv, Domains,
                  Labels, InTransaction, tables
    <2> QED
      BY <2>1, OutsideStep
  <1>3. ASSUME NEW r \in Request,
               \/ FindIdempotent(r) \/ Resolve(r) \/ CreateClearing(r)
               \/ ClearingReady(r) \/ HandlePostingFailure(r)
        PROVE  IInv'
    <2>1. /\ pc[r] \notin InTransaction /\ pc'[r] \notin InTransaction
          /\ pc' \in [Request -> Labels] /\ DOMAIN posting' = Request
          /\ \A q \in Request \ {r} : pc'[q] = pc[q] /\ posting'[q] = posting[q]
          /\ UNCHANGED <<balance, version, owner, snap, next>>
      BY <1>3 DEF FindIdempotent, Resolve, CreateClearing, ClearingReady,
                  HandlePostingFailure, Replay, EnterPostResolved, Answer, Go, IInv,
                  Domains, Labels, InTransaction, tables, locals
    <2> QED
      BY <2>1, OutsideStep
  <1>4. ASSUME NEW r \in Request,
               RowChanged(r) \/ SerializationFailure(r) \/ InsertConflict(r) \/ Crash(r)
        PROVE  IInv'
    <2>1. /\ Rollback(r) /\ pc'[r] \notin InTransaction /\ pc' \in [Request -> Labels]
          /\ \A q \in Request \ {r} : pc'[q] = pc[q]
          /\ UNCHANGED <<balance, version, posting, snap, next>>
      BY <1>4 DEF RowChanged, SerializationFailure, InsertConflict, Crash, RetryOrThrow,
                  Answer, Go, IInv, Domains, Labels, InTransaction, tables, locals
    <2> QED
      BY <2>1, RollbackStep
  <1>5. ASSUME NEW a \in Customer, Provision(a)
        PROVE  IInv'
    BY <1>5 DEF Provision, IInv, Domains, LocksAreOwned, LocksAreFresh, locals,
                SnapshotsAreVersioned, LocksAreAscending, CheckedIsComputed, NoOverdraft,
                Held, Missing, AccountsOf
  <1> QED
    BY <1>1, <1>2, <1>3, <1>4, <1>5, BeginStep, LockStep, CheckStep, CommitStep
       DEF Next, Receive, Step, Finished

-----------------------------------------------------------------------------
\* The invariant holds in every behaviour.
THEOREM Inductive == Spec => []IInv
  BY InitInv, NextInv, PTL DEF Spec

\* Type correctness: no attempt beyond the bound of the retry loop, and no row
\* lock outlives its transaction.
THEOREM TypeCorrect == Spec => []TypeOK
  <1> DEFINE Counters == accounts \subseteq Account /\ attempt \in [Request -> 1..MaxAttempts]
  <1>1. Init => Counters
    BY AttemptsAssumption DEF Init
  <1>2. ASSUME Counters, [Next]_vars PROVE Counters'
    <2>1. ASSUME NEW r \in Request, RetryOrThrow(r) PROVE Counters'
      BY <1>2, <2>1, AttemptsAssumption DEF RetryOrThrow, tables
    <2>2. ASSUME NEW r \in Request, CreateClearing(r) PROVE Counters'
      BY <1>2, <2>2 DEF CreateClearing, locals
    <2>3. ASSUME NEW a \in Customer, Provision(a) PROVE Counters'
      BY <1>2, <2>3, AccountAssumption DEF Provision, locals
    <2>4. CASE UNCHANGED <<accounts, attempt>>
      BY <1>2, <2>4
    <2> QED
      BY <1>2, <2>1, <2>2, <2>3, <2>4
         DEF Next, Receive, Step, Finished, ReceivePost, ReceiveFunding, ReceiveReversal,
             FindIdempotent, Resolve, ClearingReady, BeginTransaction, LockRow, RowChanged,
             SerializationFailure, CheckFunds, Commit, InsertConflict, HandlePostingFailure,
             Crash, tables, locals, vars
  <1>3. IInv /\ Counters => TypeOK
    BY DEF IInv, Domains, LocksAreOwned, InTransaction, TypeOK, Held
  <1> QED
    BY <1>1, <1>2, <1>3, Inductive, PTL DEF Spec

\* However many debits race, no customer balance is ever negative.
THEOREM NoOverdraftTheorem == Spec => []NoOverdraft
  <1>1. IInv => NoOverdraft
    BY DEF IInv
  <1> QED
    BY <1>1, Inductive, PTL

\* The rows a transaction has locked stay what its snapshot saw: no update of a
\* balance is lost.
THEOREM NoLostUpdate == Spec => []LockedRowsAreCurrent
  <1>1. IInv => LockedRowsAreCurrent
    BY DEF IInv, LocksAreFresh, LockedRowsAreCurrent, Held
  <1> QED
    BY <1>1, Inductive, PTL

\* Two transactions never wait for each other's rows.
THEOREM NoMutualWaitTheorem == Spec => []NoMutualWait
  <1>1. ASSUME IInv PROVE NoMutualWait
    <2> SUFFICES ASSUME NEW r \in Request, NEW q \in Request, WaitsFor(r, q), WaitsFor(q, r)
                 PROVE  FALSE
      BY DEF NoMutualWait
    <2>1. PICK a \in Account : NextRow(r, a) /\ owner[a] = q
      BY DEF WaitsFor
    <2>2. PICK b \in Account : NextRow(q, b) /\ owner[b] = r
      BY DEF WaitsFor
    <2>3. b < a
      BY <1>1, <2>1, <2>2 DEF IInv, LocksAreAscending, WaitsFor, NextRow, Held
    <2>4. a < b
      BY <1>1, <2>1, <2>2 DEF IInv, LocksAreAscending, WaitsFor, NextRow, Held
    <2> QED
      BY <2>3, <2>4, AccountAssumption
  <1> QED
    BY <1>1, Inductive, PTL

\* What a step does to the money: nothing, or one commit's posting.
LEMMA MovesStep ==
  ASSUME IInv, [Next]_vars
  PROVE  \/ UNCHANGED <<journal, balance>>
         \/ \E r \in Request :
              /\ journal' = Append(journal, posting[r])
              /\ \A a \in Account : balance'[a] =
                   IF a \in AccountsOf(posting[r])
                   THEN balance[a] + Effect(posting[r], a) ELSE balance[a]
  <1> DEFINE Moves == \/ UNCHANGED <<journal, balance>>
                      \/ \E r \in Request :
                           /\ journal' = Append(journal, posting[r])
                           /\ \A a \in Account : balance'[a] =
                                IF a \in AccountsOf(posting[r])
                                THEN balance[a] + Effect(posting[r], a) ELSE balance[a]
  <1>1. ASSUME NEW r \in Request, Commit(r)
        PROVE  Moves
    <2>1. CASE UNCHANGED <<journal, balance>>
      BY <2>1
    <2>2. CASE /\ journal' = Append(journal, posting[r])
               /\ balance' = [a \in Account |-> IF a \in AccountsOf(posting[r])
                                                THEN next[r][a] ELSE balance[a]]
      <3>1. \A a \in AccountsOf(posting[r]) :
              next[r][a] = balance[a] + Effect(posting[r], a)
        BY <1>1, CommitWrites DEF Commit
      <3> QED
        BY <2>2, <3>1
    <2> QED
      BY <1>1, <2>1, <2>2 DEF Commit
  <1>2. ASSUME \A r \in Request : ~Commit(r)
        PROVE  UNCHANGED <<journal, balance>>
    BY <1>2 DEF Next, Receive, Step, Finished, ReceivePost, ReceiveFunding,
                ReceiveReversal, FindIdempotent, Resolve, CreateClearing, ClearingReady,
                BeginTransaction, LockRow, RowChanged, SerializationFailure, RetryOrThrow,
                CheckFunds, InsertConflict, HandlePostingFailure, Crash, Provision, tables,
                vars
  <1> QED
    BY <1>1, <1>2

\* Balances move only with the journal, by exactly the effect of the posting that
\* is appended: the step that makes the balance projection the sum of the journal.
THEOREM PostingMovesBalancesTheorem == Spec => PostingMovesBalances
  <1> DEFINE Moves == \/ UNCHANGED <<journal, balance>>
                      \/ \E r \in Request :
                           /\ journal' = Append(journal, posting[r])
                           /\ \A a \in Account : balance'[a] =
                                IF a \in AccountsOf(posting[r])
                                THEN balance[a] + Effect(posting[r], a) ELSE balance[a]
  <1>1. IInv /\ [Next]_vars => [Moves]_vars
    BY MovesStep
  <1> QED
    BY <1>1, Inductive, PTL DEF Spec, PostingMovesBalances

-----------------------------------------------------------------------------
(***************************************************************************)
(* The journal.  A request looks its reference up, resolves its posting    *)
(* and, for a reversal, reads the original, long before it commits.  What  *)
(* JInv keeps of that: the posting still carries the reference and the     *)
(* hash of the command, and still mirrors an original that the journal     *)
(* holds; that nobody else was first is up to the unique indexes.          *)
(***************************************************************************)
IsEntry(e) == /\ {"account", "direction", "amount", "currency"} \subseteq DOMAIN e
              /\ e.direction \in {"DEBIT", "CREDIT"} /\ e.amount \in Nat

IsPosting(p) == /\ {"kind", "ref", "hash", "reverses", "entries"} \subseteq DOMAIN p
                /\ \A i \in DOMAIN p.entries : IsEntry(p.entries[i])
                /\ IsFiniteSet(DOMAIN p.entries)

\* The same entries with the sides swapped.
Mirrors(p, original) ==
  /\ DOMAIN p.entries = DOMAIN original.entries
  /\ \A i \in DOMAIN p.entries : p.entries[i] = Swapped(original.entries[i])

\* A reversal mirrors a posting among those with an index in S; others reverse
\* nothing.
ReversesIn(p, S) ==
  IF p.kind = "REVERSAL"
  THEN p.reverses \in S /\ journal[p.reverses].kind # "REVERSAL" /\ Mirrors(p, journal[p.reverses])
  ELSE p.reverses = 0

JournalOK ==
  /\ journal \in Seq(Range(journal))
  /\ \A i \in DOMAIN journal : IsPosting(journal[i]) /\ ReversesIn(journal[i], 1..(i - 1))
                               /\ DatabaseAccepts(journal[i])
  /\ \A i, j \in DOMAIN journal : journal[i].ref = journal[j].ref => i = j
  /\ \A i, j \in DOMAIN journal :
       journal[i].reverses = journal[j].reverses /\ journal[i].reverses # 0 => i = j

\* The requests whose posting is resolved: a post resolves it after its lookup,
\* the other two before.
Resolved(r) ==
  \/ pc[r] \in {"clearing", "begin", "locking", "checked", "conflict"}
  \/ pc[r] \in {"lookup", "lookupReversed"} /\ cmd[r].kind \in {"FUNDING", "REVERSAL"}

RequestOK(r) ==
  /\ pc[r] \notin {"idle", "done"} => cmd[r] \in Command
  /\ pc[r] = "resolve" => cmd[r].kind \notin {"FUNDING", "REVERSAL"}
  /\ Resolved(r) =>
       /\ IsPosting(posting[r]) /\ ReversesIn(posting[r], DOMAIN journal)
       /\ posting[r].ref = cmd[r].ref /\ posting[r].hash = CommandHash(cmd[r])
  /\ pc[r] # "done" => reply[r] = NoReply
  /\ reply[r].code = "POSTED" =>
       reply[r].id \in DOMAIN journal /\ journal[reply[r].id].hash = CommandHash(cmd[r])

JInv ==
  /\ pc \in [Request -> Labels]
  /\ DOMAIN cmd = Request /\ DOMAIN posting = Request /\ DOMAIN reply = Request
  /\ JournalOK
  /\ \A r \in Request : RequestOK(r)

\* The journal invariant holds before the first request.
LEMMA JournalInit == Init => JInv
  <1> SUFFICES ASSUME Init PROVE JInv
    OBVIOUS
  <1>1. DOMAIN journal = {} /\ journal \in Seq(Range(journal))
    BY DEF Init, Range
  <1>2. JournalOK
    BY <1>1 DEF JournalOK
  <1>3. \A r \in Request : RequestOK(r)
    BY DEF Init, RequestOK, Resolved, NoReply
  <1> QED
    BY <1>2, <1>3 DEF Init, JInv, Labels

\* What posts resolve to reverses nothing and carries reference and hash.
LEMMA ResolvedPost ==
  ASSUME NEW c \in Command, c.kind \notin {"FUNDING", "REVERSAL"}
  PROVE  /\ IsPosting(ResolvePost(c)) /\ ReversesIn(ResolvePost(c), DOMAIN journal)
         /\ ResolvePost(c).ref = c.ref /\ ResolvePost(c).hash = CommandHash(c)
  <1>1. /\ c.entries \in Seq(Range(c.entries))
        /\ \A e \in Range(c.entries) : IsEntry(e)
        /\ c.kind # "REVERSAL"
    BY CommandAssumption DEF ValidCommand, IsEntry
  <1>2. PICK S : ClearingEntries(c) \in Seq(S) /\ \A e \in S : IsEntry(e)
    <2>1. CASE c.kind = "FX_TRANSFER"
      <3> DEFINE a == Entry(ClearingAccount(c.src), "CREDIT", c.srcAmount, c.src)
                 b == Entry(ClearingAccount(c.tgt), "DEBIT", c.tgtAmount, c.tgt)
      <3>0. c.srcAmount \in Nat /\ c.tgtAmount \in Nat
        BY CommandAssumption DEF ValidCommand
      <3>1. IsEntry(a) /\ IsEntry(b)
        BY <3>0 DEF Entry, IsEntry
      <3>2. ClearingEntries(c) = <<a, b>>
        BY <2>1 DEF ClearingEntries
      <3> HIDE DEF a, b
      <3>3. ClearingEntries(c) \in Seq({a, b}) /\ \A e \in {a, b} : IsEntry(e)
        BY <3>1, <3>2
      <3> WITNESS {a, b}
      <3> QED
        BY <3>3
    <2>2. CASE c.kind # "FX_TRANSFER"
      <3>1. ClearingEntries(c) \in Seq({})
        BY <2>2 DEF ClearingEntries
      <3> QED
        BY <3>1
    <2> QED
      BY <2>1, <2>2
  <1> DEFINE es == c.entries \o ClearingEntries(c)
             T == Range(c.entries) \cup S
  <1>3. es \in Seq(T)
    BY <1>1, <1>2
  <1>4. \A i \in DOMAIN es : IsEntry(es[i])
    BY <1>1, <1>2, <1>3
  <1>5. ResolvePost(c).entries = es
    BY DEF ResolvePost
  <1>6. IsFiniteSet(DOMAIN es)
    <2>1. DOMAIN es = 1..Len(es) /\ Len(es) \in Nat
      BY <1>3
    <2> HIDE DEF es
    <2> QED
      BY <2>1, FS_Interval
  <1> HIDE DEF es
  <1> QED
    BY <1>1, <1>4, <1>5, <1>6 DEF ResolvePost, IsPosting, ReversesIn

\* So does what a funding fixture resolves to.
LEMMA ResolvedFunding ==
  ASSUME NEW c \in Command, c.kind = "FUNDING"
  PROVE  /\ IsPosting(ResolveFunding(c)) /\ ReversesIn(ResolveFunding(c), DOMAIN journal)
         /\ ResolveFunding(c).ref = c.ref /\ ResolveFunding(c).hash = CommandHash(c)
  <1> DEFINE a == Entry(ClearingAccount(c.currency), "DEBIT", c.amount, c.currency)
             b == Entry(c.account, "CREDIT", c.amount, c.currency)
  <1>0. c.amount \in Nat
    BY CommandAssumption DEF ValidCommand
  <1>1. IsEntry(a) /\ IsEntry(b)
    BY <1>0 DEF Entry, IsEntry
  <1>2. ResolveFunding(c).entries = <<a, b>>
    BY DEF ResolveFunding
  <1> HIDE DEF a, b
  <1>3. IsFiniteSet(DOMAIN <<a, b>>)
    <2>1. DOMAIN <<a, b>> = 1..2
      OBVIOUS
    <2>2. PICK m \in Int, n \in Int : m = 1 /\ n = 2
      OBVIOUS
    <2>3. IsFiniteSet(m..n)
      BY FS_Interval
    <2> QED
      BY <2>1, <2>2, <2>3
  <1> QED
    BY <1>1, <1>2, <1>3 DEF ResolveFunding, IsPosting, ReversesIn

\* What a reversal resolves to mirrors the original.
LEMMA ResolvedReversal ==
  ASSUME JInv, NEW c \in Command, c.original \in DOMAIN journal,
         journal[c.original].kind # "REVERSAL"
  PROVE  /\ IsPosting(ResolveReversal(c)) /\ ReversesIn(ResolveReversal(c), DOMAIN journal)
         /\ ResolveReversal(c).ref = c.ref /\ ResolveReversal(c).hash = CommandHash(c)
  <1> DEFINE o == journal[c.original]
             p == ResolveReversal(c)
  <1>1. IsPosting(o)
    BY DEF JInv, JournalOK
  <1>2. /\ DOMAIN p = DOMAIN o /\ p.kind = "REVERSAL" /\ p.ref = c.ref
        /\ p.hash = CommandHash(c) /\ p.reverses = c.original
    BY <1>1 DEF IsPosting, ResolveReversal
  <1>3. p.entries = [i \in DOMAIN o.entries |-> Swapped(o.entries[i])]
    BY <1>1 DEF IsPosting, ResolveReversal
  <1>4. Mirrors(p, o)
    BY <1>3 DEF Mirrors
  <1>5. \A i \in DOMAIN p.entries : IsEntry(p.entries[i])
    BY <1>1, <1>3 DEF IsPosting, IsEntry, Swapped, OtherSide
  <1>6. IsFiniteSet(DOMAIN p.entries)
    BY <1>1, <1>3 DEF IsPosting
  <1> QED
    BY <1>1, <1>2, <1>4, <1>5, <1>6 DEF IsPosting, ReversesIn

\* No request but r moves.
OnlyMoves(r) ==
  /\ pc' \in [Request -> Labels]
  /\ DOMAIN cmd' = Request /\ DOMAIN posting' = Request /\ DOMAIN reply' = Request
  /\ \A q \in Request \ {r} : /\ pc'[q] = pc[q] /\ cmd'[q] = cmd[q]
                              /\ posting'[q] = posting[q] /\ reply'[q] = reply[q]

\* A step of r that leaves the journal alone.
LEMMA RequestStep ==
  ASSUME JInv, UNCHANGED journal, NEW r \in Request, OnlyMoves(r), RequestOK(r)'
  PROVE  JInv'
  <1>1. JournalOK'
    BY DEF JInv, JournalOK, ReversesIn, Mirrors
  <1>2. \A q \in Request \ {r} : RequestOK(q)'
    BY DEF JInv, RequestOK, Resolved, ReversesIn, Mirrors, OnlyMoves
  <1> QED
    BY <1>1, <1>2 DEF JInv, OnlyMoves

\* A request that is answered; with an index only if the posting there is for the
\* command it was sent.
LEMMA AnswerStep ==
  ASSUME JInv, UNCHANGED journal, NEW r \in Request, NEW code, NEW id, Answer(r, code, id),
         DOMAIN cmd' = Request /\ DOMAIN posting' = Request,
         \A q \in Request \ {r} : cmd'[q] = cmd[q] /\ posting'[q] = posting[q],
         code = "POSTED" => id \in DOMAIN journal /\ journal[id].hash = CommandHash(cmd'[r])
  PROVE  JInv'
  <1>1. /\ OnlyMoves(r) /\ pc'[r] = "done"
        /\ reply'[r] = [code |-> code, id |-> id]
    BY DEF JInv, Answer, Go, OnlyMoves, Labels
  <1>2. RequestOK(r)'
    BY <1>1 DEF RequestOK, Resolved
  <1> QED
    BY <1>1, <1>2, RequestStep

\* A request that goes on with the command and posting it has.
LEMMA GoStep ==
  ASSUME JInv, UNCHANGED <<journal, cmd, posting, reply>>, NEW r \in Request,
         NEW label \in Labels \ {"idle", "done"}, Go(r, label), pc[r] \notin {"idle", "done"},
         label = "resolve" => cmd[r].kind \notin {"FUNDING", "REVERSAL"},
         label \in {"lookup", "lookupReversed", "resolve"} \/ Resolved(r),
         label \in {"lookup", "lookupReversed"} => Resolved(r)
  PROVE  JInv'
  <1>1. OnlyMoves(r) /\ pc'[r] = label
    BY DEF JInv, Go, OnlyMoves
  <1>2. RequestOK(r)
    BY DEF JInv
  <1>3. RequestOK(r)'
    BY <1>1, <1>2 DEF RequestOK, Resolved, ReversesIn, Mirrors, Labels
  <1> QED
    BY <1>1, <1>3, RequestStep

\* The first step of a request, and the step of a post that resolves it.
LEMMA ResolveStep ==
  ASSUME JInv, UNCHANGED <<journal, reply>>, NEW r \in Request, NEW c \in Command,
         NEW label \in Labels \ {"idle", "done", "resolve"}, Go(r, label), pc[r] # "done",
         DOMAIN cmd' = Request /\ cmd'[r] = c,
         DOMAIN posting' = Request,
         \A q \in Request \ {r} : cmd'[q] = cmd[q] /\ posting'[q] = posting[q],
         Resolved(r)' =>
           /\ IsPosting(posting'[r]) /\ ReversesIn(posting'[r], DOMAIN journal)
           /\ posting'[r].ref = c.ref /\ posting'[r].hash = CommandHash(c)
  PROVE  JInv'
  <1>1. OnlyMoves(r) /\ pc'[r] = label
    BY DEF JInv, Go, OnlyMoves
  <1>2. reply'[r] = NoReply
    BY DEF JInv, RequestOK
  <1>3. RequestOK(r)'
    BY <1>1, <1>2 DEF RequestOK, ReversesIn, Mirrors, NoReply
  <1> QED
    BY <1>1, <1>3, RequestStep

\* The answer of findIdempotent is the posting of that very command.
LEMMA ReplayStep ==
  ASSUME JInv, UNCHANGED <<journal, cmd, posting>>, NEW r \in Request,
         NEW i \in DOMAIN journal, Replay(r, i)
  PROVE  JInv'
  <1>1. CASE journal[i].hash = CommandHash(cmd[r]) /\ Answer(r, "POSTED", i)
    BY <1>1, AnswerStep DEF JInv
  <1>2. CASE Answer(r, "IDEMPOTENCY_KEY_REUSED", 0)
    BY <1>2, AnswerStep DEF JInv
  <1> QED
    BY <1>1, <1>2 DEF Replay

\* Receiving a request.
LEMMA ReceiveJournal ==
  ASSUME JInv, NEW r \in Request, NEW c \in Command,
         ReceivePost(r, c) \/ ReceiveFunding(r, c) \/ ReceiveReversal(r, c)
  PROVE  JInv'
  <1>1. /\ pc[r] = "idle" /\ UNCHANGED journal
        /\ DOMAIN cmd' = Request /\ cmd'[r] = c
        /\ \A q \in Request \ {r} : cmd'[q] = cmd[q]
    BY DEF ReceivePost, ReceiveFunding, ReceiveReversal, JInv, tables
  <1>2. CASE \E code : code # "POSTED" /\ Answer(r, code, 0) /\ UNCHANGED posting
    BY <1>1, <1>2, AnswerStep DEF JInv
  <1>3. CASE /\ c.kind \notin {"FUNDING", "REVERSAL"} /\ Go(r, "lookup")
             /\ UNCHANGED <<reply, posting>>
    <2>1. pc'[r] = "lookup"
      BY <1>3 DEF Go, JInv
    <2>2. ~Resolved(r)'
      BY <1>1, <1>3, <2>1 DEF Resolved
    <2> QED
      BY <1>1, <1>3, <2>2, ResolveStep DEF JInv, Labels
  <1>4. CASE /\ c.kind = "FUNDING" /\ posting' = [posting EXCEPT ![r] = ResolveFunding(c)]
             /\ Go(r, "clearing") /\ UNCHANGED reply
    <2>1. /\ DOMAIN posting' = Request /\ posting'[r] = ResolveFunding(c)
          /\ \A q \in Request \ {r} : posting'[q] = posting[q]
      BY <1>4 DEF JInv
    <2> QED
      BY <1>1, <1>4, <2>1, ResolvedFunding, ResolveStep DEF Labels
  <1>5. CASE /\ c.original \in DOMAIN journal /\ journal[c.original].kind # "REVERSAL"
             /\ posting' = [posting EXCEPT ![r] = ResolveReversal(c)]
             /\ Go(r, IF c.original \in Reversed THEN "lookupReversed" ELSE "lookup")
             /\ UNCHANGED reply
    <2>1. /\ DOMAIN posting' = Request /\ posting'[r] = ResolveReversal(c)
          /\ \A q \in Request \ {r} : posting'[q] = posting[q]
      BY <1>5 DEF JInv
    <2>2. PICK label \in {"lookupReversed", "lookup"} : Go(r, label)
      BY <1>5
    <2> QED
      BY <1>1, <1>5, <2>1, <2>2, ResolvedReversal, ResolveStep DEF Labels
  <1>6. CASE ReceivePost(r, c)
    BY <1>2, <1>3, <1>6 DEF ReceivePost
  <1>7. CASE ReceiveFunding(r, c)
    BY <1>2, <1>4, <1>7 DEF ReceiveFunding
  <1>8. CASE ReceiveReversal(r, c)
    BY <1>2, <1>5, <1>8 DEF ReceiveReversal
  <1> QED
    BY <1>6, <1>7, <1>8

\* Entering postResolved with a posting that is resolved.
LEMMA EnterJournal ==
  ASSUME JInv, NEW r \in Request, NEW p, EnterPostResolved(r, p), Resolved(r),
         pc[r] \notin {"idle", "done"}, UNCHANGED <<journal, cmd, posting>>
  PROVE  JInv'
  <1>1. CASE Go(r, "begin") /\ UNCHANGED reply
    BY <1>1, GoStep DEF Labels
  <1>2. CASE Answer(r, "INVALID_POSTING", 0)
    BY <1>2, AnswerStep DEF JInv
  <1> QED
    BY <1>1, <1>2 DEF EnterPostResolved

\* The lookup by reference.
LEMMA FindJournal ==
  ASSUME JInv, NEW r \in Request, FindIdempotent(r)
  PROVE  JInv'
  <1>1. pc[r] \in {"lookup", "lookupReversed"} /\ UNCHANGED <<journal, cmd, posting>>
    BY DEF FindIdempotent, tables, locals
  <1>2. CASE \E i \in DOMAIN journal : Replay(r, i)
    BY <1>1, <1>2, ReplayStep
  <1>3. CASE cmd[r].kind \notin {"FUNDING", "REVERSAL"} /\ Go(r, "resolve") /\ UNCHANGED reply
    BY <1>1, <1>3, GoStep DEF Labels
  <1>4. CASE Answer(r, "POSTING_ALREADY_REVERSED", 0)
    BY <1>1, <1>4, AnswerStep DEF JInv
  <1>5. CASE cmd[r].kind \in {"FUNDING", "REVERSAL"} /\ EnterPostResolved(r, posting[r])
    BY <1>1, <1>5, EnterJournal DEF Resolved
  <1> QED
    BY <1>2, <1>3, <1>4, <1>5 DEF FindIdempotent

\* A post resolves its posting.
LEMMA ResolveJournal ==
  ASSUME JInv, NEW r \in Request, Resolve(r)
  PROVE  JInv'
  <1>1. PICK c \in Command : c = cmd[r]
    BY DEF JInv, RequestOK, Resolve
  <1>2. c.kind \notin {"FUNDING", "REVERSAL"} /\ pc[r] = "resolve" /\ UNCHANGED <<journal, cmd>>
    BY <1>1 DEF JInv, RequestOK, Resolve, tables
  <1>3. CASE \E code : code # "POSTED" /\ Answer(r, code, 0) /\ UNCHANGED posting
    BY <1>2, <1>3, AnswerStep DEF JInv
  <1>4. CASE posting' = [posting EXCEPT ![r] = ResolvePost(c)]
    <2>1. /\ DOMAIN posting' = Request /\ posting'[r] = ResolvePost(c)
          /\ \A q \in Request \ {r} : posting'[q] = posting[q]
      BY <1>4 DEF JInv
    <2>2. CASE \E label \in {"clearing", "begin"} : Go(r, label) /\ UNCHANGED reply
      BY <1>1, <1>2, <2>1, <2>2, ResolvedPost, ResolveStep DEF Labels, JInv
    <2>3. CASE Answer(r, "INVALID_POSTING", 0)
      BY <1>2, <2>1, <2>3, AnswerStep DEF JInv
    <2> QED
      BY <1>1, <1>4, <2>2, <2>3, <1>3 DEF Resolve, EnterPostResolved
  <1> QED
    BY <1>1, <1>3, <1>4 DEF Resolve

\* The commit appends a posting whose reference, and whose original, no other
\* posting has.
LEMMA CommitJournal ==
  ASSUME JInv, NEW r \in Request, Commit(r)
  PROVE  JInv'
  <1>1. /\ pc[r] = "checked" /\ ~UniqueViolation(posting[r])
        /\ UNCHANGED <<cmd, posting>>
    BY DEF Commit, locals
  <1>2. CASE UNCHANGED journal /\ Answer(r, "INTERNAL_SERVER_ERROR", 0)
    BY <1>1, <1>2, AnswerStep DEF JInv
  <1>3. CASE /\ DatabaseAccepts(posting[r]) /\ journal' = Append(journal, posting[r])
             /\ Answer(r, "POSTED", Len(journal) + 1)
    <2> DEFINE n == Len(journal)
    <2>1. /\ n \in Nat /\ DOMAIN journal = 1..n
          /\ DOMAIN journal' = 1..(n + 1)
          /\ journal'[n + 1] = posting[r]
          /\ \A i \in DOMAIN journal : journal'[i] = journal[i]
          /\ journal' \in Seq(Range(journal'))
      BY <1>3, AppendFacts DEF JInv, JournalOK
    <2> HIDE DEF n
    <2>2. /\ IsPosting(posting[r]) /\ ReversesIn(posting[r], DOMAIN journal)
          /\ posting[r].ref = cmd[r].ref /\ posting[r].hash = CommandHash(cmd[r])
      BY <1>1 DEF JInv, RequestOK, Resolved
    <2>3. \A i \in DOMAIN journal :
            /\ posting[r].ref # journal[i].ref
            /\ posting[r].reverses # 0 => posting[r].reverses # journal[i].reverses
      BY <1>1 DEF UniqueViolation, References, Reversed
    <2>4. /\ OnlyMoves(r) /\ pc'[r] = "done"
          /\ reply'[r].code = "POSTED" /\ reply'[r].id = n + 1
      BY <1>1, <1>3 DEF JInv, Answer, Go, OnlyMoves, Labels, n
    <2>5. \A p, S : S \subseteq DOMAIN journal /\ ReversesIn(p, S) =>
            IF p.kind = "REVERSAL"
            THEN /\ p.reverses \in S /\ journal'[p.reverses].kind # "REVERSAL"
                 /\ Mirrors(p, journal'[p.reverses])
            ELSE p.reverses = 0
      BY <2>1 DEF ReversesIn
    <2>6. JournalOK'
      <3>1. \A i \in DOMAIN journal' :
              /\ IsPosting(journal'[i]) /\ DatabaseAccepts(journal'[i])
              /\ ReversesIn(journal[i], 1..(i - 1))'
        <4> SUFFICES ASSUME NEW i \in DOMAIN journal'
                     PROVE  /\ IsPosting(journal'[i]) /\ DatabaseAccepts(journal'[i])
                            /\ ReversesIn(journal[i], 1..(i - 1))'
          OBVIOUS
        <4>1. CASE i \in DOMAIN journal
          <5>1. /\ IsPosting(journal[i]) /\ ReversesIn(journal[i], 1..(i - 1))
                /\ DatabaseAccepts(journal[i])
            BY <4>1 DEF JInv, JournalOK
          <5>2. 1..(i - 1) \subseteq DOMAIN journal
            BY <2>1, <4>1
          <5> QED
            BY <2>1, <2>5, <4>1, <5>1, <5>2 DEF ReversesIn
        <4>2. CASE i = n + 1
          <5>1. 1..(i - 1) = DOMAIN journal
            BY <2>1, <4>2
          <5> QED
            BY <1>3, <2>1, <2>2, <2>5, <4>2, <5>1 DEF ReversesIn
        <4> QED
          BY <2>1, <4>1, <4>2
      <3>2. \A i, j \in DOMAIN journal' : journal'[i].ref = journal'[j].ref => i = j
        BY <2>1, <2>3 DEF JInv, JournalOK
      <3>3. \A i, j \in DOMAIN journal' :
              journal'[i].reverses = journal'[j].reverses /\ journal'[i].reverses # 0 => i = j
        BY <2>1, <2>3 DEF JInv, JournalOK
      <3> QED
        BY <2>1, <3>1, <3>2, <3>3 DEF JournalOK
    <2>7. RequestOK(r)'
      BY <1>1, <2>1, <2>2, <2>4 DEF RequestOK, Resolved
    <2>8. \A q \in Request \ {r} : RequestOK(q)'
      <3> TAKE q \in Request \ {r}
      <3>1. RequestOK(q) /\ DOMAIN journal \subseteq DOMAIN journal'
        BY <2>1 DEF JInv
      <3>2. /\ pc'[q] = pc[q] /\ cmd'[q] = cmd[q] /\ posting'[q] = posting[q]
            /\ reply'[q] = reply[q]
        BY <2>4 DEF OnlyMoves
      <3>3. ReversesIn(posting[q], DOMAIN journal) => ReversesIn(posting[q], DOMAIN journal)'
        BY <1>1, <2>5, <3>1 DEF ReversesIn
      <3> QED
        BY <2>1, <3>1, <3>2, <3>3 DEF RequestOK, Resolved
    <2> QED
      BY <2>4, <2>6, <2>7, <2>8 DEF JInv, OnlyMoves
  <1> QED
    BY <1>2, <1>3 DEF Commit

\* Every step preserves the journal invariant.
LEMMA NextJournal ==
  ASSUME JInv, [Next]_vars
  PROVE  JInv'
  <1>1. CASE UNCHANGED <<journal, pc, cmd, posting, reply>>
    BY <1>1 DEF JInv, JournalOK, RequestOK, Resolved, ReversesIn, Mirrors
  <1>2. ASSUME NEW r \in Request, ClearingReady(r) PROVE JInv'
    <2>1. CASE Go(r, "lookup") /\ UNCHANGED reply
      BY <1>2, <2>1, GoStep DEF ClearingReady, Resolved, Labels, tables, locals
    <2>2. CASE EnterPostResolved(r, posting[r])
      BY <1>2, <2>2, EnterJournal DEF ClearingReady, Resolved, tables, locals
    <2> QED
      BY <1>2, <2>1, <2>2 DEF ClearingReady
  <1>3. ASSUME NEW r \in Request,
               \/ BeginTransaction(r) \/ RowChanged(r) \/ SerializationFailure(r)
               \/ CheckFunds(r) \/ InsertConflict(r)
        PROVE  JInv'
    <2>1. /\ UNCHANGED <<journal, cmd, posting>>
          /\ pc[r] \in {"begin", "locking", "checked"} /\ Resolved(r)
          /\ \/ \E label \in {"begin", "locking", "checked", "conflict"} :
                  Go(r, label) /\ UNCHANGED reply
             \/ \E code : code # "POSTED" /\ Answer(r, code, 0)
      BY <1>3 DEF BeginTransaction, RowChanged, SerializationFailure, CheckFunds, RowsLocked,
                  InsertConflict, RetryOrThrow, Resolved, tables, locals
    <2>2. CASE \E label \in {"begin", "locking", "checked", "conflict"} :
                 Go(r, label) /\ UNCHANGED reply
      BY <2>1, <2>2, GoStep DEF Labels
    <2>3. CASE \E code : code # "POSTED" /\ Answer(r, code, 0)
      BY <2>1, <2>3, AnswerStep DEF JInv
    <2> QED
      BY <2>1, <2>2, <2>3
  <1>4. ASSUME NEW r \in Request, HandlePostingFailure(r) PROVE JInv'
    <2>1. UNCHANGED <<journal, cmd, posting>>
      BY <1>4 DEF HandlePostingFailure, tables, locals
    <2>2. CASE \E i \in DOMAIN journal : Replay(r, i)
      BY <2>1, <2>2, ReplayStep
    <2>3. CASE Answer(r, "POSTING_CONFLICT", 0)
      BY <2>1, <2>3, AnswerStep DEF JInv
    <2> QED
      BY <1>4, <2>2, <2>3 DEF HandlePostingFailure
  <1>5. ASSUME NEW r \in Request, Crash(r) PROVE JInv'
    BY <1>5, AnswerStep DEF Crash, JInv, tables, locals
  <1>6. ASSUME NEW r \in Request, CreateClearing(r) \/ LockRow(r) PROVE JInv'
    BY <1>1, <1>6 DEF CreateClearing, LockRow, tables, locals
  <1>7. ASSUME NEW a \in Customer, Provision(a) PROVE JInv'
    BY <1>1, <1>7 DEF Provision, locals
  <1> QED
    BY <1>1, <1>2, <1>3, <1>4, <1>5, <1>6, <1>7, ReceiveJournal, FindJournal, ResolveJournal,
       CommitJournal DEF Next, Receive, Step, Finished, vars

\* The journal invariant holds in every behaviour.
THEOREM JournalInductive == Spec => []JInv
  BY JournalInit, NextJournal, PTL DEF Spec

\* No reference is posted twice, and whoever is told that its posting was made
\* finds its own command under the index it is given, although the lookup, the
\* posting and the recovery from a conflict are separate steps of racing requests.
THEOREM ExactlyOnceTheorem == Spec => []ExactlyOnce
  <1>1. JInv => ExactlyOnce
    BY DEF JInv, JournalOK, RequestOK, ExactlyOnce
  <1> QED
    BY <1>1, JournalInductive, PTL

\* What a mirror image debits on an account its original credits there.
LEMMA MirrorBooks ==
  ASSUME NEW p, NEW o, IsPosting(o), Mirrors(p, o), NEW a, NEW side \in {"DEBIT", "CREDIT"}
  PROVE  Booked(p, a, side) = Booked(o, a, OtherSide(side))
  <1>1. \A i \in DOMAIN o.entries :
          /\ p.entries[i].amount = o.entries[i].amount
          /\ p.entries[i].account = o.entries[i].account
          /\ p.entries[i].direction = side <=> o.entries[i].direction = OtherSide(side)
    BY DEF Mirrors, IsPosting, IsEntry, Swapped, OtherSide
  <1>2. DOMAIN p.entries = DOMAIN o.entries
    BY DEF Mirrors
  <1>3. [i \in DOMAIN p.entries |-> p.entries[i].amount]
          = [i \in DOMAIN o.entries |-> o.entries[i].amount]
    BY <1>1, <1>2
  <1>4. {i \in DOMAIN p.entries : p.entries[i].direction = side /\ p.entries[i].account = a}
          = {i \in DOMAIN o.entries :
               o.entries[i].direction = OtherSide(side) /\ o.entries[i].account = a}
    BY <1>1, <1>2
  <1> QED
    BY <1>3, <1>4 DEF Booked, Total

\* A posting is reversed at most once and exactly, and no reversal is reversed,
\* although reverse read the original before its transaction began.
THEOREM ReversalsAreExactTheorem == Spec => []ReversalsAreExact
  <1>1. ASSUME JInv PROVE ReversalsAreExact
    <2> SUFFICES ASSUME NEW i \in DOMAIN journal, journal[i].kind = "REVERSAL",
                        NEW original, original = journal[i].reverses
                 PROVE  /\ original \in 1..(i - 1)
                        /\ journal[original].kind # "REVERSAL"
                        /\ \A a \in Account, side \in {"DEBIT", "CREDIT"} :
                             Booked(journal[i], a, side)
                               = Booked(journal[original], a, OtherSide(side))
                        /\ \A j \in DOMAIN journal : journal[j].reverses = original => j = i
      BY DEF ReversalsAreExact
    <2>1. /\ original \in 1..(i - 1) /\ journal[original].kind # "REVERSAL"
          /\ Mirrors(journal[i], journal[original])
      BY <1>1 DEF JInv, JournalOK, ReversesIn
    <2>2. DOMAIN journal = 1..Len(journal) /\ Len(journal) \in Nat
      BY <1>1, LenProperties DEF JInv, JournalOK
    <2>3. original \in DOMAIN journal /\ original # 0
      BY <2>1, <2>2
    <2>4. IsPosting(journal[original])
      BY <1>1, <2>3 DEF JInv, JournalOK
    <2>5. \A a \in Account, side \in {"DEBIT", "CREDIT"} :
            Booked(journal[i], a, side) = Booked(journal[original], a, OtherSide(side))
      BY <2>1, <2>4, MirrorBooks
    <2>6. \A j \in DOMAIN journal : journal[j].reverses = original => j = i
      BY <1>1, <2>3 DEF JInv, JournalOK
    <2> QED
      BY <2>1, <2>5, <2>6
  <1> QED
    BY <1>1, JournalInductive, PTL

\* The report of LedgerInvariantService.verify stays empty: every posting has
\* entries, and debits equal credits in each of its currencies.
THEOREM NoViolations == Spec => [](Violations = {})
  <1>1. ASSUME JInv PROVE Violations = {}
    <2> SUFFICES ASSUME NEW i \in DOMAIN journal
                 PROVE  /\ journal[i].entries # <<>>
                        /\ \A k \in DOMAIN journal[i].entries :
                             Balanced(journal[i].entries, journal[i].entries[k].currency)
      BY DEF Violations
    <2>1. DatabaseAccepts(journal[i])
      BY <1>1 DEF JInv, JournalOK
    <2>2. Len(<<>>) = 0
      OBVIOUS
    <2> QED
      BY <2>1, <2>2 DEF DatabaseAccepts
  <1> QED
    BY <1>1, JournalInductive, PTL

-----------------------------------------------------------------------------
\* A balance after one more posting.
Plus(x, p, a) == IF a \in AccountsOf(p) THEN x + Effect(p, a) ELSE x

\* The balances that the first n postings of a log leave on account a.
Approx(g, n, log, a) ==
  /\ g = [i \in 0..n |-> g[i]] /\ g[0] = 0
  /\ \A i \in 1..n : g[i] = Plus(g[i - 1], log[i], a)

\* They are determined by the log.
LEMMA ApproxUnique ==
  ASSUME NEW log, NEW a, NEW n \in Nat, NEW m \in Nat, n <= m, NEW g, NEW h,
         Approx(g, n, log, a), Approx(h, m, log, a)
  PROVE  \A i \in 0..n : g[i] = h[i]
  <1> DEFINE Bad == {i \in 0..n : g[i] # h[i]}
  <1> SUFFICES ASSUME Bad # {} PROVE FALSE
    OBVIOUS
  <1>1. Bad \in SUBSET Nat
    OBVIOUS
  <1>2. PICK x \in Bad : \A y \in Bad : x <= y
    <2> HIDE DEF Bad
    <2> QED
      BY <1>1, LeastNat
  <1>3. x \in 0..n /\ x # 0
    BY DEF Approx
  <1>4. x - 1 \in 0..n /\ x - 1 \notin Bad
    BY <1>2, <1>3
  <1>5. g[x - 1] = h[x - 1]
    BY <1>4
  <1>6. g[x] = Plus(g[x - 1], log[x], a) /\ h[x] = Plus(h[x - 1], log[x], a)
    <2>1. x \in 1..n /\ x \in 1..m
      BY <1>3
    <2>2. \A i \in 1..n : g[i] = Plus(g[i - 1], log[i], a)
      BY DEF Approx
    <2>3. \A i \in 1..m : h[i] = Plus(h[i - 1], log[i], a)
      BY DEF Approx
    <2> QED
      BY <2>1, <2>2, <2>3
  <1> QED
    BY <1>5, <1>6

\* There are such balances for every n.
LEMMA ApproxExists ==
  ASSUME NEW log, NEW a, NEW n \in Nat
  PROVE  \E g : Approx(g, n, log, a)
  <1> DEFINE Bad == {k \in Nat : ~ \E g : Approx(g, k, log, a)}
  <1> SUFFICES ASSUME Bad # {} PROVE FALSE
    OBVIOUS
  <1>1. PICK x \in Bad : \A y \in Bad : x <= y
    <2>1. Bad \in SUBSET Nat
      OBVIOUS
    <2> HIDE DEF Bad
    <2> QED
      BY <2>1, LeastNat
  <1>2. x # 0
    <2> DEFINE z == [i \in 0..0 |-> 0]
    <2>1. Approx(z, 0, log, a)
      BY DEF Approx
    <2> QED
      BY <2>1
  <1>3. x - 1 \in Nat /\ x - 1 \notin Bad
    BY <1>1, <1>2
  <1>4. PICK g : Approx(g, x - 1, log, a)
    BY <1>3
  <1> DEFINE h == [i \in 0..x |-> IF i = x THEN Plus(g[x - 1], log[x], a) ELSE g[i]]
  <1>5. \A i \in 1..x : h[i] = Plus(h[i - 1], log[i], a)
    <2> SUFFICES ASSUME NEW i \in 1..x PROVE h[i] = Plus(h[i - 1], log[i], a)
      OBVIOUS
    <2>1. h[i - 1] = g[i - 1]
      OBVIOUS
    <2>2. CASE i = x
      BY <2>1, <2>2
    <2>3. CASE i # x
      <3>1. i \in 1..(x - 1) /\ h[i] = g[i]
        BY <2>3
      <3> QED
        BY <1>4, <2>1, <3>1 DEF Approx
    <2> QED
      BY <2>2, <2>3
  <1>6. h[0] = 0
    BY <1>2, <1>4 DEF Approx
  <1>7. h = [i \in 0..x |-> h[i]]
    OBVIOUS
  <1>8. Approx(h, x, log, a)
    <2> HIDE DEF h
    <2> QED
      BY <1>5, <1>6, <1>7 DEF Approx
  <1> QED
    BY <1>8

\* The recursive definition of Projected has a solution.
LEMMA ProjectedExists ==
  ASSUME NEW log, NEW a
  PROVE  \E sum : sum = [n \in Nat |-> IF n = 0 THEN 0
                        ELSE IF a \in AccountsOf(log[n]) THEN sum[n - 1] + Effect(log[n], a) ELSE sum[n - 1]]
  <1> DEFINE G(n) == CHOOSE g : Approx(g, n, log, a)
  <1> DEFINE F == [n \in Nat |-> G(n)[n]]
  <1>1. \A n \in Nat : Approx(G(n), n, log, a)
    BY ApproxExists
  <1> HIDE DEF G
  <1>2. F[0] = 0
    BY <1>1 DEF Approx
  <1>3. \A n \in Nat \ {0} : F[n] = Plus(F[n - 1], log[n], a)
    <2> TAKE n \in Nat \ {0}
    <2>1. n - 1 \in Nat /\ n \in Nat /\ n - 1 <= n
      OBVIOUS
    <2>2. G(n - 1)[n - 1] = G(n)[n - 1]
      BY <1>1, <2>1, ApproxUnique
    <2>3. G(n)[n] = Plus(G(n)[n - 1], log[n], a)
      BY <1>1, <2>1 DEF Approx
    <2> QED
      BY <2>1, <2>2, <2>3
  <1>4. F = [n \in Nat |-> F[n]]
    OBVIOUS
  <1> HIDE DEF F
  <1>5. F = [n \in Nat |-> IF n = 0 THEN 0
                           ELSE IF a \in AccountsOf(log[n]) THEN F[n - 1] + Effect(log[n], a) ELSE F[n - 1]]
    BY <1>2, <1>3, <1>4 DEF Plus
  <1> QED
    BY <1>5, Zenon
\* What Projected computes.
LEMMA ProjectedStep ==
  ASSUME NEW log, NEW a
  PROVE  /\ Projected(log, a)[0] = 0
         /\ \A n \in Nat \ {0} : Projected(log, a)[n] = Plus(Projected(log, a)[n - 1], log[n], a)
  <1>1. PICK f : f = Projected(log, a)
    OBVIOUS
  <1>2. f = [n \in Nat |-> IF n = 0 THEN 0
                        ELSE IF a \in AccountsOf(log[n]) THEN f[n - 1] + Effect(log[n], a) ELSE f[n - 1]]
    <2>1. f = CHOOSE sum : sum = [n \in Nat |-> IF n = 0 THEN 0
                        ELSE IF a \in AccountsOf(log[n]) THEN sum[n - 1] + Effect(log[n], a)
                        ELSE sum[n - 1]]
      BY <1>1, Zenon DEF Projected
    <2>2. \E sum : sum = [n \in Nat |-> IF n = 0 THEN 0
                        ELSE IF a \in AccountsOf(log[n]) THEN sum[n - 1] + Effect(log[n], a)
                        ELSE sum[n - 1]]
      BY ProjectedExists, Zenon
    <2> QED
      BY <2>1, <2>2, Zenon
  <1> QED
    BY <1>1, <1>2 DEF Plus

\* Appending to a log does not change what its first postings leave.
LEMMA ProjectedPrefix ==
  ASSUME NEW log, NEW more, NEW a, NEW n \in Nat, \A i \in 1..n : more[i] = log[i]
  PROVE  Projected(more, a)[n] = Projected(log, a)[n]
  <1>1. PICK f : f = Projected(log, a)
    OBVIOUS
  <1>2. PICK g : g = Projected(more, a)
    OBVIOUS
  <1>3. f[0] = 0 /\ \A i \in Nat \ {0} : f[i] = Plus(f[i - 1], log[i], a)
    BY <1>1, ProjectedStep
  <1>4. g[0] = 0 /\ \A i \in Nat \ {0} : g[i] = Plus(g[i - 1], more[i], a)
    BY <1>2, ProjectedStep
  <1> DEFINE Bad == {i \in 0..n : g[i] # f[i]}
  <1> SUFFICES ASSUME Bad # {} PROVE FALSE
    BY <1>1, <1>2
  <1>5. PICK x \in Bad : \A y \in Bad : x <= y
    <2>1. Bad \in SUBSET Nat
      OBVIOUS
    <2> HIDE DEF Bad
    <2> QED
      BY <2>1, LeastNat
  <1>6. x \in 1..n /\ x - 1 \in 0..n /\ x - 1 \notin Bad
    BY <1>3, <1>4, <1>5
  <1> QED
    BY <1>3, <1>4, <1>6

\* A step keeps the balances equal to the journal: a commit appends one posting
\* and moves each balance by its effect, every other step leaves both alone.
LEMMA MatchStep ==
  ASSUME JInv, IInv, [Next]_vars, JournalMatchesBalances
  PROVE  JournalMatchesBalances'
  <1>1. CASE UNCHANGED <<journal, balance>>
    BY <1>1 DEF JournalMatchesBalances
  <1>2. ASSUME NEW r \in Request, journal' = Append(journal, posting[r]),
               \A a \in Account : balance'[a] = Plus(balance[a], posting[r], a)
        PROVE  JournalMatchesBalances'
    <2>0. PICK n, log, more : n = Len(journal) /\ log = journal /\ more = journal'
      OBVIOUS
    <2>1. /\ n \in Nat /\ Len(more) = n + 1
          /\ more[n + 1] = posting[r] /\ \A i \in 1..n : more[i] = log[i]
      BY <1>2, <2>0, AppendFacts DEF JInv, JournalOK
    <2> SUFFICES ASSUME NEW a \in Account
                 PROVE  balance'[a] = Projected(more, a)[n + 1]
      BY <2>0, <2>1 DEF JournalMatchesBalances
    <2>2. Projected(more, a)[n] = Projected(log, a)[n]
      BY <2>1, ProjectedPrefix
    <2>3. n + 1 \in Nat \ {0} /\ (n + 1) - 1 = n
      BY <2>1
    <2>4. Projected(more, a)[n + 1] = Plus(Projected(more, a)[n], more[n + 1], a)
      BY <2>3, ProjectedStep
    <2>5. balance[a] = Projected(log, a)[n]
      BY <2>0 DEF JournalMatchesBalances
    <2> QED
      BY <1>2, <2>1, <2>2, <2>4, <2>5
  <1> QED
    BY <1>1, <1>2, MovesStep DEF Plus

\* Every balance is the sum of what the journal posted to its account.
THEOREM JournalMatchesBalancesTheorem == Spec => []JournalMatchesBalances
  <1>1. Init => JournalMatchesBalances
    <2> SUFFICES ASSUME Init, NEW a \in Account
                 PROVE  balance[a] = Projected(journal, a)[Len(journal)]
      BY DEF JournalMatchesBalances
    <2>1. Len(journal) = 0 /\ balance[a] = 0
      BY DEF Init
    <2> QED
      BY <2>1, ProjectedStep
  <1> QED
    BY <1>1, MatchStep, Inductive, JournalInductive, PTL DEF Spec

-----------------------------------------------------------------------------
(***************************************************************************)
(* Money.  A posting that balances in each currency moves as much to the   *)
(* customers as it takes from the clearing accounts, if its entries are on *)
(* accounts in their currency, which the transaction checks as it begins.  *)
(***************************************************************************)

\* The entries are on ledger accounts, in the currency of the account.
InBooks(p) == AccountsOf(p) \subseteq Account /\ AccountsUsable(p.entries)

BooksOK ==
  /\ accounts \subseteq Account
  /\ \A r \in Request : pc[r] \in InTransaction => InBooks(posting[r])
  /\ \A i \in DOMAIN journal : InBooks(journal[i])

\* The accounts that a transaction checked when it began are those it posts to.
LEMMA BooksStep ==
  ASSUME JInv, IInv, BooksOK, [Next]_vars
  PROVE  BooksOK'
  <1>1. accounts' \subseteq Account
    BY AccountAssumption
       DEF BooksOK, Next, Receive, Step, Finished, ReceivePost, ReceiveFunding, ReceiveReversal,
           FindIdempotent, Resolve, CreateClearing, ClearingReady, BeginTransaction, LockRow,
           RowChanged, SerializationFailure, RetryOrThrow, CheckFunds, Commit, InsertConflict,
           HandlePostingFailure, Crash, Provision, tables, locals, vars
  <1>2. ASSUME NEW q \in Request, pc'[q] \in InTransaction PROVE InBooks(posting'[q])
    <2>1. \/ pc[q] \in InTransaction /\ posting'[q] = posting[q]
          \/ BeginTransaction(q)
      BY <1>2 DEF JInv, Next, Receive, Step, Finished, ReceivePost, ReceiveFunding,
           ReceiveReversal, FindIdempotent, Replay, Resolve, CreateClearing, ClearingReady,
           EnterPostResolved, BeginTransaction, LockRow, RowChanged, SerializationFailure,
           RetryOrThrow, CheckFunds, RowsLocked, Commit, InsertConflict, HandlePostingFailure,
           Crash, Provision, Answer, Go, InTransaction, Labels, tables, locals, vars
    <2>2. CASE BeginTransaction(q)
      <3>1. posting'[q] = posting[q] /\ pc'[q] \in {"locking", "done"}
        BY <2>2 DEF BeginTransaction, JInv, Answer, Go
      <3>2. AccountsOf(posting[q]) \subseteq accounts /\ AccountsUsable(posting[q].entries)
        BY <1>2, <2>2 DEF BeginTransaction, JInv, Answer, Go, InTransaction, Labels
      <3> QED
        BY <3>1, <3>2 DEF BooksOK, InBooks
    <2> QED
      BY <2>1, <2>2 DEF BooksOK
  <1>3. \A i \in DOMAIN journal' : InBooks(journal'[i])
    <2>1. CASE UNCHANGED journal
      BY <2>1 DEF BooksOK
    <2>2. ASSUME NEW r \in Request, Commit(r), journal' = Append(journal, posting[r])
          PROVE  \A i \in DOMAIN journal' : InBooks(journal'[i])
      <3>1. InBooks(posting[r])
        BY <2>2 DEF Commit, BooksOK, InTransaction
      <3>2. /\ Len(journal) \in Nat /\ DOMAIN journal = 1..Len(journal)
            /\ DOMAIN journal' = 1..(Len(journal) + 1)
            /\ journal'[Len(journal) + 1] = posting[r]
            /\ \A i \in DOMAIN journal : journal'[i] = journal[i]
        BY <2>2, AppendFacts DEF JInv, JournalOK
      <3> QED
        BY <3>1, <3>2 DEF BooksOK
    <2>3. (\A r \in Request : ~Commit(r)) => UNCHANGED journal
      BY DEF Next, Receive, Step, Finished, ReceivePost, ReceiveFunding,
             ReceiveReversal, FindIdempotent, Resolve, CreateClearing, ClearingReady,
             BeginTransaction, LockRow, RowChanged, SerializationFailure, RetryOrThrow,
             CheckFunds, InsertConflict, HandlePostingFailure, Crash, Provision, tables, vars
    <2> QED
      BY <2>1, <2>2, <2>3 DEF Commit
  <1> QED
    BY <1>1, <1>2, <1>3 DEF BooksOK, InBooks, AccountsOf, AccountsUsable

\* What a posting books on an account is a number, and nothing when no entry is
\* on it.
LEMMA BookedFacts ==
  ASSUME NEW p, IsPosting(p), NEW a, NEW side
  PROVE  Booked(p, a, side) \in Int /\ (a \notin AccountsOf(p) => Booked(p, a, side) = 0)
  <1> DEFINE amount == [i \in DOMAIN p.entries |-> p.entries[i].amount]
             On == {i \in DOMAIN p.entries : p.entries[i].direction = side /\ p.entries[i].account = a}
  <1>1. Booked(p, a, side) = SumFunctionOnSet(amount, On)
    BY DEF Booked, Total
  <1>2. IsFiniteSet(On) /\ \A i \in On : amount[i] \in Int
    BY FS_Subset DEF IsPosting, IsEntry
  <1>3. a \notin AccountsOf(p) => On = {}
    BY DEF AccountsOf
  <1> HIDE DEF amount, On
  <1> QED
    BY <1>1, <1>2, <1>3, SumType, SumEmpty

\* The accounts in a currency; the amounts of a posting's entries, and the entries
\* on a side in a currency.
Holding(currency) == {a \in Account : CurrencyOf[a] = currency}
Amounts(p) == [i \in DOMAIN p.entries |-> p.entries[i].amount]
OnSide(p, side, currency) ==
  {i \in DOMAIN p.entries : p.entries[i].direction = side /\ p.entries[i].currency = currency}

\* What a posting books in a currency is what it books on the currency's accounts.
LEMMA BookedInCurrency ==
  ASSUME NEW p, IsPosting(p), InBooks(p), NEW currency, NEW side, NEW booked,
         \A a \in Holding(currency) : booked[a] = Booked(p, a, side)
  PROVE  SumFunctionOnSet(booked, Holding(currency))
           = SumFunctionOnSet(Amounts(p), OnSide(p, side, currency))
  <1> DEFINE E == DOMAIN p.entries
             amount == Amounts(p)
             account == [i \in E |-> p.entries[i].account]
             Side == {i \in E : p.entries[i].direction = side}
             D == Holding(currency)
  <1>1. IsFiniteSet(D) /\ IsFiniteSet(Side) /\ \A i \in Side : amount[i] \in Int
    BY AccountAssumption, FS_Subset DEF IsPosting, IsEntry, Holding, Amounts
  <1>2. \A a \in D : booked[a] = SumFunctionOnSet(amount, ClassOf(Side, account, a))
    <2> TAKE a \in D
    <2>1. ClassOf(Side, account, a)
            = {i \in E : p.entries[i].direction = side /\ p.entries[i].account = a}
      BY DEF ClassOf
    <2> QED
      BY <2>1 DEF Booked, Total, Amounts
  <1>3. ClassesIn(Side, account, D) = OnSide(p, side, currency)
    BY DEF InBooks, AccountsOf, AccountsUsable, OnSide, Holding, ClassesIn
  <1>4. SumFunctionOnSet(booked, D) = SumFunctionOnSet(amount, ClassesIn(Side, account, D))
    <2> HIDE DEF amount, account, Side, D
    <2> QED
      BY <1>1, <1>2, SumClasses
  <1> QED
    BY <1>3, <1>4

\* The balances after a posting, from those before it.
Applied(p, before, after) ==
  \A a \in Account :
    /\ before[a] \in Int
    /\ after[a] = IF a \in AccountsOf(p) THEN before[a] + Effect(p, a) ELSE before[a]

\* A posting that balances in every currency keeps what the customers own equal
\* to what clearing paid out.
LEMMA PostingConserves ==
  ASSUME NEW p, IsPosting(p), InBooks(p),
         DatabaseAccepts(p), NEW before, NEW after, Applied(p, before, after),
         NEW currency,
         SumFunctionOnSet(before, Holding(currency) \cap Customer)
           = SumFunctionOnSet(before, Holding(currency) \ Customer)
  PROVE  SumFunctionOnSet(after, Holding(currency) \cap Customer)
           = SumFunctionOnSet(after, Holding(currency) \ Customer)
  <1> DEFINE D == Holding(currency)
             C == D \cap Customer
             L == D \ Customer
             credit == [a \in Account |-> Booked(p, a, "CREDIT")]
             debit == [a \in Account |-> Booked(p, a, "DEBIT")]
             gross == [a \in Account |-> after[a] + IF a \in Customer THEN debit[a] ELSE credit[a]]
             Sum(f, S) == SumFunctionOnSet(f, S)
  <1>1. /\ IsFiniteSet(D) /\ IsFiniteSet(C) /\ IsFiniteSet(L)
        /\ C \cap L = {} /\ C \cup L = D /\ D \subseteq Account
    BY AccountAssumption, FS_Subset DEF Holding
  <1>2. \A a \in Account : credit[a] \in Int /\ debit[a] \in Int /\ before[a] \in Int
    BY BookedFacts DEF Applied
  <1>3. \A a \in Account : after[a] = IF a \in Customer THEN before[a] + (credit[a] - debit[a])
                                      ELSE before[a] + (debit[a] - credit[a])
    <2> TAKE a \in Account
    <2>1. a \notin AccountsOf(p) => credit[a] = 0 /\ debit[a] = 0
      BY BookedFacts
    <2>2. Effect(p, a) = IF a \in Customer THEN credit[a] - debit[a] ELSE debit[a] - credit[a]
      <3>1. CASE a \in Customer
        BY <3>1, NormalSide(a) = "CREDIT", OtherSide("CREDIT") = "DEBIT" DEF Effect, NormalSide, OtherSide
      <3>2. CASE a \notin Customer
        BY <3>2, NormalSide(a) = "DEBIT", OtherSide("DEBIT") = "CREDIT" DEF Effect, NormalSide, OtherSide
      <3> QED
        BY <3>1, <3>2
    <2>3. PICK x, y, c, d : x = before[a] /\ y = after[a] /\ c = credit[a] /\ d = debit[a]
      OBVIOUS
    <2> HIDE DEF credit, debit
    <2>4. x \in Int /\ c \in Int /\ d \in Int /\ (a \notin AccountsOf(p) => c = 0 /\ d = 0)
      BY <1>2, <2>1, <2>3
    <2>5. CASE a \in AccountsOf(p)
      BY <2>2, <2>3, <2>5 DEF Applied
    <2>6. CASE a \notin AccountsOf(p)
      <3>1. y = x /\ c = 0 /\ d = 0
        BY <2>3, <2>4, <2>6 DEF Applied
      <3>2. y = x + (c - d) /\ y = x + (d - c)
        BY <2>4, <3>1
      <3> QED
        BY <2>3, <3>2
    <2> QED
      BY <2>5, <2>6
  <1>4. Sum(credit, D) = Sum(debit, D)
    <2> DEFINE Of(side) == OnSide(p, side, currency)
    <2>0. /\ \A a \in D : credit[a] = Booked(p, a, "CREDIT")
          /\ \A a \in D : debit[a] = Booked(p, a, "DEBIT")
      BY <1>1
    <2>1. Sum(credit, D) = Sum(Amounts(p), Of("CREDIT"))
      <3> HIDE DEF credit
      <3> QED
        BY <2>0, BookedInCurrency
    <2>2. Sum(debit, D) = Sum(Amounts(p), Of("DEBIT"))
      <3> HIDE DEF debit
      <3> QED
        BY <2>0, BookedInCurrency
    <2>3. CASE \E i \in DOMAIN p.entries : p.entries[i].currency = currency
      <3>1. Balanced(p.entries, currency)
        BY <2>3 DEF DatabaseAccepts
      <3>2. Sum(Amounts(p), Of("CREDIT")) = Sum(Amounts(p), Of("DEBIT"))
        BY <3>1 DEF Balanced, Total, Amounts, OnSide
      <3> QED
        BY <2>1, <2>2, <3>2
    <2>4. CASE ~ \E i \in DOMAIN p.entries : p.entries[i].currency = currency
      <3>1. Of("CREDIT") = {} /\ Of("DEBIT") = {}
        BY <2>4 DEF OnSide
      <3> QED
        BY <2>1, <2>2, <3>1
    <2> QED
      BY <2>3, <2>4
  <1>5. Sum(credit, D) = Sum(credit, C) + Sum(credit, L) /\ Sum(debit, D) = Sum(debit, C) + Sum(debit, L)
    <2> HIDE DEF C, L, credit, debit
    <2> QED
      BY <1>1, <1>2, SumUnion
  <1>6. /\ \A a \in C : /\ after[a] \in Int /\ gross[a] = after[a] + debit[a]
                        /\ gross[a] = before[a] + credit[a]
        /\ \A a \in L : /\ after[a] \in Int /\ gross[a] = after[a] + credit[a]
                        /\ gross[a] = before[a] + debit[a]
    BY <1>1, <1>2, <1>3
  <1>7. C \subseteq Account /\ L \subseteq Account
    BY <1>1
  <1> HIDE DEF C, L, credit, debit, gross
  <1>8. Sum(gross, C) = Sum(after, C) + Sum(debit, C) /\ Sum(gross, C) = Sum(before, C) + Sum(credit, C)
    BY <1>1, <1>2, <1>6, <1>7, SumPlus
  <1>9. Sum(gross, L) = Sum(after, L) + Sum(credit, L) /\ Sum(gross, L) = Sum(before, L) + Sum(debit, L)
    BY <1>1, <1>2, <1>6, <1>7, SumPlus
  <1>10. /\ Sum(after, C) \in Int /\ Sum(before, C) \in Int /\ Sum(credit, C) \in Int /\ Sum(debit, C) \in Int
         /\ Sum(after, L) \in Int /\ Sum(before, L) \in Int /\ Sum(credit, L) \in Int /\ Sum(debit, L) \in Int
    BY <1>1, <1>2, <1>6, <1>7, SumType
  <1>11. Sum(before, C) = Sum(before, L)
    BY DEF C, L
  <1>12. Sum(after, C) = Sum(after, L)
    <2>1. PICK ac, bc, cc, dc, al, bl, cl, dl :
            /\ ac = Sum(after, C) /\ bc = Sum(before, C) /\ cc = Sum(credit, C) /\ dc = Sum(debit, C)
            /\ al = Sum(after, L) /\ bl = Sum(before, L) /\ cl = Sum(credit, L) /\ dl = Sum(debit, L)
      OBVIOUS
    <2>2. /\ {ac, bc, cc, dc, al, bl, cl, dl} \subseteq Int
          /\ cc + cl = dc + dl /\ ac + dc = bc + cc /\ al + cl = bl + dl /\ bc = bl
      BY <1>4, <1>5, <1>8, <1>9, <1>10, <1>11, <2>1
    <2>3. ac = al
      BY <2>2
    <2> QED
      BY <2>1, <2>3
  <1> QED
    BY <1>12 DEF C, L

\* Money is only moved: in every currency, what the customers own is what the
\* clearing accounts paid out, whatever postings, FX legs, fundings and reversals
\* raced, were retried or died; and the report on the journal stays empty.
THEOREM MoneyConservedTheorem == Spec => []MoneyConserved
  <1> DEFINE Even == \A currency : SumFunctionOnSet(balance, Holding(currency) \cap Customer)
                                     = SumFunctionOnSet(balance, Holding(currency) \ Customer)
             Money == (\A a \in Account : balance[a] \in Int) /\ Even
  <1>1. Init => BooksOK /\ Money
    <2> SUFFICES ASSUME Init PROVE BooksOK /\ Money
      OBVIOUS
    <2>1. BooksOK
      BY DEF Init, BooksOK, InTransaction
    <2>2. \A a \in Account : balance[a] = 0
      BY DEF Init
    <2>3. ASSUME NEW S \in SUBSET Account PROVE SumFunctionOnSet(balance, S) = 0
      <3>1. IsFiniteSet(S)
        BY AccountAssumption, FS_Subset
      <3>2. PICK f : f = balance
        OBVIOUS
      <3>3. \A a \in S : f[a] = 0
        BY <2>2, <3>2
      <3>4. \A a \in S : f[a] \in Int /\ f[a] = f[a] + f[a]
        BY <3>3
      <3>5. PICK x : x = SumFunctionOnSet(f, S)
        OBVIOUS
      <3>6. x = x + x
        BY <3>1, <3>4, <3>5, SumPlus
      <3>7. x \in Int
        BY <3>1, <3>4, <3>5, SumType
      <3>8. x = 0
        BY <3>6, <3>7
      <3> QED
        BY <3>2, <3>5, <3>8
    <2>4. Even
      <3> SUFFICES ASSUME NEW currency
                   PROVE  SumFunctionOnSet(balance, Holding(currency) \cap Customer)
                            = SumFunctionOnSet(balance, Holding(currency) \ Customer)
        OBVIOUS
      <3>1. /\ Holding(currency) \cap Customer \in SUBSET Account
            /\ Holding(currency) \ Customer \in SUBSET Account
        BY DEF Holding
      <3> QED
        BY <2>3, <3>1
    <2>5. \A a \in Account : balance[a] \in Int
      BY <2>2
    <2> QED
      BY <2>1, <2>4, <2>5
  <1>2. ASSUME IInv, JInv, JInv', BooksOK, BooksOK', Money, [Next]_vars PROVE Money'
    <2>1. CASE UNCHANGED <<journal, balance>>
      BY <1>2, <2>1
    <2>2. ASSUME NEW r \in Request, journal' = Append(journal, posting[r]),
                 \A a \in Account : balance'[a] =
                   IF a \in AccountsOf(posting[r]) THEN balance[a] + Effect(posting[r], a)
                   ELSE balance[a]
          PROVE  Money'
      <3> DEFINE p == posting[r]
      <3>1. /\ Len(journal) + 1 \in DOMAIN journal' /\ journal'[Len(journal) + 1] = p
        BY <1>2, <2>2, AppendFacts DEF JInv, JournalOK
      <3>2. IsPosting(p) /\ InBooks(p) /\ DatabaseAccepts(p)
        BY <1>2, <3>1 DEF JInv, JournalOK, BooksOK, InBooks, AccountsUsable, AccountsOf,
                         IsPosting, DatabaseAccepts
      <3>4. \A a \in Account : balance'[a] \in Int
        <4>1. \A a \in Account : Effect(p, a) \in Int
          BY <3>2, BookedFacts DEF Effect
        <4> QED
          BY <1>2, <2>2, <4>1
      <3>5. ASSUME NEW currency
            PROVE  SumFunctionOnSet(balance', Holding(currency) \cap Customer)
                     = SumFunctionOnSet(balance', Holding(currency) \ Customer)
        <4>1. PICK before, after, q :
                before = balance /\ after = balance' /\ q = p
          OBVIOUS
        <4>2. SumFunctionOnSet(before, Holding(currency) \cap Customer) = SumFunctionOnSet(before, Holding(currency) \ Customer)
          BY <1>2, <4>1
        <4>3. Applied(q, before, after)
          BY <1>2, <2>2, <4>1 DEF Applied
        <4> HIDE DEF p
        <4>5. IsPosting(q) /\ InBooks(q) /\ DatabaseAccepts(q)
          BY <3>2, <4>1
        <4>6. SumFunctionOnSet(after, Holding(currency) \cap Customer) = SumFunctionOnSet(after, Holding(currency) \ Customer)
          BY <4>2, <4>3, <4>5, PostingConserves
        <4> QED
          BY <4>1, <4>6
      <3> QED
        BY <3>4, <3>5
    <2> QED
      BY <1>2, <2>1, <2>2, MovesStep
  <1>3. Violations = {} /\ Money => MoneyConserved
    BY DEF MoneyConserved, Holding
  <1> HIDE DEF Money
  <1> QED
    BY <1>1, <1>2, <1>3, BooksStep, Inductive, JournalInductive, NoViolations, PTL DEF Spec
=============================================================================
