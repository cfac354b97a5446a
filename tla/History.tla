------------------------------ MODULE History -------------------------------
(***************************************************************************)
(* The history projection of the Transaction service: the row that each    *)
(* transfer has for a wallet, the pages a client reads of it with a seek   *)
(* cursor (TransferService.history), and the maintenance command that      *)
(* rebuilds it (HistoryProjectionService.rebuild), while transfers are     *)
(* created and settle.                                                     *)
(***************************************************************************)
EXTENDS Integers, Sequences, FiniteSets, SequencesExt, Ordering

CONSTANTS
  Transfers,      \* number of transfers; an id is random, so ids are not in
                  \* the order of creation
  RowIds,         \* the ids that a new row may draw, as random as the others
  International,  \* transfers that need a quote before they have rows
  BatchSize,      \* transfers that the rebuild reads at once
  Limit,          \* rows of a page
  MaxTime,        \* bound on the clock, in milliseconds
  MaxDamage       \* bound on rows that are lost or wrong

ASSUME TransfersAssumption == Transfers \in Nat /\ International \subseteq 1..Transfers
ASSUME RowIdsAssumption == RowIds \subseteq Nat \ {0}
ASSUME SizesAssumption == BatchSize \in Nat \ {0} /\ Limit \in Nat \ {0}
ASSUME BoundsAssumption == MaxTime \in Nat /\ MaxDamage \in Nat

VARIABLES
  clock,     \* the time of the database
  status,    \* transfers.status; "BEGUN" before the insert commits
  at,        \* created_at of the transfer, occurred_at of its row
  terms,     \* transfers whose target amount is known
  row,       \* status of the transfer's history row, "NONE" if there is none
  id,        \* transaction_history.id of the row, 0 if there is none
  drawn,     \* ids that rows have or had
  stray,     \* transfers that have a row for a wallet of nobody's
  damage,    \* rows damaged so far
  phase,     \* where the rebuild is
  after,     \* the id it has come to
  batch,     \* the transfers it has read: status and terms
  moved,     \* transfers that changed between its read and its write
  walk,      \* where the reader of the pages is
  cursor,    \* the last row of the previous page
  shown,     \* the rows it was shown
  present    \* the rows that have been there since the walk began

vars == <<clock, status, at, terms, row, id, drawn, stray, damage, phase, after, batch,
          moved, walk, cursor, shown, present>>
table == <<status, at, terms>>
rows == <<row, id, drawn>>
rebuild == <<phase, after, batch, moved>>
reader == <<walk, cursor, shown, present>>

Transfer == 1..Transfers
Committed == {t \in Transfer : status[t] \notin {"NONE", "BEGUN"}}
WithRow == {t \in Transfer : row[t] # "NONE"}
\* A row as the query orders it.
Entry(t) == [transfer |-> t, at |-> at[t], id |-> id[t]]
Entries == {Entry(t) : t \in WithRow}
NoEntry == [transfer |-> 0, at |-> 0, id |-> 0]
NoBatch == [t \in {} |-> [status |-> "NONE", terms |-> FALSE]]

-----------------------------------------------------------------------------
(* Rows *)

\* The rows become these: one that is there keeps its id, and one that is created
\* draws an id that no row has had.
RowsBecome(new) ==
  LET Created == {t \in Transfer : row[t] = "NONE" /\ new[t] # "NONE"} IN
  \E draw \in [Created -> RowIds \ drawn] :
    /\ IsInjective(draw)
    /\ row' = new
    /\ id' = [t \in Transfer |-> IF new[t] = "NONE" THEN 0
                                 ELSE IF t \in Created THEN draw[t] ELSE id[t]]
    /\ drawn' = drawn \cup {draw[t] : t \in Created}

-----------------------------------------------------------------------------
(* Transfers *)

\* A transfer that the rebuild has read changes.
Move(t) == moved' = IF t \in DOMAIN batch THEN moved \cup {t} ELSE moved

\* claim reads the time first; its transaction commits later.
Begin(t) ==
  /\ status[t] = "NONE"
  /\ status' = [status EXCEPT ![t] = "BEGUN"]
  /\ at' = [at EXCEPT ![t] = clock]
  /\ UNCHANGED <<clock, terms, rows, stray, damage, rebuild, reader>>

Commit(t) ==
  /\ status[t] = "BEGUN"
  /\ status' = [status EXCEPT ![t] = "PENDING"]
  /\ terms' = IF t \in International THEN terms ELSE terms \cup {t}
  /\ RowsBecome([row EXCEPT ![t] = IF t \in International THEN "NONE" ELSE "PENDING"])
  /\ UNCHANGED <<clock, at, stray, damage, rebuild, reader>>

\* transition updates the row there is; prepareInternational creates it, at the
\* time the transfer was created.
Process(t) ==
  /\ status[t] = "PENDING"
  /\ status' = [status EXCEPT ![t] = "PROCESSING"]
  /\ terms' = terms \cup {t}
  /\ RowsBecome([row EXCEPT ![t] = IF t \in International \/ @ # "NONE" THEN "PROCESSING" ELSE @])
  /\ Move(t)
  /\ UNCHANGED <<clock, at, stray, damage, phase, after, batch, reader>>

\* complete and fail update the row there is.
Settle(t) ==
  /\ \E st \in {"COMPLETED", "FAILED"} :
       /\ status[t] = "PROCESSING" \/ (status[t] = "PENDING" /\ st = "FAILED")
       /\ status' = [status EXCEPT ![t] = st]
       /\ RowsBecome([row EXCEPT ![t] = IF @ = "NONE" THEN @ ELSE st])
  /\ Move(t)
  /\ UNCHANGED <<clock, at, terms, stray, damage, phase, after, batch, reader>>

\* Rows that disappear were not there during the whole walk.
Lose == present' = present \cap Entries'

\* What the maintenance command is for: before it runs, a row is lost, wrong, or
\* belongs to nobody.
Damage(t) ==
  /\ phase = "idle" /\ damage < MaxDamage /\ damage' = damage + 1
  /\ row[t] # "NONE"
  /\ \/ \E st \in {"NONE", "FAILED"} : RowsBecome([row EXCEPT ![t] = st]) /\ UNCHANGED stray
     \/ stray' = stray \cup {t} /\ UNCHANGED rows
  /\ UNCHANGED <<clock, table, rebuild, walk, cursor, shown>>
  /\ Lose

Tick == /\ clock < MaxTime /\ clock' = clock + 1
        /\ UNCHANGED <<table, rows, stray, damage, rebuild, reader>>

-----------------------------------------------------------------------------
(* The rebuild *)

\* Mutant: an international transfer without terms gets rows too.
ExpectedRowMutant(transfer) == transfer.status

\* expectedRows: the status of the rows, none for a transfer without terms.
ExpectedRow(transfer) == IF transfer.terms THEN transfer.status ELSE "NONE"

Current(t) == [status |-> status[t], terms |-> t \in terms]

\* The first ids of a set, at most n of them.
FirstIds(S, n) == {t \in S : Cardinality({u \in S : u < t}) < n}

\* Mutant: the batch starts one id late.
ReadBatchMutant ==
  /\ phase \in {"idle", "read"}
  /\ LET found == FirstIds({t \in Committed : t > after + 1}, BatchSize) IN
       /\ batch' = [t \in found |-> Current(t)]
       /\ phase' = IF found = {} THEN "done" ELSE "write"
  /\ UNCHANGED <<clock, table, rows, stray, damage, after, moved, reader>>

\* findMany after the last id; nothing found ends the loop.
ReadBatch ==
  /\ phase \in {"idle", "read"}
  /\ LET found == FirstIds({t \in Committed : t > after}, BatchSize) IN
       /\ batch' = [t \in found |-> Current(t)]
       /\ phase' = IF found = {} THEN "done" ELSE "write"
  /\ UNCHANGED <<clock, table, rows, stray, damage, after, moved, reader>>

\* One transaction writes the rows of the batch from what was read, and removes
\* the rows of the batch that are not expected.
WriteBatch ==
  /\ phase = "write"
  /\ RowsBecome([t \in Transfer |-> IF t \in DOMAIN batch THEN ExpectedRow(batch[t]) ELSE row[t]])
  /\ stray' = stray \ DOMAIN batch
  /\ after' = Max(DOMAIN batch)
  /\ batch' = NoBatch /\ phase' = "read"
  /\ UNCHANGED <<clock, table, damage, moved, walk, cursor, shown>>
  /\ Lose

-----------------------------------------------------------------------------
(* Pages *)

\* ORDER BY occurred_at DESC, id DESC.
Newer(x, y) == x.at > y.at \/ (x.at = y.at /\ x.id > y.id)
NewestFirst == {pair \in Entries \X Entries : Newer(pair[1], pair[2])}

\* Mutant: the cursor holds the time only.
BeyondMutant(x) == cursor = NoEntry \/ x.at < cursor.at

\* The rows that come after the cursor.
Beyond(x) == cursor = NoEntry \/ Newer(cursor, x)

\* At most n rows.
Take(list, n) == SubSeq(list, 1, IF Len(list) <= n THEN Len(list) ELSE n)

\* The query returns one row more than the page shows, to know whether there is
\* another page.
ReadPage ==
  LET found == Take(InOrder({x \in Entries : Beyond(x)}, NewestFirst), Limit + 1)
      page == Take(found, Limit)
  IN
  /\ walk # "done"
  /\ present' = IF walk = "idle" THEN Entries ELSE present
  /\ shown' = shown \o page
  /\ IF Len(found) > Limit
     THEN walk' = "page" /\ cursor' = Last(page)
     ELSE walk' = "done" /\ UNCHANGED cursor
  /\ UNCHANGED <<clock, table, rows, stray, damage, rebuild>>

-----------------------------------------------------------------------------
Init ==
  /\ clock = 0
  /\ status = [t \in Transfer |-> "NONE"]
  /\ at = [t \in Transfer |-> 0]
  /\ terms = {} /\ stray = {} /\ damage = 0
  /\ row = [t \in Transfer |-> "NONE"] /\ id = [t \in Transfer |-> 0] /\ drawn = {}
  /\ phase = "idle" /\ after = 0 /\ batch = NoBatch /\ moved = {}
  /\ walk = "idle" /\ cursor = NoEntry /\ shown = <<>> /\ present = {}

\* The command and the walk are over and all transfers are settled.
Finished ==
  /\ phase = "done" /\ walk = "done"
  /\ \A t \in Transfer : status[t] \in {"COMPLETED", "FAILED"}
  /\ UNCHANGED vars

Next ==
  \/ \E t \in Transfer : Begin(t) \/ Commit(t) \/ Process(t) \/ Settle(t) \/ Damage(t)
  \/ Tick \/ ReadBatch \/ WriteBatch \/ ReadPage
  \/ Finished

Spec == Init /\ [][Next]_vars
-----------------------------------------------------------------------------
(* Properties *)

\* The rebuild repairs what it has come past: the row of every transfer that did
\* not change between the read and the write of its batch is the expected one.
RebuildRepairs ==
  \A t \in Committed \ moved : phase = "done" \/ (phase = "read" /\ t <= after) =>
    row[t] = ExpectedRow(Current(t)) /\ t \notin stray

\* A client that follows the cursors sees every row that was there all the time,
\* and no row twice, newest first, although rows appear behind and ahead of it.
PagesAreComplete ==
  /\ \A i, j \in 1..Len(shown) : i < j => Newer(shown[i], shown[j])
  /\ walk = "done" => present \subseteq {shown[i] : i \in 1..Len(shown)}

-----------------------------------------------------------------------------
(* Stronger than what the code does; the README tells how they fail *)

\* decisions.md: the command repairs the projection from the transfer rows; when
\* it is done, the row of every transfer is the expected one.
RebuiltMeansEqual ==
  phase = "done" => \A t \in Committed : row[t] = ExpectedRow(Current(t))

\* A client that follows the cursors is shown no transfer twice.
TransfersShownOnce ==
  \A i, j \in 1..Len(shown) : shown[i].transfer = shown[j].transfer => i = j
=============================================================================
