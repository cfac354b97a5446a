---------------------------- MODULE PayrollProofs ---------------------------
(***************************************************************************)
(* Theorems about the Payroll service, for every set of requests, workers  *)
(* and commands, every number of items and faults and every batch size.    *)
(*                                                                         *)
(* The inductive invariant has three parts.  TablesOK relates the tables   *)
(* to each other and to the transfers of Transaction.  RequestOK says what *)
(* a submission has established at each point where it waits, WorkerOK the *)
(* same for a worker: its job exists, the outcome it is about to store is  *)
(* backed by the transfer, the status it is about to write is what the     *)
(* items add up to, and while there was no fault it holds its lease.  All  *)
(* of it is about things that no step takes back (Grows), so that it still *)
(* holds for a worker that was overtaken.                                  *)
(***************************************************************************)
EXTENDS Payroll, FiniteSetTheorems, TLAPS

SubmitLabels == {"idle", "find", "validate", "insert", "replay", "enqueue", "markQueued", "done"}
WorkerLabels == {"idle", "read", "acquire", "mark", "findClaimed", "reclaim", "findPending", "claim",
                 "next", "call", "checkpoint", "finalize", "write", "release", "throw"}

Statuses == {"NONE", "PENDING", "QUEUED", "PROCESSING"} \cup Terminal
ItemStatuses == {"PENDING", "PROCESSING"} \cup Done
Entries == [state : {"none", "waiting", "active", "completed", "failed"},
            owner : Worker \cup {NoWorker}]

Transfers == [status : {"NONE", "PROCESSING"} \cup Done, paid : BOOLEAN]
Paid == [status |-> "COMPLETED", paid |-> TRUE]

\* A settled transfer stays settled, and one that is completed has been posted.
Moves(was, t) ==
  /\ t \in Transfers
  /\ was.status = "COMPLETED" => t = was
  /\ was.status = "FAILED" => t.status = "FAILED"
  /\ t.status = "COMPLETED" => t = Paid

\* An outcome that the transfer of an item justifies, now and later.
Settled(j, i, outcome) ==
  /\ outcome \in Done
  /\ outcome = "COMPLETED" => transfer[j][i] = Paid
  /\ outcome = "FAILED" => transfer[j][i].status = "FAILED" \/ i \in BadItems \/ <<j, i>> \in expired

\* Every item of job j is finished, and status st is what they add up to.
AddsUpTo(j, st) ==
  LET outcomes == {item[j][i].status : i \in Item} IN
  /\ outcomes \subseteq Done
  /\ st = IF outcomes = {"COMPLETED"} THEN "COMPLETED"
          ELSE IF outcomes = {"FAILED"} THEN "FAILED" ELSE "PARTIALLY_FAILED"

TableTypes ==
  /\ job \in [Request -> [status : Statuses, completed : Nat, failed : Nat]]
  /\ DOMAIN command = Request
  /\ item \in [Request -> [Item -> [status : ItemStatuses, token : Worker \cup {NoWorker}]]]
  /\ accepted \subseteq Request

\* A job was created from a command that passed the checks, once for its key.
CommandsOK ==
  /\ \A j \in Created : command[j] \in Command /\ command[j].payload \notin {"zero", "malformed"}
  /\ \A j, k \in Created : j # k =>
       command[j].employer # command[k].employer \/ command[j].key # command[k].key

\* Only jobs that exist are queued or scanned.
WorldOK ==
  /\ queue \in [Request -> Entries]
  /\ \A j \in Request : queue[j].state # "none" => j \in Created
  /\ lease \in [Employer -> Worker \cup {NoWorker}]
  /\ scan \subseteq Created /\ late \subseteq Request \X Item
  /\ faults \in 0..MaxFaults

ItemsOK ==
  /\ transfer \in [Request -> [Item -> Transfers]]
  /\ \A j \in Request, i \in Item :
       /\ i \in BadItems => transfer[j][i] = NoTransfer
       /\ transfer[j][i].status = "COMPLETED" => transfer[j][i] = Paid
       /\ item[j][i].status \in Done => Settled(j, i, item[j][i].status)

FinishedOK == \A j \in Request : job[j].status \in Terminal => AddsUpTo(j, job[j].status)

TablesOK == TableTypes /\ CommandsOK /\ WorldOK /\ ItemsOK /\ CountersMatchItems /\ FinishedOK

\* Types of the requests' and workers' own state.
LocalTypes ==
  /\ DOMAIN pc = Process /\ DOMAIN target = Process /\ DOMAIN seen = Process
  /\ DOMAIN cmd = Request /\ DOMAIN reply = Request
  /\ todo \in [Worker -> SUBSET Item] /\ batch \in [Worker -> SUBSET Item]
  /\ lost \subseteq Worker

RequestOK(r) ==
  /\ pc[r] \in SubmitLabels
  /\ pc[r] \notin {"idle", "done"} => cmd[r] \in Command /\ normalizeCommand(cmd[r])
  /\ pc[r] \in {"idle", "find", "validate", "insert"} => job[r].status = "NONE"
  /\ target[r] \in Created \cup {NoWorker}
  /\ pc[r] \in {"replay", "enqueue", "markQueued"} => target[r] \in Created
  /\ pc[r] = "replay" => seen[r] = "PENDING" \/ job[target[r]].status \notin {"NONE", "PENDING"}
  /\ pc[r] \in {"enqueue", "markQueued"} => command[target[r]] = cmd[r]
  /\ pc[r] # "done" => reply[r] = "none"
  /\ reply[r] = "202" => /\ target[r] \in Created /\ command[target[r]] = cmd[r]
                         /\ job[target[r]].status \notin {"NONE", "PENDING"}

WorkerOK(w) ==
  /\ pc[w] \in WorkerLabels
  /\ target[w] \in Created \cup {NoWorker}
  /\ pc[w] # "idle" => target[w] \in Created
  /\ pc[w] \in {"call", "checkpoint"} => batch[w] # {}
  /\ pc[w] = "checkpoint" => Settled(target[w], Current(w), seen[w])
  /\ pc[w] = "write" => seen[w] \in Terminal /\ AddsUpTo(target[w], seen[w])
  /\ faults = 0 /\ Inside(w) => HoldsLease(w)

IInv ==
  /\ TablesOK /\ LocalTypes
  /\ \A r \in Request : RequestOK(r)
  /\ \A w \in Worker : WorkerOK(w)

-----------------------------------------------------------------------------
(* What no step takes back, and what the step of some processes leaves alone *)

Grows(S) ==
  /\ faults' \in 0..MaxFaults /\ faults <= faults'
  /\ \A j \in Created : command'[j] = command[j]
  /\ \A j \in Request :
       /\ job[j].status # "NONE" => job'[j].status # "NONE"
       /\ job[j].status \notin {"NONE", "PENDING"} => job'[j].status \notin {"NONE", "PENDING"}
       /\ job[j].status \in {"PROCESSING"} \cup Terminal =>
            job'[j].status \in {"PROCESSING"} \cup Terminal
       /\ j \notin S /\ job[j].status = "NONE" => job'[j].status = "NONE"
  /\ \A j \in Request, i \in Item :
       /\ item[j][i].status \in Done => item'[j][i] = item[j][i]
       /\ transfer[j][i].status = "COMPLETED" => transfer'[j][i] = transfer[j][i]
       /\ transfer[j][i].status = "FAILED" => transfer'[j][i].status = "FAILED"
  /\ expired \subseteq expired'
  /\ \A x \in Worker \ S : faults' = 0 /\ Inside(x) /\ HoldsLease(x) =>
       lease'[EmployerOf(target[x])] = x

OnlyMoves(S) ==
  /\ LocalTypes'
  /\ \A q \in Process \ S : pc'[q] = pc[q] /\ target'[q] = target[q] /\ seen'[q] = seen[q]
  /\ \A q \in Request \ S : cmd'[q] = cmd[q] /\ reply'[q] = reply[q]
  /\ \A x \in Worker \ S : batch'[x] = batch[x]

\* The step formula of ProgressIsKept.
Kept ==
  \A j \in Request :
    /\ \A i \in Item : item[j][i].status \in Done => item'[j][i] = item[j][i]
    /\ job[j].status \in {"PROCESSING"} \cup Terminal =>
         job'[j].status \in {"PROCESSING"} \cup Terminal

\* Jobs stay created.
LEMMA CreatedGrows ==
  ASSUME NEW S, Grows(S)
  PROVE  Created \subseteq Created'
  BY DEF Grows, Created

\* Outcomes stay justified, and finished jobs stay finished.
LEMMA SettledStays ==
  ASSUME NEW S, Grows(S), NEW j \in Request, NEW i \in Item, NEW outcome, Settled(j, i, outcome)
  PROVE  Settled(j, i, outcome)'
  BY DEF Settled, Grows, Done, Paid

\* Finished items keep their status, so that what they add up to stays.
LEMMA AddsUpToStays ==
  ASSUME NEW S, Grows(S), NEW j \in Request, NEW st, AddsUpTo(j, st)
  PROVE  AddsUpTo(j, st)'
  <1>1. \A i \in Item : item[j][i].status \in Done
    BY DEF AddsUpTo
  <1>2. \A i \in Item : item'[j][i].status = item[j][i].status
    BY <1>1 DEF Grows
  <1>3. {item[j][i].status : i \in Item} = {item'[j][i].status : i \in Item}
    BY <1>2
  <1> QED
    BY <1>3 DEF AddsUpTo

\* What a submission relies on survives the steps of others.
LEMMA OtherRequest ==
  ASSUME IInv, NEW S, Grows(S), OnlyMoves(S), NEW q \in Request \ S
  PROVE  RequestOK(q)'
  <1>1. RequestOK(q)
    BY DEF IInv
  <1>2. /\ pc'[q] = pc[q] /\ target'[q] = target[q] /\ seen'[q] = seen[q]
        /\ cmd'[q] = cmd[q] /\ reply'[q] = reply[q]
    BY DEF OnlyMoves, Process
  <1>3. Created \subseteq Created'
    BY CreatedGrows
  <1>4. target[q] \in Created =>
          /\ command'[target[q]] = command[target[q]]
          /\ (job[target[q]].status \notin {"NONE", "PENDING"} =>
                job'[target[q]].status \notin {"NONE", "PENDING"})
    BY DEF Grows, Created
  <1>5. job[q].status = "NONE" => job'[q].status = "NONE"
    BY DEF Grows
  <1> QED
    BY <1>1, <1>2, <1>3, <1>4, <1>5 DEF RequestOK, normalizeCommand

\* Item i of a worker's batch is an item.
LEMMA LeastItem ==
  ASSUME NEW T \in SUBSET Item, T # {}
  PROVE  First(T) \in T /\ First(T) \in Item
  <1> DEFINE R == {ss \in Nat \X Nat : ss[1] < ss[2]}
  <1>1. T \subseteq Nat
    BY ItemsAssumption DEF Item
  <1>2. IsWellFoundedOn(R, Nat)
    BY NatLessThanWellFounded, Zenon DEF OpToRel
  <1>3. PICK x \in T : \A y \in T : ~ (<<y, x>> \in R)
    <2> HIDE DEF R
    <2> QED
      BY <1>1, <1>2, WFMin, Zenon
  <1>4. \A y \in T : x <= y
    <2> TAKE y \in T
    <2>1. x \in Nat /\ y \in Nat
      BY <1>1
    <2>2. y < x => <<y, x>> \in R
      BY <2>1
    <2> QED
      BY <1>3, <2>1, <2>2
  <1> QED
    BY <1>4 DEF First

\* What a worker relies on survives the steps of others, even if it was overtaken.
LEMMA OtherWorker ==
  ASSUME IInv, NEW S, Grows(S), OnlyMoves(S), NEW x \in Worker \ S
  PROVE  WorkerOK(x)'
  <1>1. WorkerOK(x) /\ faults \in Nat /\ batch[x] \in SUBSET Item
    BY DEF IInv, TablesOK, WorldOK, LocalTypes
  <1>2. /\ pc'[x] = pc[x] /\ target'[x] = target[x] /\ seen'[x] = seen[x]
        /\ batch'[x] = batch[x]
    BY DEF OnlyMoves, Process
  <1>3. Created \subseteq Created'
    BY CreatedGrows
  <1>4. pc[x] = "checkpoint" => Settled(target[x], Current(x), seen[x])'
    <2> SUFFICES ASSUME pc[x] = "checkpoint" PROVE Settled(target[x], Current(x), seen[x])'
      OBVIOUS
    <2>1. PICK j \in Request : j = target[x]
      BY <1>1 DEF WorkerOK, Created
    <2>2. PICK i \in Item : i = Current(x)
      BY <1>1, LeastItem DEF WorkerOK, Current
    <2>3. PICK outcome : outcome = seen[x]
      OBVIOUS
    <2>4. Settled(j, i, outcome)
      BY <1>1, <2>1, <2>2, <2>3 DEF WorkerOK
    <2>5. Settled(j, i, outcome)'
      BY <2>4, SettledStays
    <2>6. target'[x] = j /\ Current(x)' = i /\ seen'[x] = outcome
      BY <1>2, <2>1, <2>2, <2>3 DEF Current
    <2> QED
      BY <2>5, <2>6 DEF Settled
  <1>5. pc[x] = "write" => AddsUpTo(target[x], seen[x])'
    <2> SUFFICES ASSUME pc[x] = "write" PROVE AddsUpTo(target[x], seen[x])'
      OBVIOUS
    <2>1. PICK j \in Request : j = target[x]
      BY <1>1 DEF WorkerOK, Created
    <2>2. PICK outcome : outcome = seen[x]
      OBVIOUS
    <2>3. AddsUpTo(j, outcome)'
      BY <1>1, <2>1, <2>2, AddsUpToStays DEF WorkerOK
    <2> QED
      BY <1>2, <2>1, <2>2, <2>3 DEF AddsUpTo
  <1>6. faults' = 0 /\ Inside(x)' => HoldsLease(x)'
    <2> SUFFICES ASSUME faults' = 0, Inside(x)' PROVE HoldsLease(x)'
      OBVIOUS
    <2>1. faults = 0 /\ Inside(x)
      BY <1>1, <1>2 DEF Grows, Inside
    <2>2. target[x] \in Created /\ HoldsLease(x)
      BY <1>1, <2>1 DEF WorkerOK, Inside
    <2>3. lease'[EmployerOf(target[x])] = x
      BY <2>1, <2>2 DEF Grows
    <2>4. command'[target'[x]] = command[target[x]]
      BY <1>2, <2>2 DEF Grows
    <2> QED
      BY <2>3, <2>4 DEF HoldsLease, EmployerOf
  <1> QED
    BY <1>1, <1>2, <1>3, <1>4, <1>5, <1>6 DEF WorkerOK

\* The pattern of every step.
LEMMA ProcessStep ==
  ASSUME IInv, NEW S, TablesOK', Grows(S), OnlyMoves(S),
         \A r \in Request \cap S : RequestOK(r)', \A w \in Worker \cap S : WorkerOK(w)'
  PROVE  IInv' /\ Kept
  <1>1. \A q \in Request \ S : RequestOK(q)'
    BY OtherRequest
  <1>2. \A x \in Worker \ S : WorkerOK(x)'
    BY OtherWorker
  <1>3. \A q \in Request : RequestOK(q)'
    BY <1>1
  <1>4. \A x \in Worker : WorkerOK(x)'
    BY <1>2
  <1>5. Kept
    BY DEF Kept, Grows
  <1> QED
    BY <1>3, <1>4, <1>5 DEF IInv, OnlyMoves

\* The parts of the invariant that most steps need.
LEMMA Parts ==
  ASSUME IInv
  PROVE  /\ TableTypes /\ CommandsOK /\ WorldOK /\ ItemsOK /\ CountersMatchItems /\ FinishedOK
         /\ LocalTypes /\ faults \in Nat
         /\ \A r \in Request : RequestOK(r) /\ r \notin Worker /\ r \in Process
         /\ \A w \in Worker : WorkerOK(w) /\ w \notin Request /\ w \in Process
  BY ProcessAssumption DEF IInv, TablesOK, WorldOK, Process

\* A step with or without a fault.
LEMMA FaultFacts ==
  ASSUME IInv, Fault \/ UNCHANGED faults
  PROVE  /\ faults' \in 0..MaxFaults /\ faults <= faults'
         /\ Fault => faults' # 0
  BY FaultsAssumption DEF IInv, TablesOK, WorldOK, Fault

\* A step that changes no table and no lease takes nothing back.
LEMMA Frame ==
  ASSUME IInv, UNCHANGED <<job, command, item, transfer, lease>>, expired \subseteq expired',
         Fault \/ UNCHANGED faults, NEW S
  PROVE  Grows(S)
  BY FaultFacts DEF Grows, HoldsLease

\* A job is finished in order if it was so before, or is given the status that its
\* finished items add up to.
LEMMA FinishedStays ==
  ASSUME IInv, NEW S, Grows(S),
         \A j \in Request, st \in Terminal :
           job'[j].status = st => job[j].status = st \/ AddsUpTo(j, st)
  PROVE  FinishedOK'
  <1> SUFFICES ASSUME NEW j \in Request, job'[j].status \in Terminal
               PROVE  AddsUpTo(j, job[j].status)'
    BY DEF FinishedOK
  <1>1. PICK st \in Terminal : st = job'[j].status
    OBVIOUS
  <1>2. AddsUpTo(j, st)
    BY <1>1, Parts DEF FinishedOK
  <1>3. AddsUpTo(j, st)'
    BY <1>2, AddsUpToStays
  <1> QED
    BY <1>1, <1>3 DEF AddsUpTo

\* Counters that do not change still count items that do not change.
LEMMA CountersSame ==
  ASSUME IInv, UNCHANGED item,
         \A j \in Request : job'[j].completed = job[j].completed /\ job'[j].failed = job[j].failed
  PROVE  CountersMatchItems'
  <1> SUFFICES ASSUME NEW j \in Request
               PROVE  /\ job'[j].completed = Cardinality({i \in Item : item[j][i].status = "COMPLETED"})'
                      /\ job'[j].failed = Cardinality({i \in Item : item[j][i].status = "FAILED"})'
    BY DEF CountersMatchItems
  <1>1. /\ job[j].completed = Cardinality({i \in Item : item[j][i].status = "COMPLETED"})
        /\ job[j].failed = Cardinality({i \in Item : item[j][i].status = "FAILED"})
    BY Parts DEF CountersMatchItems
  <1> QED
    BY <1>1

\* A step that changes only what is outside the tables keeps them in order.
LEMMA WorldTables ==
  ASSUME IInv, NEW S, Grows(S), UNCHANGED tables, UNCHANGED transfer, expired \subseteq expired', WorldOK'
  PROVE  TablesOK'
  <1>1. TableTypes' /\ CommandsOK'
    BY DEF IInv, TablesOK, TableTypes, CommandsOK, Created, tables
  <1>2. ItemsOK'
    BY DEF IInv, TablesOK, ItemsOK, Settled, tables
  <1>3. CountersMatchItems'
    BY DEF IInv, TablesOK, CountersMatchItems, tables
  <1>4. FinishedOK'
    BY FinishedStays DEF tables
  <1> QED
    BY <1>1, <1>2, <1>3, <1>4 DEF TablesOK

\* What is outside stays in order when only faults and what follows change.
LEMMA WorldSame ==
  ASSUME IInv, UNCHANGED job, Fault \/ UNCHANGED faults,
         queue' \in [Request -> Entries], \A j \in Request : queue'[j].state # "none" => j \in Created,
         lease' \in [Employer -> Worker \cup {NoWorker}],
         scan' \subseteq Created, late' \subseteq Request \X Item
  PROVE  WorldOK'
  BY FaultFacts DEF WorldOK, Created

\* A step that changes the world outside, but no table and no transfer.
LEMMA WorldStep ==
  ASSUME IInv, NEW S, Grows(S), UNCHANGED <<tables, transfer>>, Fault \/ UNCHANGED faults,
         queue' \in [Request -> Entries], \A j \in Request : queue'[j].state # "none" => j \in Created,
         lease' \in [Employer -> Worker \cup {NoWorker}],
         scan' \subseteq Created, late' \subseteq Request \X Item, OnlyMoves(S),
         \A r \in Request \cap S : RequestOK(r)', \A w \in Worker \cap S : WorkerOK(w)'
  PROVE  IInv' /\ Kept
  <1>1. WorldOK'
    BY WorldSame DEF tables
  <1>2. TablesOK'
    BY <1>1, WorldTables DEF Grows
  <1> QED
    BY <1>2, ProcessStep

\* A step of some requests or workers that changes nothing but their own state.
LEMMA LocalStep ==
  ASSUME IInv, NEW S, UNCHANGED <<tables, world>>, Fault \/ UNCHANGED faults, OnlyMoves(S),
         \A r \in Request \cap S : RequestOK(r)', \A w \in Worker \cap S : WorkerOK(w)'
  PROVE  IInv' /\ Kept
  <1>1. Grows(S)
    BY Frame DEF tables, world
  <1>2. /\ queue' \in [Request -> Entries] /\ \A j \in Request : queue'[j].state # "none" => j \in Created
        /\ lease' \in [Employer -> Worker \cup {NoWorker}]
        /\ scan' \subseteq Created /\ late' \subseteq Request \X Item
    BY Parts DEF WorldOK, world
  <1> QED
    BY <1>1, <1>2, WorldStep DEF world

\* The status of a job moves on, to a final one only if its items add up to it.
LEMMA StatusTables ==
  ASSUME IInv, NEW S, NEW t \in Created, NEW st \in Statuses \ {"NONE", "PENDING"},
         job[t].status \in {"PROCESSING"} \cup Terminal => st \in {"PROCESSING"} \cup Terminal,
         st \in Terminal => AddsUpTo(t, st),
         job' = SetStatus(t, st), accepted' \subseteq Request, UNCHANGED <<command, item, world, faults>>
  PROVE  TablesOK' /\ Grows(S) /\ Created' = Created /\ job'[t].status = st
  <1>1. /\ job' \in [Request -> [status : Statuses, completed : Nat, failed : Nat]]
        /\ job'[t].status = st
        /\ \A j \in Request : job'[j].completed = job[j].completed /\ job'[j].failed = job[j].failed
        /\ \A j \in Request \ {t} : job'[j] = job[j]
    BY Parts DEF TableTypes, SetStatus, Created
  <1>2. t \in Request /\ job[t].status # "NONE" /\ Created' = Created
    BY <1>1 DEF Created
  <1>3. TableTypes' /\ CommandsOK'
    BY <1>1, <1>2, Parts DEF TableTypes, CommandsOK
  <1>4. WorldOK'
    BY <1>2, Parts DEF WorldOK, world
  <1>5. ItemsOK'
    BY Parts DEF ItemsOK, Settled, world
  <1>6. CountersMatchItems'
    BY <1>1, CountersSame
  <1>7. Grows(S)
    <2>1. faults' \in 0..MaxFaults /\ faults <= faults'
      BY FaultFacts
    <2> QED
      BY <1>1, <1>2, <2>1 DEF Grows, HoldsLease, world
  <1>8. FinishedOK'
    BY <1>1, <1>7, FinishedStays
  <1> QED
    BY <1>1, <1>2, <1>3, <1>4, <1>5, <1>6, <1>7, <1>8 DEF TablesOK

-----------------------------------------------------------------------------
(* Submissions *)

\* A submission goes on, and no other.
LEMMA RequestGo ==
  ASSUME IInv, NEW r \in Request, NEW label, Go(r, label), UNCHANGED <<client, target, seen, worker>>
  PROVE  OnlyMoves({r}) /\ pc'[r] = label
  BY Parts DEF Go, OnlyMoves, LocalTypes, client, worker

\* A submission is answered, and no other.
LEMMA RequestAnswer ==
  ASSUME IInv, NEW r \in Request, NEW code, Answer(r, code), UNCHANGED <<cmd, target, seen, worker>>
  PROVE  OnlyMoves({r}) /\ pc'[r] = "done" /\ reply'[r] = code
  BY Parts DEF Answer, Go, OnlyMoves, LocalTypes, worker

\* An answer that does not accept the submission.
LEMMA RefusedOK ==
  ASSUME IInv, NEW r \in Request, NEW code, code # "202", Answer(r, code),
         UNCHANGED <<job, cmd, target, seen, worker>>
  PROVE  OnlyMoves({r}) /\ RequestOK(r)'
  <1>1. OnlyMoves({r}) /\ pc'[r] = "done" /\ reply'[r] = code
    BY RequestAnswer
  <1>2. RequestOK(r)'
    BY <1>1, Parts DEF RequestOK, SubmitLabels, Created
  <1> QED
    BY <1>1, <1>2

\* Such an answer keeps the invariant.
LEMMA RefusedInv ==
  ASSUME IInv, NEW r \in Request, NEW code, code # "202", Answer(r, code),
         UNCHANGED <<tables, world, cmd, target, seen, worker>>, Fault \/ UNCHANGED faults
  PROVE  IInv' /\ Kept
  <1>1. OnlyMoves({r}) /\ RequestOK(r)'
    BY RefusedOK DEF tables
  <1>2. \A w \in Worker \cap {r} : WorkerOK(w)'
    BY Parts
  <1> QED
    BY <1>1, <1>2, LocalStep

\* A body that passed validateIdempotencyKey and normalizeCommand is looked up.
LEMMA ReceiveInv ==
  ASSUME IInv, NEW r \in Request, NEW c \in Command, Receive(r, c)
  PROVE  IInv' /\ Kept
  <1>1. /\ LocalTypes /\ RequestOK(r) /\ pc[r] = "idle" /\ r \in Process /\ r \notin Worker
        /\ UNCHANGED <<tables, world, target, seen, worker, faults>>
    BY Parts DEF Receive
  <1>2. /\ DOMAIN cmd' = Request /\ cmd'[r] = c
        /\ \A q \in Request \ {r} : cmd'[q] = cmd[q]
    BY <1>1 DEF Receive, LocalTypes
  <1>3. CASE normalizeCommand(c) /\ Go(r, "find") /\ UNCHANGED reply
    <2>1. OnlyMoves({r}) /\ pc'[r] = "find"
      BY <1>1, <1>2, <1>3 DEF Go, OnlyMoves, LocalTypes, worker
    <2>2. RequestOK(r)'
      BY <1>1, <1>2, <1>3, <2>1 DEF RequestOK, SubmitLabels, Created, tables
    <2> QED
      BY <1>1, <2>1, <2>2, LocalStep
  <1>4. CASE Answer(r, "400")
    <2>1. OnlyMoves({r}) /\ pc'[r] = "done" /\ reply'[r] = "400"
      BY <1>1, <1>2, <1>4 DEF Answer, Go, OnlyMoves, LocalTypes, worker
    <2>2. RequestOK(r)'
      BY <1>1, <2>1 DEF RequestOK, SubmitLabels, Created, tables
    <2> QED
      BY <1>1, <2>1, <2>2, LocalStep
  <1> QED
    BY <1>3, <1>4 DEF Receive

\* The job of a record that was read exists, and its status only moves on.
LEMMA FindRecordInv ==
  ASSUME IInv, NEW r \in Request, FindRecord(r)
  PROVE  IInv' /\ Kept
  <1>1. /\ LocalTypes /\ RequestOK(r) /\ pc[r] = "find" /\ r \in Process /\ r \notin Worker
        /\ UNCHANGED <<tables, world, client, worker, faults>>
    BY Parts DEF FindRecord
  <1>2. CASE Go(r, "validate") /\ UNCHANGED <<target, seen>>
    <2>1. OnlyMoves({r}) /\ pc'[r] = "validate"
      BY <1>1, <1>2, RequestGo
    <2>2. RequestOK(r)'
      BY <1>1, <1>2, <2>1 DEF RequestOK, SubmitLabels, Created, tables, client
    <2> QED
      BY <1>1, <2>1, <2>2, LocalStep
  <1>3. ASSUME NEW j \in WithKey(cmd[r]), target' = [target EXCEPT ![r] = j],
               seen' = [seen EXCEPT ![r] = job[j].status], Go(r, "replay")
        PROVE  IInv' /\ Kept
    <2>1. j \in Created /\ job[j].status # "NONE"
      BY <1>3 DEF WithKey, Created
    <2>2. /\ DOMAIN target' = Process /\ target'[r] = j /\ DOMAIN seen' = Process
          /\ seen'[r] = job[j].status
          /\ \A q \in Process \ {r} : target'[q] = target[q] /\ seen'[q] = seen[q]
      BY <1>1, <1>3 DEF LocalTypes
    <2>3. DOMAIN pc' = Process /\ pc'[r] = "replay" /\ \A q \in Process \ {r} : pc'[q] = pc[q]
      BY <1>1, <1>3 DEF LocalTypes, Go
    <2>4. OnlyMoves({r})
      BY <1>1, <2>2, <2>3 DEF OnlyMoves, LocalTypes, client, worker
    <2>5. RequestOK(r)'
      BY <1>1, <2>1, <2>2, <2>3 DEF RequestOK, SubmitLabels, Created, tables, client
    <2> QED
      BY <1>1, <2>4, <2>5, LocalStep
  <1> QED
    BY <1>2, <1>3 DEF FindRecord

\* The wallet check changes no table.
LEMMA ValidateInv ==
  ASSUME IInv, NEW r \in Request, ValidateSourceWallet(r)
  PROVE  IInv' /\ Kept
  <1>1. /\ RequestOK(r) /\ pc[r] = "validate" /\ r \notin Worker
        /\ UNCHANGED <<tables, world, cmd, target, seen, worker>>
    BY Parts DEF ValidateSourceWallet
  <1>2. CASE Go(r, "insert") /\ UNCHANGED <<reply, faults>>
    <2>1. OnlyMoves({r}) /\ pc'[r] = "insert"
      BY <1>1, <1>2, RequestGo DEF client
    <2>2. RequestOK(r)'
      BY <1>1, <1>2, <2>1 DEF RequestOK, SubmitLabels, Created, tables
    <2> QED
      BY <1>1, <1>2, <2>1, <2>2, LocalStep
  <1>3. CASE \E code \in {"403", "503"} : Answer(r, code) /\ (Fault \/ UNCHANGED faults)
    BY <1>1, <1>3, RefusedInv
  <1> QED
    BY <1>2, <1>3 DEF ValidateSourceWallet

\* The new job has a key of its own, no counted item and no queue entry.
LEMMA InsertTables ==
  ASSUME IInv, NEW r \in Request, NEW c \in Command, c.payload \notin {"zero", "malformed"},
         job[r].status = "NONE", WithKey(c) = {},
         job' = SetStatus(r, "PENDING"), command' = [command EXCEPT ![r] = c],
         UNCHANGED <<item, accepted, world, faults>>
  PROVE  /\ TablesOK' /\ Grows({r}) /\ Created' = Created \cup {r} /\ command'[r] = c
  <1>1. /\ job' \in [Request -> [status : Statuses, completed : Nat, failed : Nat]]
        /\ job'[r].status = "PENDING"
        /\ \A j \in Request : job'[j].completed = job[j].completed /\ job'[j].failed = job[j].failed
        /\ \A j \in Request \ {r} : job'[j] = job[j]
    BY Parts DEF TableTypes, SetStatus, Statuses
  <1>2. /\ DOMAIN command' = Request /\ command'[r] = c
        /\ \A j \in Request \ {r} : command'[j] = command[j]
    BY Parts DEF TableTypes
  <1>3. Created' = Created \cup {r} /\ r \notin Created
    BY <1>1 DEF Created
  <1>4. TableTypes'
    BY <1>1, <1>2, Parts DEF TableTypes
  <1>5. CommandsOK'
    <2>1. \A j \in Created : j # r /\ command'[j] = command[j]
      BY <1>2, <1>3 DEF Created
    <2>2. \A j \in Created : command[j].employer # c.employer \/ command[j].key # c.key
      BY DEF WithKey
    <2> QED
      BY <1>2, <1>3, <2>1, <2>2, Parts DEF CommandsOK
  <1>6. WorldOK'
    BY <1>3, Parts DEF WorldOK, world
  <1>7. ItemsOK'
    BY Parts DEF ItemsOK, Settled, world
  <1>8. CountersMatchItems'
    BY <1>1, CountersSame
  <1>9. Grows({r})
    <2>1. faults' \in 0..MaxFaults /\ faults <= faults'
      BY FaultFacts
    <2>2. \A j \in Created : command'[j] = command[j]
      BY <1>2, <1>3 DEF Created
    <2> QED
      BY <1>1, <2>1, <2>2 DEF Grows, Terminal, HoldsLease, world
  <1>10. FinishedOK'
    BY <1>1, <1>9, FinishedStays DEF Terminal
  <1> QED
    BY <1>2, <1>3, <1>4, <1>5, <1>6, <1>7, <1>8, <1>9, <1>10 DEF TablesOK

\* The request that inserts has a job of its own; one that lost looks again.
LEMMA InsertInv ==
  ASSUME IInv, NEW r \in Request, Insert(r)
  PROVE  IInv' /\ Kept
  <1>1. /\ LocalTypes /\ RequestOK(r) /\ pc[r] = "insert" /\ r \in Process /\ r \notin Worker
        /\ AmountCheck(cmd[r])
        /\ UNCHANGED <<item, accepted, world, client, seen, worker, faults>>
    BY Parts DEF Insert
  <1>2. CASE Go(r, "find") /\ UNCHANGED <<job, command, target>>
    <2>1. OnlyMoves({r}) /\ pc'[r] = "find"
      BY <1>1, <1>2, RequestGo
    <2>2. RequestOK(r)'
      BY <1>1, <1>2, <2>1 DEF RequestOK, SubmitLabels, Created, client
    <2> QED
      BY <1>1, <1>2, <2>1, <2>2, LocalStep DEF tables
  <1>3. CASE /\ WithKey(cmd[r]) = {} /\ job' = SetStatus(r, "PENDING")
             /\ command' = [command EXCEPT ![r] = cmd[r]]
             /\ target' = [target EXCEPT ![r] = r] /\ Go(r, "enqueue")
    <2>1. /\ cmd[r] \in Command /\ cmd[r].payload \notin {"zero", "malformed"}
          /\ job[r].status = "NONE" /\ reply[r] = "none"
      BY <1>1 DEF RequestOK, AmountCheck, normalizeCommand
    <2>2. TablesOK' /\ Grows({r}) /\ Created' = Created \cup {r} /\ command'[r] = cmd[r]
      BY <1>1, <1>3, <2>1, InsertTables
    <2>3. /\ DOMAIN target' = Process /\ target'[r] = r
          /\ \A q \in Process \ {r} : target'[q] = target[q]
      BY <1>1, <1>3 DEF LocalTypes
    <2>4. DOMAIN pc' = Process /\ pc'[r] = "enqueue" /\ \A q \in Process \ {r} : pc'[q] = pc[q]
      BY <1>1, <1>3 DEF LocalTypes, Go
    <2>5. OnlyMoves({r})
      BY <1>1, <2>3, <2>4 DEF OnlyMoves, LocalTypes, client, worker
    <2>6. RequestOK(r)'
      BY <1>1, <2>1, <2>2, <2>3, <2>4 DEF RequestOK, SubmitLabels, client
    <2> QED
      BY <1>1, <2>2, <2>5, <2>6, ProcessStep
  <1> QED
    BY <1>2, <1>3 DEF Insert

\* A replay is accepted for the same body and a job that was queued by then.
LEMMA ReplayInv ==
  ASSUME IInv, NEW r \in Request, Replay(r)
  PROVE  IInv' /\ Kept
  <1>1. /\ RequestOK(r) /\ pc[r] = "replay" /\ r \notin Worker
        /\ UNCHANGED <<tables, world, cmd, target, seen, worker, faults>>
    BY Parts DEF Replay
  <1>2. CASE Answer(r, "409")
    BY <1>1, <1>2, RefusedInv
  <1>3. CASE command[target[r]] = cmd[r] /\ Go(r, "enqueue") /\ UNCHANGED reply
    <2>1. OnlyMoves({r}) /\ pc'[r] = "enqueue"
      BY <1>1, <1>3, RequestGo DEF client
    <2>2. RequestOK(r)'
      BY <1>1, <1>3, <2>1 DEF RequestOK, SubmitLabels, Created, tables
    <2> QED
      BY <1>1, <2>1, <2>2, LocalStep
  <1>4. CASE command[target[r]] = cmd[r] /\ seen[r] # "PENDING" /\ Answer(r, "202")
    <2>1. OnlyMoves({r}) /\ pc'[r] = "done" /\ reply'[r] = "202"
      BY <1>1, <1>4, RequestAnswer
    <2>2. RequestOK(r)'
      BY <1>1, <1>4, <2>1 DEF RequestOK, SubmitLabels, Created, tables
    <2> QED
      BY <1>1, <2>1, <2>2, LocalStep
  <1> QED
    BY <1>2, <1>3, <1>4 DEF Replay

\* Items that the database refuses leave no job behind.
LEMMA InsertRefusedInv ==
  ASSUME IInv, NEW r \in Request, InsertRefused(r)
  PROVE  IInv' /\ Kept
  BY RefusedInv DEF InsertRefused

\* A submission that dies leaves a job that the scan can find, or none.
LEMMA SubmitCrashInv ==
  ASSUME IInv, NEW r \in Request, SubmitCrash(r)
  PROVE  IInv' /\ Kept
  BY RefusedInv DEF SubmitCrash

\* Only a job that exists is enqueued.
LEMMA EnqueuedFacts ==
  ASSUME IInv, NEW t \in Created, NEW q, q = Enqueued(t) \/ q \in HalfEnqueued(t)
  PROVE  q \in [Request -> Entries] /\ \A j \in Request : q[j].state # "none" => j \in Created
  <1>1. queue \in [Request -> Entries] /\ \A j \in Request : queue[j].state # "none" => j \in Created
    BY Parts DEF WorldOK
  <1>2. t \in Request
    BY DEF Created
  <1>3. PICK e \in Entries : q = queue \/ q = [queue EXCEPT ![t] = e]
    <2>1. [state |-> "waiting", owner |-> NoWorker] \in Entries /\ NoEntry \in Entries
      BY DEF Entries, NoEntry
    <2> QED
      BY <2>1 DEF Enqueued, HalfEnqueued
  <1> QED
    BY <1>1, <1>2, <1>3

\* Enqueueing, even half of it, concerns a job that exists.
LEMMA EnqueueInv ==
  ASSUME IInv, NEW r \in Request, Enqueue(r)
  PROVE  IInv' /\ Kept
  <1>1. /\ RequestOK(r) /\ pc[r] = "enqueue" /\ target[r] \in Created /\ r \notin Worker
        /\ UNCHANGED <<tables, lease, transfer, expired, late, scan, cmd, target, seen, worker>>
        /\ Fault \/ UNCHANGED faults
        /\ queue' = Enqueued(target[r]) \/ queue' \in HalfEnqueued(target[r])
    BY Parts DEF Enqueue, RequestOK
  <1>2. Grows({r})
    BY <1>1, Frame DEF tables
  <1>3. queue' \in [Request -> Entries] /\ \A j \in Request : queue'[j].state # "none" => j \in Created
    BY <1>1, EnqueuedFacts
  <1>4. /\ lease' \in [Employer -> Worker \cup {NoWorker}]
        /\ scan' \subseteq Created /\ late' \subseteq Request \X Item
    BY <1>1, Parts DEF WorldOK
  <1>5. OnlyMoves({r}) /\ RequestOK(r)'
    <2>1. CASE Go(r, "markQueued") /\ UNCHANGED reply
      <3>1. OnlyMoves({r}) /\ pc'[r] = "markQueued"
        BY <1>1, <2>1, RequestGo DEF client
      <3> QED
        BY <1>1, <2>1, <3>1 DEF RequestOK, SubmitLabels, Created, tables
    <2>2. CASE Answer(r, "503")
      BY <1>1, <2>2, RefusedOK DEF tables
    <2> QED
      BY <2>1, <2>2 DEF Enqueue
  <1> QED
    BY <1>1, <1>2, <1>3, <1>4, <1>5, WorldStep

\* The late half of ensureEnqueued does not set back a job that was started.
LEMMA MarkQueuedInv ==
  ASSUME IInv, NEW r \in Request, MarkQueued(r)
  PROVE  IInv' /\ Kept
  <1>1. /\ RequestOK(r) /\ pc[r] = "markQueued" /\ target[r] \in Created /\ r \notin Worker
        /\ command[target[r]] = cmd[r] /\ Answer(r, "202")
        /\ UNCHANGED <<command, item, world, cmd, target, seen, worker, faults>>
    BY Parts DEF MarkQueued, RequestOK
  <1>2. PICK t \in Created : t = target[r]
    BY <1>1
  <1>3. accepted' \subseteq Request
    BY <1>2, Parts DEF MarkQueued, Created, TableTypes
  <1>4. job[t].status \in Statuses /\ job[t].status # "NONE"
    BY <1>2, Parts DEF Created, TableTypes
  <1>5. PICK st \in Statuses \ {"NONE", "PENDING"} :
          /\ job' = SetStatus(t, st)
          /\ st = job[t].status \/ (st = "QUEUED" /\ job[t].status \in {"PENDING", "QUEUED"})
    <2>1. CASE job[t].status \in {"PENDING", "QUEUED"}
      BY <1>2, <2>1 DEF MarkQueued, Statuses
    <2>2. CASE job[t].status \notin {"PENDING", "QUEUED"}
      <3>1. job' = job
        BY <1>2, <2>2 DEF MarkQueued
      <3>2. job = SetStatus(t, job[t].status)
        BY <1>2, Parts DEF SetStatus, TableTypes, Created
      <3> QED
        BY <1>4, <2>2, <3>1, <3>2
    <2> QED
      BY <2>1, <2>2
  <1>6. /\ job[t].status \in {"PROCESSING"} \cup Terminal => st \in {"PROCESSING"} \cup Terminal
        /\ st \in Terminal => st = job[t].status
    BY <1>5 DEF Terminal
  <1>7. st \in Terminal => AddsUpTo(t, st)
    BY <1>6, <1>2, Parts DEF FinishedOK, Created
  <1>8. TablesOK' /\ Grows({r}) /\ Created' = Created /\ job'[t].status = st
    BY <1>1, <1>3, <1>5, <1>6, <1>7, StatusTables
  <1>9. OnlyMoves({r}) /\ pc'[r] = "done" /\ reply'[r] = "202"
    BY <1>1, RequestAnswer
  <1>10. RequestOK(r)'
    BY <1>1, <1>2, <1>5, <1>8, <1>9 DEF RequestOK, SubmitLabels
  <1> QED
    BY <1>1, <1>8, <1>9, <1>10, ProcessStep

-----------------------------------------------------------------------------
(* Tables that workers change *)

\* An unfinished item is claimed under a new token.
LEMMA ClaimTables ==
  ASSUME IInv, NEW S, NEW t \in Request, NEW i \in Item, NEW w \in Worker,
         item[t][i].status \notin Done,
         item' = [item EXCEPT ![t][i] = [status |-> "PROCESSING", token |-> w]],
         UNCHANGED <<job, command, accepted, world, faults>>
  PROVE  TablesOK' /\ Grows(S)
  <1>1. /\ item' \in [Request -> [Item -> [status : ItemStatuses, token : Worker \cup {NoWorker}]]]
        /\ item'[t][i].status = "PROCESSING"
        /\ \A j \in Request, k \in Item : j # t \/ k # i => item'[j][k] = item[j][k]
    BY Parts DEF TableTypes, ItemStatuses
  <1>2. TableTypes' /\ CommandsOK'
    BY <1>1, Parts DEF TableTypes, CommandsOK, Created
  <1>3. WorldOK'
    BY Parts DEF WorldOK, world, Created
  <1>4. \A j \in Request, k \in Item :
          item'[j][k].status \in Done => item[j][k].status = item'[j][k].status
    BY <1>1 DEF Done
  <1>5. ItemsOK'
    BY <1>4, Parts DEF ItemsOK, Settled, world
  <1>6. CountersMatchItems'
    <2> SUFFICES ASSUME NEW j \in Request
                 PROVE  /\ job'[j].completed = Cardinality({k \in Item : item[j][k].status = "COMPLETED"})'
                        /\ job'[j].failed = Cardinality({k \in Item : item[j][k].status = "FAILED"})'
      BY DEF CountersMatchItems
    <2>1. \A k \in Item, st \in Done : item'[j][k].status = st <=> item[j][k].status = st
      BY <1>1 DEF Done
    <2>2. /\ {k \in Item : item'[j][k].status = "COMPLETED"} = {k \in Item : item[j][k].status = "COMPLETED"}
          /\ {k \in Item : item'[j][k].status = "FAILED"} = {k \in Item : item[j][k].status = "FAILED"}
      BY <2>1 DEF Done
    <2>3. /\ job[j].completed = Cardinality({k \in Item : item[j][k].status = "COMPLETED"})
          /\ job[j].failed = Cardinality({k \in Item : item[j][k].status = "FAILED"})
      BY Parts DEF CountersMatchItems
    <2> QED
      BY <2>2, <2>3
  <1>7. Grows(S)
    <2>1. faults' \in 0..MaxFaults /\ faults <= faults'
      BY FaultFacts
    <2>2. \A j \in Request, k \in Item : item[j][k].status \in Done => item'[j][k] = item[j][k]
      BY <1>1
    <2> QED
      BY <2>1, <2>2 DEF Grows, HoldsLease, world
  <1>8. FinishedOK'
    BY <1>7, FinishedStays
  <1> QED
    BY <1>2, <1>3, <1>5, <1>6, <1>7, <1>8 DEF TablesOK

\* Sets of items are finite, and there are at most Items of them.
LEMMA ItemSets ==
  /\ IsFiniteSet(Item) /\ Cardinality(Item) = Items
  /\ \A T \in SUBSET Item : IsFiniteSet(T) /\ Cardinality(T) \in 0..Items
  <1>1. IsFiniteSet(Item) /\ Cardinality(Item) = Items
    BY FS_Interval, ItemsAssumption DEF Item
  <1>2. ASSUME NEW T \in SUBSET Item PROVE IsFiniteSet(T) /\ Cardinality(T) \in 0..Items
    <2>1. IsFiniteSet(T) /\ Cardinality(T) <= Cardinality(Item)
      BY <1>1, FS_Subset
    <2>2. Cardinality(T) \in Nat
      BY <2>1, FS_CardinalityType
    <2> QED
      BY <1>1, <2>1, <2>2, ItemsAssumption
  <1> QED
    BY <1>1, <1>2

\* A claimed item is finished and counted.
LEMMA CheckpointTables ==
  ASSUME IInv, NEW S, NEW t \in Request, NEW i \in Item, NEW outcome, Settled(t, i, outcome),
         item[t][i].status = "PROCESSING",
         item' = [item EXCEPT ![t][i] = [status |-> outcome, token |-> NoWorker]],
         job' = Counted(t, outcome),
         UNCHANGED <<command, accepted, world, faults>>
  PROVE  TablesOK' /\ Grows(S)
  <1>1. outcome \in Done
    BY DEF Settled
  <1>2. /\ item' \in [Request -> [Item -> [status : ItemStatuses, token : Worker \cup {NoWorker}]]]
        /\ item'[t][i].status = outcome
        /\ \A j \in Request, k \in Item : j # t \/ k # i => item'[j][k] = item[j][k]
    BY <1>1, Parts DEF TableTypes, ItemStatuses
  <1>3. /\ job' \in [Request -> [status : Statuses, completed : Nat, failed : Nat]]
        /\ \A j \in Request : job'[j].status = job[j].status
        /\ \A j \in Request \ {t} : job'[j] = job[j]
        /\ job'[t].completed = IF outcome = "COMPLETED" THEN job[t].completed + 1 ELSE job[t].completed
        /\ job'[t].failed = IF outcome = "COMPLETED" THEN job[t].failed ELSE job[t].failed + 1
    <2>1. job \in [Request -> [status : Statuses, completed : Nat, failed : Nat]]
      BY Parts DEF TableTypes
    <2>2. CASE outcome = "COMPLETED"
      <3>1. job' = [job EXCEPT ![t].completed = @ + 1]
        BY <2>2 DEF Counted
      <3> QED
        BY <2>1, <2>2, <3>1
    <2>3. CASE outcome # "COMPLETED"
      <3>1. job' = [job EXCEPT ![t].failed = @ + 1]
        BY <2>3 DEF Counted
      <3> QED
        BY <2>1, <2>3, <3>1
    <2> QED
      BY <2>2, <2>3
  <1>4. Created' = Created
    BY <1>3 DEF Created
  <1>5. TableTypes' /\ CommandsOK'
    BY <1>2, <1>3, <1>4, Parts DEF TableTypes, CommandsOK
  <1>6. WorldOK'
    BY <1>4, Parts DEF WorldOK, world
  <1>7. Grows(S)
    <2>1. faults' \in 0..MaxFaults /\ faults <= faults'
      BY FaultFacts
    <2>2. \A j \in Request, k \in Item : item[j][k].status \in Done => item'[j][k] = item[j][k]
      BY <1>2 DEF Done
    <2> QED
      BY <1>3, <2>1, <2>2 DEF Grows, HoldsLease, world
  <1>8. ItemsOK'
    <2>1. transfer' = transfer /\ expired' = expired
      BY DEF world
    <2>2. ASSUME NEW j \in Request, NEW k \in Item, item'[j][k].status \in Done
          PROVE  Settled(j, k, item[j][k].status)'
      <3>1. CASE j = t /\ k = i
        BY <1>2, <2>1, <3>1 DEF Settled
      <3>2. CASE ~(j = t /\ k = i)
        BY <1>2, <2>1, <2>2, <3>2, Parts DEF Settled, ItemsOK
      <3> QED
        BY <3>1, <3>2
    <2> QED
      BY <2>1, <2>2, Parts DEF ItemsOK
  <1>9. FinishedOK'
    BY <1>3, <1>7, FinishedStays
  <1>10. CountersMatchItems'
    <2> DEFINE With(f, j, st) == {k \in Item : f[j][k].status = st}
    <2>1. \A j \in Request : /\ job[j].completed = Cardinality(With(item, j, "COMPLETED"))
                            /\ job[j].failed = Cardinality(With(item, j, "FAILED"))
      BY Parts DEF CountersMatchItems
    <2>2. \A st : \A j \in Request : j # t => With(item', j, st) = With(item, j, st)
      BY <1>2
    <2>3. \A st : st # outcome => st = "PROCESSING" \/ With(item', t, st) = With(item, t, st)
      BY <1>2
    <2>4. With(item', t, outcome) = With(item, t, outcome) \cup {i}
      BY <1>2
    <2>5. i \notin With(item, t, outcome)
      BY <1>1 DEF Done
    <2>6. Cardinality(With(item, t, outcome) \cup {i}) = Cardinality(With(item, t, outcome)) + 1
      <3>1. IsFiniteSet(With(item, t, outcome))
        BY ItemSets
      <3> HIDE DEF With
      <3> QED
        BY <2>5, <3>1, FS_AddElement
    <2>7. /\ job'[t].completed = Cardinality(With(item', t, "COMPLETED"))
          /\ job'[t].failed = Cardinality(With(item', t, "FAILED"))
      <3>1. /\ job[t].completed = Cardinality(With(item, t, "COMPLETED"))
            /\ job[t].failed = Cardinality(With(item, t, "FAILED"))
        BY <2>1
      <3>2. Cardinality(With(item', t, outcome)) = Cardinality(With(item, t, outcome)) + 1
        BY <2>4, <2>6
      <3>3. CASE outcome = "COMPLETED"
        <4>1. With(item', t, "FAILED") = With(item, t, "FAILED")
          BY <2>3, <3>3
        <4>2. job'[t].completed = job[t].completed + 1 /\ job'[t].failed = job[t].failed
          BY <1>3, <3>3
        <4> HIDE DEF With
        <4> QED
          BY <3>1, <3>2, <3>3, <4>1, <4>2
      <3>4. CASE outcome = "FAILED"
        <4>1. With(item', t, "COMPLETED") = With(item, t, "COMPLETED")
          BY <2>3, <3>4
        <4>2. job'[t].completed = job[t].completed /\ job'[t].failed = job[t].failed + 1
          BY <1>3, <3>4
        <4> HIDE DEF With
        <4> QED
          BY <3>1, <3>2, <3>4, <4>1, <4>2
      <3> QED
        BY <1>1, <3>3, <3>4 DEF Done
    <2>8. ASSUME NEW j \in Request, j # t
          PROVE  /\ job'[j].completed = Cardinality(With(item', j, "COMPLETED"))
                 /\ job'[j].failed = Cardinality(With(item', j, "FAILED"))
      <3>1. With(item', j, "COMPLETED") = With(item, j, "COMPLETED")
        BY <2>2, <2>8
      <3>2. With(item', j, "FAILED") = With(item, j, "FAILED")
        BY <2>2, <2>8
      <3>3. job'[j] = job[j]
        BY <1>3, <2>8
      <3> HIDE DEF With
      <3> QED
        BY <2>1, <3>1, <3>2, <3>3
    <2> QED
      BY <2>7, <2>8 DEF CountersMatchItems
  <1> QED
    BY <1>5, <1>6, <1>7, <1>8, <1>9, <1>10 DEF TablesOK

\* The transfer of an item that Transaction accepts is created, posted or settled.
Advances(t, i) ==
  i \notin BadItems /\ \E x : Moves(transfer[t][i], x) /\ transfer' = [transfer EXCEPT ![t][i] = x]

\* The tables stay as they should be when a transfer advances, and nothing else of
\* Transaction changes.
LEMMA TransferTables ==
  ASSUME IInv, NEW S, NEW t \in Request, NEW i \in Item,
         transfer' = transfer \/ Advances(t, i),
         late' \subseteq Request \X Item, UNCHANGED <<tables, queue, lease, expired, scan, faults>>
  PROVE  TablesOK' /\ Grows(S)
  <1>1. /\ transfer' \in [Request -> [Item -> Transfers]]
        /\ \A j \in Request, k \in Item :
             /\ transfer[j][k].status = "COMPLETED" => transfer'[j][k] = transfer[j][k]
             /\ transfer[j][k].status = "FAILED" => transfer'[j][k].status = "FAILED"
             /\ k \in BadItems => transfer'[j][k] = transfer[j][k]
             /\ transfer'[j][k].status = "COMPLETED" => transfer'[j][k] = Paid
    <2>1. /\ transfer \in [Request -> [Item -> Transfers]]
          /\ \A j \in Request, k \in Item : transfer[j][k].status = "COMPLETED" => transfer[j][k] = Paid
      BY Parts DEF ItemsOK
    <2>2. CASE transfer' = transfer
      BY <2>1, <2>2
    <2>3. ASSUME i \notin BadItems, NEW x, Moves(transfer[t][i], x),
                 transfer' = [transfer EXCEPT ![t][i] = x]
          PROVE  <1>1!:
      <3>1. \A j \in Request, k \in Item : j # t \/ k # i => transfer'[j][k] = transfer[j][k]
        BY <2>1, <2>3
      <3>2. transfer' \in [Request -> [Item -> Transfers]]
        BY <2>1, <2>3 DEF Moves
      <3>3. transfer'[t][i] = x
        BY <2>1, <2>3
      <3> QED
        BY <2>1, <2>3, <3>1, <3>2, <3>3 DEF Moves
    <2> QED
      BY <2>2, <2>3 DEF Advances
  <1>2. Grows(S)
    <2>1. faults' \in 0..MaxFaults /\ faults <= faults'
      BY FaultFacts
    <2> QED
      BY <1>1, <2>1 DEF Grows, HoldsLease, tables
  <1>3. TableTypes' /\ CommandsOK'
    BY Parts DEF TableTypes, CommandsOK, Created, tables
  <1>4. WorldOK'
    BY Parts DEF WorldOK, Created, tables
  <1>5. ItemsOK'
    <2>1. ASSUME NEW j \in Request, NEW k \in Item, item'[j][k].status \in Done
          PROVE  Settled(j, k, item[j][k].status)'
      <3>1. PICK outcome : outcome = item[j][k].status
        OBVIOUS
      <3>2. Settled(j, k, outcome) /\ item' = item
        BY <2>1, <3>1, Parts DEF ItemsOK, tables
      <3>3. Settled(j, k, outcome)'
        BY <1>2, <3>2, SettledStays
      <3> QED
        BY <3>1, <3>2, <3>3 DEF Settled
    <2> QED
      BY <1>1, <2>1, Parts DEF ItemsOK
  <1>6. CountersMatchItems'
    BY CountersSame DEF tables
  <1>7. FinishedOK'
    BY <1>2, FinishedStays DEF tables
  <1> QED
    BY <1>2, <1>3, <1>4, <1>5, <1>6, <1>7 DEF TablesOK

\* What Transaction does with a call is such a step.
LEMMA HandledFacts ==
  ASSUME IInv, NEW t \in Request, NEW i \in Item, TransferBecomes(t, i, Handled(t, i))
  PROVE  transfer' = transfer \/ Advances(t, i)
  <1>1. PICK was : was = transfer[t][i]
    OBVIOUS
  <1>2. transfer \in [Request -> [Item -> Transfers]] /\ was \in Transfers
    BY <1>1, Parts DEF ItemsOK
  <1>3. PICK x \in Handled(t, i) : transfer' = [transfer EXCEPT ![t][i] = x]
    BY DEF TransferBecomes
  <1>4. CASE x = was
    BY <1>1, <1>2, <1>3, <1>4
  <1>5. CASE x # was
    <2>1. /\ i \notin BadItems /\ was.status \notin Done
          /\ x \in [status : {"PROCESSING"} \cup Done, paid : BOOLEAN]
          /\ x.status = "COMPLETED" => x.paid
      BY <1>1, <1>5 DEF Handled
    <2>2. Moves(was, x)
      BY <2>1 DEF Moves, Transfers, Paid, Done
    <2> QED
      BY <1>1, <1>3, <2>1, <2>2 DEF Advances
  <1> QED
    BY <1>4, <1>5

\* When the counters add up to the number of items every item is finished, and
\* the status they amount to is the one the items add up to.
LEMMA FinalAddsUp ==
  ASSUME IInv, NEW t \in Request, FinalStatus(t) # "none"
  PROVE  FinalStatus(t) \in Terminal /\ AddsUpTo(t, FinalStatus(t))
  <1> DEFINE C == {k \in Item : item[t][k].status = "COMPLETED"}
             F == {k \in Item : item[t][k].status = "FAILED"}
  <1>1. job[t].completed = Cardinality(C) /\ job[t].failed = Cardinality(F)
    BY Parts DEF CountersMatchItems
  <1>2. C \in SUBSET Item /\ F \in SUBSET Item /\ C \cap F = {}
    OBVIOUS
  <1>3. IsFiniteSet(C) /\ IsFiniteSet(F) /\ Cardinality(C) \in Nat /\ Cardinality(F) \in Nat
    BY <1>2, ItemSets
  <1>4. Cardinality(C) + Cardinality(F) = Items
    BY <1>1 DEF FinalStatus
  <1>5. C \cup F = Item
    <2> HIDE DEF C, F
    <2>1. Cardinality(C \cap F) = 0
      BY <1>2, FS_EmptySet
    <2>2. Cardinality(C \cup F) = Cardinality(C) + Cardinality(F) - Cardinality(C \cap F)
      BY <1>3, FS_Union
    <2>3. Cardinality(C \cup F) = Cardinality(Item)
      BY <1>3, <1>4, <2>1, <2>2, ItemSets
    <2>4. C \cup F \subseteq Item
      BY <1>2
    <2> QED
      BY <2>3, <2>4, ItemSets, FS_Subset
  <1>6. (Cardinality(C) = 0 <=> C = {}) /\ (Cardinality(F) = 0 <=> F = {})
    <2> HIDE DEF C, F
    <2> QED
      BY <1>3, FS_EmptySet
  <1>7. Item # {}
    BY ItemsAssumption DEF Item
  <1> DEFINE outcomes == {item[t][k].status : k \in Item}
  <1>8. outcomes \subseteq Done
    BY <1>5 DEF Done
  <1>9. (F = {} <=> outcomes = {"COMPLETED"}) /\ (C = {} <=> outcomes = {"FAILED"})
    BY <1>5, <1>7
  <1>10. FinalStatus(t) = IF outcomes = {"COMPLETED"} THEN "COMPLETED"
                          ELSE IF outcomes = {"FAILED"} THEN "FAILED" ELSE "PARTIALLY_FAILED"
    <2>1. FinalStatus(t) = IF Cardinality(F) = 0 THEN "COMPLETED"
                           ELSE IF Cardinality(C) = 0 THEN "FAILED" ELSE "PARTIALLY_FAILED"
      <3> HIDE DEF C, F
      <3> QED
        BY <1>1, <1>4, <1>3 DEF FinalStatus
    <2> HIDE DEF C, F, outcomes
    <2> QED
      BY <1>6, <1>9, <2>1
  <1> QED
    BY <1>8, <1>10 DEF AddsUpTo, Terminal

-----------------------------------------------------------------------------
(* Workers *)

\* A worker goes on, and no other.
LEMMA WorkerGo ==
  ASSUME IInv, NEW w \in Worker, NEW label, Go(w, label), UNCHANGED <<client, target, seen, worker>>
  PROVE  OnlyMoves({w}) /\ pc'[w] = label
  BY Parts DEF Go, OnlyMoves, LocalTypes, client, worker

\* A worker that is through with a job relies on nothing.
LEMMA RestFacts ==
  ASSUME IInv, NEW w \in Worker, Rest(w), UNCHANGED client
  PROVE  OnlyMoves({w}) /\ WorkerOK(w)'
  <1>1. LocalTypes /\ w \in Process
    BY Parts
  <1>2. /\ DOMAIN pc' = Process /\ pc'[w] = "idle" /\ \A q \in Process \ {w} : pc'[q] = pc[q]
        /\ DOMAIN target' = Process /\ target'[w] = NoWorker
        /\ \A q \in Process \ {w} : target'[q] = target[q]
        /\ DOMAIN seen' = Process /\ \A q \in Process \ {w} : seen'[q] = seen[q]
    BY <1>1 DEF Rest, Go, LocalTypes
  <1>3. /\ todo' \in [Worker -> SUBSET Item] /\ batch' \in [Worker -> SUBSET Item]
        /\ \A x \in Worker \ {w} : batch'[x] = batch[x]
    BY <1>1 DEF Rest, LocalTypes
  <1>4. lost' \subseteq Worker
    BY <1>1 DEF Rest, LocalTypes
  <1>5. OnlyMoves({w})
    BY <1>1, <1>2, <1>3, <1>4 DEF OnlyMoves, LocalTypes, client
  <1>6. WorkerOK(w)'
    BY <1>2 DEF WorkerOK, WorkerLabels, Inside
  <1> QED
    BY <1>5, <1>6

\* The employer of a job that exists has a lease.
LEMMA EmployerFacts ==
  ASSUME IInv, NEW t \in Created
  PROVE  EmployerOf(t) \in Employer
  BY Parts DEF CommandsOK, EmployerOf, Employer

\* What a worker reports about its job keeps the queue in order.
LEMMA ReportFacts ==
  ASSUME IInv, NEW w \in Worker, target[w] \in Created,
         NEW state \in {"waiting", "completed", "failed"}, Report(w, state)
  PROVE  queue' \in [Request -> Entries] /\ \A j \in Request : queue'[j].state # "none" => j \in Created
  <1>1. queue \in [Request -> Entries] /\ \A j \in Request : queue[j].state # "none" => j \in Created
    BY Parts DEF WorldOK
  <1>2. PICK e \in Entries : queue' = queue \/ queue' = [queue EXCEPT ![target[w]] = e]
    <2>1. [state |-> state, owner |-> NoWorker] \in Entries
      BY DEF Entries
    <2> QED
      BY <2>1 DEF Report
  <1>3. target[w] \in Request
    BY DEF Created
  <1> QED
    BY <1>1, <1>2, <1>3

\* A worker that goes on inside its lease keeps what it relies on, provided that
\* it has a current item, a justified outcome or a proper final status where it
\* needs one.
LEMMA WorkerOn ==
  ASSUME IInv, NEW w \in Worker, NEW S, Grows(S), Inside(w), UNCHANGED lease,
         target'[w] = target[w], pc'[w] \in WorkerLabels,
         pc'[w] \in {"call", "checkpoint"} => batch'[w] # {},
         pc'[w] = "checkpoint" => Settled(target[w], Current(w), seen[w])',
         pc'[w] = "write" => seen'[w] \in Terminal /\ AddsUpTo(target[w], seen[w])'
  PROVE  WorkerOK(w)'
  <1>1. WorkerOK(w) /\ faults \in Nat
    BY Parts
  <1>2. target[w] \in Created /\ target[w] \in Created'
    BY <1>1, CreatedGrows DEF WorkerOK, Inside
  <1>3. faults' = 0 => HoldsLease(w)'
    <2>1. faults' = 0 => faults = 0
      BY <1>1 DEF Grows
    <2>2. command'[target'[w]] = command[target[w]]
      BY <1>2 DEF Grows
    <2> QED
      BY <1>1, <2>1, <2>2 DEF WorkerOK, HoldsLease, EmployerOf
  <1> QED
    BY <1>2, <1>3 DEF WorkerOK

\* A worker takes a queued job, which exists.
LEMMA TakeInv ==
  ASSUME IInv, NEW w \in Worker, NEW j \in Request, Take(w, j)
  PROVE  IInv' /\ Kept
  <1>1. /\ LocalTypes /\ w \in Process /\ w \notin Request
        /\ UNCHANGED <<tables, lease, transfer, expired, late, scan, client, seen, worker, faults>>
    BY Parts DEF Take
  <1>2. j \in Created
    BY Parts DEF Take, WorldOK
  <1>3. queue' \in [Request -> Entries] /\ \A k \in Request : queue'[k].state # "none" => k \in Created
    <2>1. queue \in [Request -> Entries] /\ \A k \in Request : queue[k].state # "none" => k \in Created
      BY Parts DEF WorldOK
    <2>2. PICK e \in Entries : queue' = [queue EXCEPT ![j] = e]
      BY DEF Take, Entries
    <2> QED
      BY <1>2, <2>1, <2>2
  <1>4. /\ lease' \in [Employer -> Worker \cup {NoWorker}]
        /\ scan' \subseteq Created /\ late' \subseteq Request \X Item
    BY <1>1, Parts DEF WorldOK
  <1>5. /\ DOMAIN target' = Process /\ target'[w] = j
        /\ \A q \in Process \ {w} : target'[q] = target[q]
        /\ DOMAIN pc' = Process /\ pc'[w] = "read" /\ \A q \in Process \ {w} : pc'[q] = pc[q]
    BY <1>1 DEF Take, Go, LocalTypes
  <1>6. OnlyMoves({w})
    BY <1>1, <1>5 DEF OnlyMoves, LocalTypes, client, worker
  <1>7. WorkerOK(w)'
    BY <1>1, <1>2, <1>5 DEF WorkerOK, WorkerLabels, Inside, Created, tables
  <1>8. Grows({w})
    BY <1>1, Frame DEF tables
  <1> QED
    BY <1>1, <1>3, <1>4, <1>6, <1>7, <1>8, WorldStep

\* A worker that finds its job finished rests.
LEMMA ReadJobInv ==
  ASSUME IInv, NEW w \in Worker, ReadJob(w)
  PROVE  IInv' /\ Kept
  <1>1. /\ WorkerOK(w) /\ pc[w] = "read" /\ target[w] \in Created /\ w \notin Request
        /\ UNCHANGED <<tables, lease, transfer, expired, late, scan, client, faults>>
    BY Parts DEF ReadJob, WorkerOK
  <1>2. Grows({w})
    BY <1>1, Frame DEF tables
  <1>3. /\ lease' \in [Employer -> Worker \cup {NoWorker}]
        /\ scan' \subseteq Created /\ late' \subseteq Request \X Item
    BY <1>1, Parts DEF WorldOK
  <1>4. CASE Rest(w) /\ Report(w, "completed")
    <2>1. OnlyMoves({w}) /\ WorkerOK(w)'
      BY <1>1, <1>4, RestFacts
    <2>2. queue' \in [Request -> Entries] /\ \A j \in Request : queue'[j].state # "none" => j \in Created
      BY <1>1, <1>4, ReportFacts
    <2> QED
      BY <1>1, <1>2, <1>3, <2>1, <2>2, WorldStep
  <1>5. CASE Go(w, "acquire") /\ UNCHANGED <<queue, target, seen, worker>>
    <2>1. OnlyMoves({w}) /\ pc'[w] = "acquire"
      BY <1>1, <1>5, WorkerGo
    <2>2. WorkerOK(w)'
      BY <1>1, <1>5, <2>1 DEF WorkerOK, WorkerLabels, Inside, Created, tables
    <2> QED
      BY <1>1, <1>5, <2>1, <2>2, LocalStep DEF world
  <1> QED
    BY <1>4, <1>5 DEF ReadJob

\* A lease is set with NX: nobody who holds one loses it.
LEMMA AcquireInv ==
  ASSUME IInv, NEW w \in Worker, Acquire(w)
  PROVE  IInv' /\ Kept
  <1>1. /\ WorkerOK(w) /\ pc[w] = "acquire" /\ target[w] \in Created /\ w \notin Request
        /\ UNCHANGED <<tables, transfer, expired, late, scan, client, faults>>
    BY Parts DEF Acquire, WorkerOK
  <1>2. scan' \subseteq Created /\ late' \subseteq Request \X Item
    BY <1>1, Parts DEF WorldOK
  <1>3. PICK e \in Employer : e = EmployerOf(target[w])
    BY <1>1, EmployerFacts
  <1>4. lease \in [Employer -> Worker \cup {NoWorker}]
    BY Parts DEF WorldOK
  <1>5. CASE /\ lease[e] = NoWorker /\ lease' = [lease EXCEPT ![e] = w]
             /\ Go(w, "mark") /\ UNCHANGED <<queue, target, seen, worker>>
    <2>1. lease' \in [Employer -> Worker \cup {NoWorker}] /\ lease'[e] = w
      BY <1>4, <1>5
    <2>2. \A x \in Worker \ {w} : Inside(x) /\ HoldsLease(x) => lease'[EmployerOf(target[x])] = x
      <3> SUFFICES ASSUME NEW x \in Worker \ {w}, Inside(x), HoldsLease(x)
                   PROVE  lease'[EmployerOf(target[x])] = x
        OBVIOUS
      <3>1. target[x] \in Created
        BY Parts DEF WorkerOK, Inside
      <3>2. EmployerOf(target[x]) \in Employer /\ lease[EmployerOf(target[x])] = x
        BY <3>1, EmployerFacts DEF HoldsLease
      <3>3. EmployerOf(target[x]) # e
        BY <1>5, <3>2, ProcessAssumption
      <3> QED
        BY <1>4, <1>5, <3>2, <3>3
    <2>3. Grows({w})
      <3>1. faults' \in 0..MaxFaults /\ faults <= faults'
        BY <1>1, FaultFacts
      <3> QED
        BY <1>1, <2>2, <3>1 DEF Grows, tables
    <2>4. OnlyMoves({w}) /\ pc'[w] = "mark"
      BY <1>1, <1>5, WorkerGo
    <2>5. WorkerOK(w)'
      <3>1. HoldsLease(w)'
        BY <1>1, <1>3, <1>5, <2>1 DEF HoldsLease, EmployerOf, tables
      <3> QED
        BY <1>1, <1>5, <2>4, <3>1 DEF WorkerOK, WorkerLabels, Created, tables
    <2>6. queue' \in [Request -> Entries] /\ \A j \in Request : queue'[j].state # "none" => j \in Created
      BY <1>5, Parts DEF WorldOK
    <2> QED
      BY <1>1, <1>2, <2>1, <2>3, <2>4, <2>5, <2>6, WorldStep
  <1>6. CASE /\ Rest(w) /\ UNCHANGED lease
             /\ \E state \in {"waiting", "failed"} : Report(w, state)
    <2>1. OnlyMoves({w}) /\ WorkerOK(w)'
      BY <1>1, <1>6, RestFacts
    <2>2. queue' \in [Request -> Entries] /\ \A j \in Request : queue'[j].state # "none" => j \in Created
      BY <1>1, <1>6, ReportFacts
    <2>3. Grows({w})
      BY <1>1, <1>6, Frame DEF tables
    <2> QED
      BY <1>1, <1>2, <1>4, <1>6, <2>1, <2>2, <2>3, WorldStep
  <1> QED
    BY <1>3, <1>5, <1>6 DEF Acquire

\* A job is marked as started, even one that another worker has finished.
LEMMA MarkProcessingInv ==
  ASSUME IInv, NEW w \in Worker, MarkProcessing(w)
  PROVE  IInv' /\ Kept
  <1>1. /\ WorkerOK(w) /\ pc[w] = "mark" /\ w \notin Request /\ Inside(w)
        /\ UNCHANGED <<command, item, accepted, world, client, target, seen, worker, faults>>
    BY Parts DEF MarkProcessing, Inside
  <1>2. PICK t \in Created : t = target[w]
    BY <1>1 DEF WorkerOK
  <1>3. accepted' \subseteq Request
    BY <1>1, Parts DEF TableTypes
  <1>4. "PROCESSING" \in Statuses \ {"NONE", "PENDING"} /\ "PROCESSING" \notin Terminal
    BY DEF Statuses, Terminal
  <1>5. TablesOK' /\ Grows({w})
    BY <1>1, <1>2, <1>3, <1>4, StatusTables DEF MarkProcessing
  <1>6. OnlyMoves({w}) /\ pc'[w] = "findClaimed"
    BY <1>1, WorkerGo DEF MarkProcessing
  <1>7. WorkerOK(w)'
    BY <1>1, <1>5, <1>6, WorkerOn DEF WorkerLabels, world
  <1> QED
    BY <1>1, <1>5, <1>6, <1>7, ProcessStep

\* A worker reads or drops items and goes on.
LEMMA TodoMoves ==
  ASSUME IInv, NEW w \in Worker, NEW T \in SUBSET Item, todo' = [todo EXCEPT ![w] = T],
         UNCHANGED pc \/ \E label : Go(w, label), UNCHANGED <<client, target, seen, lost>>,
         UNCHANGED batch \/ \E B \in SUBSET Item : batch' = [batch EXCEPT ![w] = B]
  PROVE  OnlyMoves({w})
  <1>1. LocalTypes /\ w \in Process
    BY Parts
  <1>2. todo' \in [Worker -> SUBSET Item]
    BY <1>1 DEF LocalTypes
  <1>3. batch' \in [Worker -> SUBSET Item] /\ \A x \in Worker \ {w} : batch'[x] = batch[x]
    BY <1>1 DEF LocalTypes
  <1>4. DOMAIN pc' = Process /\ \A q \in Process \ {w} : pc'[q] = pc[q]
    BY <1>1 DEF LocalTypes, Go
  <1> QED
    BY <1>1, <1>2, <1>3, <1>4 DEF OnlyMoves, LocalTypes, client

\* Reading the items left behind changes no table.
LEMMA FindClaimedInv ==
  ASSUME IInv, NEW w \in Worker, FindClaimed(w)
  PROVE  IInv' /\ Kept
  <1>1. /\ LocalTypes /\ pc[w] = "findClaimed" /\ w \notin Request /\ w \in Process /\ Inside(w)
        /\ UNCHANGED <<tables, world, client, target, seen, batch, lost, faults>>
    BY Parts DEF FindClaimed, Inside
  <1>2. WithStatus(target[w], "PROCESSING") \in SUBSET Item
    BY DEF WithStatus
  <1>3. OnlyMoves({w})
    BY <1>1, <1>2, TodoMoves DEF FindClaimed
  <1>4. pc'[w] = "reclaim"
    BY <1>1 DEF FindClaimed, Go, LocalTypes
  <1>5. Grows({w})
    BY <1>1, Frame DEF tables, world
  <1>6. WorkerOK(w)'
    BY <1>1, <1>4, <1>5, WorkerOn DEF WorkerLabels, world
  <1> QED
    BY <1>1, <1>3, <1>6, LocalStep

\* Reading the next batch changes no table.
LEMMA FindPendingInv ==
  ASSUME IInv, NEW w \in Worker, FindPending(w)
  PROVE  IInv' /\ Kept
  <1>1. /\ LocalTypes /\ pc[w] = "findPending" /\ w \notin Request /\ w \in Process /\ Inside(w)
        /\ UNCHANGED <<tables, world, client, target, seen, batch, lost, faults>>
    BY Parts DEF FindPending, Inside
  <1>2. Grows({w})
    BY <1>1, Frame DEF tables, world
  <1>3. OnlyMoves({w}) /\ pc'[w] \in {"throw", "claim"}
    <2>1. CASE Go(w, "throw") /\ UNCHANGED todo
      BY <1>1, <2>1, WorkerGo DEF worker
    <2>2. ASSUME NEW T \in SUBSET Item, todo' = [todo EXCEPT ![w] = T], Go(w, "claim")
          PROVE  <1>3!:
      <3>1. OnlyMoves({w})
        BY <1>1, <2>2, TodoMoves
      <3> QED
        BY <1>1, <2>2, <3>1 DEF Go, LocalTypes
    <2> DEFINE found == WithStatus(target[w], "PENDING")
               first == {i \in found : Cardinality({k \in found : k <= i}) <= BatchSize}
    <2>3. first \in SUBSET Item
      BY DEF WithStatus
    <2>4. \/ Go(w, "throw") /\ UNCHANGED todo
          \/ todo' = [todo EXCEPT ![w] = first] /\ Go(w, "claim")
      BY DEF FindPending
    <2> HIDE DEF first
    <2> QED
      BY <2>1, <2>2, <2>3, <2>4
  <1>4. WorkerOK(w)'
    BY <1>1, <1>2, <1>3, WorkerOn DEF WorkerLabels, world
  <1> QED
    BY <1>1, <1>3, <1>4, LocalStep

\* An item that is taken over was not finished.
LEMMA ReclaimInv ==
  ASSUME IInv, NEW w \in Worker, Reclaim(w)
  PROVE  IInv' /\ Kept
  <1>1. /\ LocalTypes /\ WorkerOK(w) /\ pc[w] = "reclaim" /\ w \notin Request /\ w \in Process
        /\ Inside(w) /\ UNCHANGED <<job, command, accepted, world, client, target, seen, lost, faults>>
    BY Parts DEF Reclaim, Inside
  <1>2. PICK t \in Created : t = target[w]
    BY <1>1 DEF WorkerOK
  <1>3. todo[w] \in SUBSET Item
    BY <1>1 DEF LocalTypes
  <1>4. CASE Go(w, "findPending") /\ UNCHANGED <<item, todo, batch>>
    <2>1. OnlyMoves({w}) /\ pc'[w] = "findPending"
      BY <1>1, <1>4, WorkerGo DEF worker
    <2>2. Grows({w})
      BY <1>1, <1>4, Frame DEF world
    <2>3. WorkerOK(w)'
      BY <1>1, <2>1, <2>2, WorkerOn DEF WorkerLabels, world
    <2> QED
      BY <1>1, <1>4, <2>1, <2>3, LocalStep DEF tables
  <1>5. ASSUME todo[w] # {}, NEW i, i = First(todo[w]), todo' = [todo EXCEPT ![w] = todo[w] \ {i}],
               item[t][i].status = "PROCESSING", item' = Claimed(w, i),
               batch' = [batch EXCEPT ![w] = {i}], Go(w, "call")
        PROVE  IInv' /\ Kept
    <2>1. i \in Item
      BY <1>3, <1>5, LeastItem
    <2>2. t \in Request /\ item[t][i].status \notin Done
      BY <1>5 DEF Created, Done
    <2>3. TablesOK' /\ Grows({w})
      BY <1>1, <1>2, <1>5, <2>1, <2>2, ClaimTables DEF Claimed
    <2>4. OnlyMoves({w})
      BY <1>1, <1>3, <1>5, <2>1, TodoMoves
    <2>5. pc'[w] = "call" /\ batch'[w] = {i}
      BY <1>1, <1>5 DEF Go, LocalTypes
    <2>6. WorkerOK(w)'
      BY <1>1, <2>3, <2>5, WorkerOn DEF WorkerLabels, world
    <2> QED
      BY <1>1, <2>3, <2>4, <2>6, ProcessStep
  <1>6. ASSUME NEW i, todo' = [todo EXCEPT ![w] = todo[w] \ {i}], UNCHANGED <<item, batch, pc>>
        PROVE  IInv' /\ Kept
    <2>1. OnlyMoves({w})
      BY <1>1, <1>3, <1>6, TodoMoves
    <2>2. Grows({w})
      BY <1>1, <1>6, Frame DEF world
    <2>3. WorkerOK(w)'
      BY <1>1, <1>6, <2>2, WorkerOn DEF WorkerLabels, world
    <2> QED
      BY <1>1, <1>6, <2>1, <2>3, LocalStep DEF tables
  <1> QED
    BY <1>2, <1>4, <1>5, <1>6 DEF Reclaim

\* An item that is claimed was still pending.
LEMMA ClaimInv ==
  ASSUME IInv, NEW w \in Worker, Claim(w)
  PROVE  IInv' /\ Kept
  <1>1. /\ LocalTypes /\ WorkerOK(w) /\ pc[w] = "claim" /\ w \notin Request /\ w \in Process
        /\ Inside(w) /\ UNCHANGED <<job, command, accepted, world, client, target, seen, lost, faults>>
    BY Parts DEF Claim, Inside
  <1>2. PICK t \in Created : t = target[w]
    BY <1>1 DEF WorkerOK
  <1>3. todo[w] \in SUBSET Item /\ batch[w] \in SUBSET Item
    BY <1>1 DEF LocalTypes
  <1>4. ASSUME NEW label \in {"finalize", "next"}, Go(w, label), UNCHANGED <<item, todo, batch>>
        PROVE  IInv' /\ Kept
    <2>1. OnlyMoves({w}) /\ pc'[w] = label
      BY <1>1, <1>4, WorkerGo DEF worker
    <2>2. Grows({w})
      BY <1>1, <1>4, Frame DEF world
    <2>3. WorkerOK(w)'
      BY <1>1, <2>1, <2>2, WorkerOn DEF WorkerLabels, world
    <2> QED
      BY <1>1, <1>4, <2>1, <2>3, LocalStep DEF tables
  <1>5. ASSUME todo[w] # {}, NEW i, i = First(todo[w]), todo' = [todo EXCEPT ![w] = todo[w] \ {i}],
               item[t][i].status = "PENDING", item' = Claimed(w, i),
               batch' = [batch EXCEPT ![w] = batch[w] \cup {i}], UNCHANGED pc
        PROVE  IInv' /\ Kept
    <2>1. i \in Item
      BY <1>3, <1>5, LeastItem
    <2>2. t \in Request /\ item[t][i].status \notin Done
      BY <1>5 DEF Created, Done
    <2>3. TablesOK' /\ Grows({w})
      BY <1>1, <1>2, <1>5, <2>1, <2>2, ClaimTables DEF Claimed
    <2>4. OnlyMoves({w})
      BY <1>1, <1>3, <1>5, <2>1, TodoMoves
    <2>5. WorkerOK(w)'
      BY <1>1, <1>5, <2>3, WorkerOn DEF WorkerLabels, world
    <2> QED
      BY <1>1, <2>3, <2>4, <2>5, ProcessStep
  <1>6. ASSUME NEW i, todo' = [todo EXCEPT ![w] = todo[w] \ {i}], UNCHANGED <<item, batch, pc>>
        PROVE  IInv' /\ Kept
    <2>1. OnlyMoves({w})
      BY <1>1, <1>3, <1>6, TodoMoves
    <2>2. Grows({w})
      BY <1>1, <1>6, Frame DEF world
    <2>3. WorkerOK(w)'
      BY <1>1, <1>6, <2>2, WorkerOn DEF WorkerLabels, world
    <2> QED
      BY <1>1, <1>6, <2>1, <2>3, LocalStep DEF tables
  <1> QED
    BY <1>2, <1>4, <1>5, <1>6 DEF Claim

\* The loop calls Transaction only with an item at hand.
LEMMA NextItemInv ==
  ASSUME IInv, NEW w \in Worker, NextItem(w)
  PROVE  IInv' /\ Kept
  <1>1. /\ pc[w] = "next" /\ w \notin Request /\ Inside(w)
        /\ UNCHANGED <<tables, world, client, target, seen, worker, faults>>
    BY Parts DEF NextItem, Inside
  <1>2. PICK label \in {"findPending", "throw", "call"} :
          Go(w, label) /\ (label = "call" => batch[w] # {})
    BY DEF NextItem
  <1>3. OnlyMoves({w}) /\ pc'[w] = label
    BY <1>1, <1>2, WorkerGo
  <1>4. Grows({w})
    BY <1>1, Frame DEF tables, world
  <1>5. WorkerOK(w)'
    BY <1>1, <1>2, <1>3, <1>4, WorkerOn DEF WorkerLabels, world, worker
  <1> QED
    BY <1>1, <1>3, <1>5, LocalStep

\* A worker notes what it has seen and goes on.
LEMMA SeenMoves ==
  ASSUME IInv, NEW w \in Worker, NEW v, NEW label, seen' = [seen EXCEPT ![w] = v], Go(w, label),
         UNCHANGED <<client, target, worker>>
  PROVE  OnlyMoves({w}) /\ pc'[w] = label /\ seen'[w] = v
  <1>1. LocalTypes /\ w \in Process
    BY Parts
  <1>2. /\ DOMAIN seen' = Process /\ seen'[w] = v /\ \A q \in Process \ {w} : seen'[q] = seen[q]
        /\ DOMAIN pc' = Process /\ pc'[w] = label /\ \A q \in Process \ {w} : pc'[q] = pc[q]
    BY <1>1 DEF LocalTypes, Go
  <1> QED
    BY <1>1, <1>2 DEF OnlyMoves, LocalTypes, client, worker

\* The outcome of a call is backed by the transfer that Transaction has, or by
\* the reason for which it has none to show.
LEMMA CallInv ==
  ASSUME IInv, NEW w \in Worker, Call(w)
  PROVE  IInv' /\ Kept
  <1>1. /\ WorkerOK(w) /\ pc[w] = "call" /\ w \notin Request /\ Inside(w)
        /\ UNCHANGED <<tables, queue, lease, expired, late, scan, client, target, worker, faults>>
    BY Parts DEF Call, Inside
  <1>2. PICK t \in Request : t = target[w]
    BY <1>1 DEF WorkerOK, Created
  <1>3. batch[w] \in SUBSET Item /\ batch[w] # {}
    BY <1>1, Parts DEF LocalTypes, WorkerOK
  <1>4. PICK i \in Item : i = Current(w)
    BY <1>3, LeastItem DEF Current
  <1>5. PICK outcome : outcome = Outcome(TransactionAnswer(t, i))
    OBVIOUS
  <1>6. /\ TransferBecomes(t, i, Handled(t, i)) /\ seen' = [seen EXCEPT ![w] = outcome]
        /\ Go(w, IF outcome = "none" THEN "throw" ELSE "checkpoint")
    BY <1>2, <1>4, <1>5 DEF Call
  <1>7. late' \subseteq Request \X Item
    BY <1>1, Parts DEF WorldOK
  <1>8. TablesOK' /\ Grows({w})
    BY <1>1, <1>6, <1>7, HandledFacts, TransferTables
  <1>9. PICK label \in {"throw", "checkpoint"} : Go(w, label) /\ (label = "checkpoint" => outcome # "none")
    BY <1>6
  <1>10. OnlyMoves({w}) /\ pc'[w] = label /\ seen'[w] = outcome
    BY <1>1, <1>6, <1>9, SeenMoves
  <1>11. target'[w] = t /\ Current(w)' = i /\ batch'[w] # {}
    BY <1>1, <1>2, <1>3, <1>4 DEF Current, worker
  <1>12. outcome # "none" => Settled(t, i, outcome)'
    <2>1. CASE i \in BadItems \/ <<t, i>> \in expired
      BY <1>1, <1>5, <2>1 DEF TransactionAnswer, Outcome, Settled, Done
    <2>2. CASE ~(i \in BadItems \/ <<t, i>> \in expired)
      <3>1. /\ transfer'[t][i].status # "REFUSED"
            /\ transfer'[t][i].status = "COMPLETED" => transfer'[t][i] = Paid
        BY <1>8 DEF TablesOK, ItemsOK, Done, Transfers
      <3> QED
        BY <1>5, <2>2, <3>1 DEF TransactionAnswer, Outcome, Settled, Done
    <2> QED
      BY <2>1, <2>2
  <1>13. pc'[w] = "checkpoint" => Settled(target[w], Current(w), seen[w])'
    BY <1>9, <1>10, <1>11, <1>12 DEF Settled
  <1>14. WorkerOK(w)'
    BY <1>1, <1>2, <1>8, <1>10, <1>11, <1>13, WorkerOn DEF WorkerLabels
  <1> QED
    BY <1>1, <1>8, <1>10, <1>14, ProcessStep

\* A call that fails stores no outcome.
LEMMA CallFailsInv ==
  ASSUME IInv, NEW w \in Worker, CallFails(w)
  PROVE  IInv' /\ Kept
  <1>1. /\ WorkerOK(w) /\ pc[w] = "call" /\ w \notin Request /\ Inside(w) /\ Fault
        /\ UNCHANGED <<tables, queue, lease, transfer, expired, scan, client, target, seen, worker>>
    BY Parts DEF CallFails, Inside
  <1>2. target[w] \in Request /\ Current(w) \in Item
    BY <1>1, LeastItem, Parts DEF WorkerOK, Created, Current, LocalTypes
  <1>3. /\ queue' \in [Request -> Entries] /\ \A j \in Request : queue'[j].state # "none" => j \in Created
        /\ lease' \in [Employer -> Worker \cup {NoWorker}] /\ scan' \subseteq Created
    BY <1>1, Parts DEF WorldOK
  <1>4. late' \subseteq Request \X Item
    BY <1>2, Parts DEF CallFails, WorldOK
  <1>5. Grows({w})
    BY <1>1, Frame DEF tables
  <1>6. OnlyMoves({w}) /\ pc'[w] = "throw"
    BY <1>1, WorkerGo DEF CallFails
  <1>7. WorkerOK(w)'
    BY <1>1, <1>5, <1>6, WorkerOn DEF WorkerLabels
  <1> QED
    BY <1>1, <1>3, <1>4, <1>5, <1>6, <1>7, WorldStep

\* The outcome is stored and counted together, and only under the worker's token.
LEMMA CheckpointInv ==
  ASSUME IInv, NEW w \in Worker, Checkpoint(w)
  PROVE  IInv' /\ Kept
  <1>1. /\ LocalTypes /\ WorkerOK(w) /\ pc[w] = "checkpoint" /\ w \notin Request /\ w \in Process
        /\ Inside(w) /\ UNCHANGED <<command, accepted, world, client, target, seen, todo, lost, faults>>
    BY Parts DEF Checkpoint, Inside
  <1>2. PICK t \in Request : t = target[w]
    BY <1>1 DEF WorkerOK, Created
  <1>3. batch[w] \in SUBSET Item /\ batch[w] # {}
    BY <1>1 DEF LocalTypes, WorkerOK
  <1>4. PICK i \in Item : i = Current(w)
    BY <1>3, LeastItem DEF Current
  <1>5. PICK outcome : outcome = seen[w]
    OBVIOUS
  <1>6. Settled(t, i, outcome)
    BY <1>1, <1>2, <1>4, <1>5 DEF WorkerOK
  <1>7. TablesOK' /\ Grows({w})
    <2>1. CASE UNCHANGED <<item, job>>
      <3>1. Grows({w})
        BY <1>1, <2>1, Frame DEF world
      <3>2. WorldOK'
        BY <1>1, <2>1, Parts DEF WorldOK, world, Created
      <3> QED
        BY <1>1, <2>1, <3>1, <3>2, WorldTables DEF tables, world
    <2>2. CASE /\ item[t][i] = [status |-> "PROCESSING", token |-> w]
               /\ item' = [item EXCEPT ![t][i] = [status |-> outcome, token |-> NoWorker]]
               /\ job' = Counted(t, outcome)
      <3>1. item[t][i].status = "PROCESSING"
        BY <2>2
      <3> QED
        BY <1>1, <1>6, <2>2, <3>1, CheckpointTables
    <2> QED
      BY <1>2, <1>4, <1>5, <2>1, <2>2 DEF Checkpoint
  <1>8. PICK label \in {"reclaim", "next"} : Go(w, label)
    BY DEF Checkpoint
  <1>9. batch' = [batch EXCEPT ![w] = batch[w] \ {i}]
    BY <1>4 DEF Checkpoint
  <1>10. batch' \in [Worker -> SUBSET Item] /\ \A x \in Worker \ {w} : batch'[x] = batch[x]
    BY <1>1, <1>3, <1>9 DEF LocalTypes
  <1>11. DOMAIN pc' = Process /\ pc'[w] = label /\ \A q \in Process \ {w} : pc'[q] = pc[q]
    BY <1>1, <1>8 DEF LocalTypes, Go
  <1>12. OnlyMoves({w})
    BY <1>1, <1>10, <1>11 DEF OnlyMoves, LocalTypes, client
  <1>13. WorkerOK(w)'
    BY <1>1, <1>7, <1>11, WorkerOn DEF WorkerLabels, world
  <1> QED
    BY <1>1, <1>7, <1>12, <1>13, ProcessStep

\* The status read from the counters is the one that the items add up to.
LEMMA FinalizeInv ==
  ASSUME IInv, NEW w \in Worker, Finalize(w)
  PROVE  IInv' /\ Kept
  <1>1. /\ WorkerOK(w) /\ pc[w] = "finalize" /\ w \notin Request /\ Inside(w)
        /\ UNCHANGED <<tables, world, client, target, worker, faults>>
    BY Parts DEF Finalize, Inside
  <1>2. PICK t \in Request : t = target[w]
    BY <1>1 DEF WorkerOK, Created
  <1>3. PICK st : st = FinalStatus(t)
    OBVIOUS
  <1>4. PICK label \in {"throw", "write"} : Go(w, label) /\ (label = "write" => st # "none")
    BY <1>2, <1>3 DEF Finalize
  <1>5. OnlyMoves({w}) /\ pc'[w] = label /\ seen'[w] = st
    BY <1>1, <1>2, <1>3, <1>4, SeenMoves DEF Finalize
  <1>6. Grows({w})
    BY <1>1, Frame DEF tables, world
  <1>7. st # "none" => st \in Terminal /\ AddsUpTo(t, st)'
    BY <1>3, <1>6, FinalAddsUp, AddsUpToStays
  <1>8. pc'[w] = "write" => seen'[w] \in Terminal /\ AddsUpTo(target[w], seen[w])'
    BY <1>1, <1>2, <1>4, <1>5, <1>7 DEF AddsUpTo
  <1>9. WorkerOK(w)'
    BY <1>1, <1>5, <1>6, <1>8, WorkerOn DEF WorkerLabels, world
  <1> QED
    BY <1>1, <1>5, <1>9, LocalStep

\* It still is when it is written, after other workers' steps.
LEMMA WriteFinalInv ==
  ASSUME IInv, NEW w \in Worker, WriteFinal(w)
  PROVE  IInv' /\ Kept
  <1>1. /\ WorkerOK(w) /\ pc[w] = "write" /\ w \notin Request /\ Inside(w)
        /\ UNCHANGED <<command, item, accepted, world, client, target, seen, worker, faults>>
    BY Parts DEF WriteFinal, Inside
  <1>2. PICK t \in Created : t = target[w]
    BY <1>1 DEF WorkerOK
  <1>3. PICK st \in Terminal : st = seen[w]
    BY <1>1 DEF WorkerOK
  <1>4. AddsUpTo(t, st)
    BY <1>1, <1>2, <1>3 DEF WorkerOK
  <1>5. st \in Statuses \ {"NONE", "PENDING"} /\ accepted' \subseteq Request
    BY <1>1, Parts DEF Statuses, Terminal, TableTypes
  <1>6. job' = SetStatus(t, st)
    BY <1>2, <1>3 DEF WriteFinal
  <1>7. TablesOK' /\ Grows({w})
    BY <1>1, <1>4, <1>5, <1>6, StatusTables
  <1>8. OnlyMoves({w}) /\ pc'[w] = "release"
    BY <1>1, WorkerGo DEF WriteFinal
  <1>9. WorkerOK(w)'
    BY <1>1, <1>7, <1>8, WorkerOn DEF WorkerLabels, world
  <1> QED
    BY <1>1, <1>7, <1>8, <1>9, ProcessStep

\* A worker releases a lease that it still has, and no other.
LEMMA ReleaseInv ==
  ASSUME IInv, NEW w \in Worker, Release(w)
  PROVE  IInv' /\ Kept
  <1>1. /\ WorkerOK(w) /\ pc[w] \in {"release", "throw"} /\ target[w] \in Created /\ w \notin Request
        /\ lease' = Released(w) \/ UNCHANGED lease
        /\ Fault \/ UNCHANGED faults
        /\ Rest(w) /\ UNCHANGED <<tables, transfer, expired, late, scan, client>>
    BY Parts DEF Release, WorkerOK
  <1>2. \E state \in {"waiting", "completed", "failed"} : Report(w, state)
    BY DEF Release
  <1>3. queue' \in [Request -> Entries] /\ \A j \in Request : queue'[j].state # "none" => j \in Created
    BY <1>1, <1>2, ReportFacts
  <1>4. scan' \subseteq Created /\ late' \subseteq Request \X Item
    BY <1>1, Parts DEF WorldOK
  <1>5. PICK e \in Employer : e = EmployerOf(target[w])
    BY <1>1, EmployerFacts
  <1>6. lease \in [Employer -> Worker \cup {NoWorker}]
    BY Parts DEF WorldOK
  <1>7. lease' = lease \/ (lease[e] = w /\ lease' = [lease EXCEPT ![e] = NoWorker])
    BY <1>1, <1>5 DEF Released, HoldsLease
  <1>8. lease' \in [Employer -> Worker \cup {NoWorker}]
    BY <1>6, <1>7
  <1>9. \A x \in Worker \ {w} : Inside(x) /\ HoldsLease(x) => lease'[EmployerOf(target[x])] = x
    <2> SUFFICES ASSUME NEW x \in Worker \ {w}, Inside(x), HoldsLease(x)
                 PROVE  lease'[EmployerOf(target[x])] = x
      OBVIOUS
    <2>1. target[x] \in Created
      BY Parts DEF WorkerOK, Inside
    <2>2. EmployerOf(target[x]) \in Employer /\ lease[EmployerOf(target[x])] = x
      BY <2>1, EmployerFacts DEF HoldsLease
    <2> QED
      BY <1>6, <1>7, <2>2
  <1>10. Grows({w})
    <2>1. faults' \in 0..MaxFaults /\ faults <= faults'
      BY <1>1, FaultFacts
    <2> QED
      BY <1>1, <1>9, <2>1 DEF Grows, tables
  <1>11. OnlyMoves({w}) /\ WorkerOK(w)'
    BY <1>1, RestFacts
  <1> QED
    BY <1>1, <1>3, <1>4, <1>8, <1>10, <1>11, WorldStep

\* A worker that learns of the loss of its lease changes nothing else.
LEMMA RenewInv ==
  ASSUME IInv, NEW w \in Worker, Renew(w)
  PROVE  IInv' /\ Kept
  <1>1. /\ LocalTypes /\ WorkerOK(w) /\ w \notin Request /\ Inside(w) /\ (Fault \/ UNCHANGED faults)
        /\ UNCHANGED <<tables, world, pc, client, target, seen, todo, batch>>
        /\ lost' = lost \cup {w}
    BY Parts DEF Renew
  <1>2. lost' \subseteq Worker
    BY <1>1 DEF LocalTypes
  <1>3. OnlyMoves({w})
    BY <1>1, <1>2 DEF OnlyMoves, LocalTypes, client
  <1>4. Grows({w})
    BY <1>1, Frame DEF tables, world
  <1>5. /\ pc'[w] \in WorkerLabels
        /\ (pc'[w] \in {"call", "checkpoint"} => batch'[w] # {})
    BY <1>1 DEF WorkerOK
  <1>6. pc'[w] = "checkpoint" => Settled(target[w], Current(w), seen[w])'
    BY <1>1 DEF WorkerOK, Settled, Current, world
  <1>7. pc'[w] = "write" => seen'[w] \in Terminal /\ AddsUpTo(target[w], seen[w])'
    BY <1>1 DEF WorkerOK, AddsUpTo, tables
  <1>8. WorkerOK(w)'
    BY <1>1, <1>4, <1>5, <1>6, <1>7, WorkerOn DEF world
  <1> QED
    BY <1>1, <1>3, <1>8, LocalStep

\* A crash loses what the worker knew and no row.
LEMMA WorkerCrashInv ==
  ASSUME IInv, NEW w \in Worker, WorkerCrash(w)
  PROVE  IInv' /\ Kept
  <1>1. /\ WorkerOK(w) /\ w \notin Request /\ Fault /\ Rest(w)
        /\ UNCHANGED <<tables, queue, lease, transfer, expired, scan, client>>
    BY Parts DEF WorkerCrash
  <1>2. pc[w] = "call" => target[w] \in Request /\ Current(w) \in Item
    BY <1>1, LeastItem, Parts DEF WorkerOK, Created, Current, LocalTypes
  <1>3. /\ queue' \in [Request -> Entries] /\ \A j \in Request : queue'[j].state # "none" => j \in Created
        /\ lease' \in [Employer -> Worker \cup {NoWorker}] /\ scan' \subseteq Created
    BY <1>1, Parts DEF WorldOK
  <1>4. late' \subseteq Request \X Item
    BY <1>2, Parts DEF WorkerCrash, WorldOK
  <1>5. Grows({w})
    BY <1>1, Frame DEF tables
  <1>6. OnlyMoves({w}) /\ WorkerOK(w)'
    BY <1>1, RestFacts
  <1> QED
    BY <1>1, <1>3, <1>4, <1>5, <1>6, WorldStep

-----------------------------------------------------------------------------
(* The recovery scan, timers and the world outside *)

\* A step of nobody.
LEMMA NobodyMoves ==
  ASSUME IInv, UNCHANGED <<pc, client, target, seen, worker>>
  PROVE  OnlyMoves({})
  BY Parts DEF OnlyMoves, LocalTypes, client, worker

\* The scan reads jobs that exist.
LEMMA RecoverScanInv ==
  ASSUME IInv, RecoverScan
  PROVE  IInv' /\ Kept
  <1>1. UNCHANGED <<tables, queue, lease, transfer, expired, late, pc, client, target, seen, worker, faults>>
    BY DEF RecoverScan
  <1>2. scan' \subseteq Created
    BY DEF RecoverScan
  <1>3. /\ queue' \in [Request -> Entries] /\ \A j \in Request : queue'[j].state # "none" => j \in Created
        /\ lease' \in [Employer -> Worker \cup {NoWorker}] /\ late' \subseteq Request \X Item
    BY <1>1, Parts DEF WorldOK
  <1>4. Grows({}) /\ OnlyMoves({})
    BY <1>1, Frame, NobodyMoves DEF tables
  <1> QED
    BY <1>1, <1>2, <1>3, <1>4, WorldStep

\* The scan enqueues a job that exists, even if it was finished since.
LEMMA RecoverEnqueueInv ==
  ASSUME IInv, NEW t \in Request, RecoverEnqueue(t)
  PROVE  IInv' /\ Kept
  <1>1. /\ t \in scan /\ scan' = scan \ {t} /\ (Fault \/ UNCHANGED faults)
        /\ queue' = Enqueued(t) \/ queue' \in HalfEnqueued(t)
        /\ UNCHANGED <<tables, lease, transfer, expired, late, pc, client, target, seen, worker>>
    BY DEF RecoverEnqueue
  <1>2. t \in Created /\ scan' \subseteq Created
    BY <1>1, Parts DEF WorldOK
  <1>3. queue' \in [Request -> Entries] /\ \A j \in Request : queue'[j].state # "none" => j \in Created
    BY <1>1, <1>2, EnqueuedFacts
  <1>4. lease' \in [Employer -> Worker \cup {NoWorker}] /\ late' \subseteq Request \X Item
    BY <1>1, Parts DEF WorldOK
  <1>5. Grows({}) /\ OnlyMoves({})
    BY <1>1, Frame, NobodyMoves DEF tables
  <1> QED
    BY <1>1, <1>2, <1>3, <1>4, <1>5, WorldStep

\* BullMQ takes the lock of a job away, and the worker may go on.
LEMMA StalledInv ==
  ASSUME IInv, NEW t \in Request, Stalled(t)
  PROVE  IInv' /\ Kept
  <1>1. /\ queue[t].state = "active" /\ (Fault \/ UNCHANGED faults)
        /\ UNCHANGED <<tables, lease, transfer, expired, late, scan, pc, client, target, seen, worker>>
    BY DEF Stalled
  <1>2. queue \in [Request -> Entries] /\ \A j \in Request : queue[j].state # "none" => j \in Created
    BY Parts DEF WorldOK
  <1>3. PICK e \in Entries : queue' = [queue EXCEPT ![t] = e]
    BY DEF Stalled, Entries
  <1>4. queue' \in [Request -> Entries] /\ \A j \in Request : queue'[j].state # "none" => j \in Created
    BY <1>1, <1>2, <1>3
  <1>5. /\ lease' \in [Employer -> Worker \cup {NoWorker}]
        /\ scan' \subseteq Created /\ late' \subseteq Request \X Item
    BY <1>1, Parts DEF WorldOK
  <1>6. Grows({}) /\ OnlyMoves({})
    BY <1>1, Frame, NobodyMoves DEF tables
  <1> QED
    BY <1>1, <1>4, <1>5, <1>6, WorldStep

\* A lease that is taken from a worker inside it is a fault.
LEMMA LeaseExpiresInv ==
  ASSUME IInv, NEW e \in Employer, LeaseExpires(e)
  PROVE  IInv' /\ Kept
  <1>1. /\ Fault \/ UNCHANGED faults
        /\ lease' = [lease EXCEPT ![e] = NoWorker]
        /\ Fault \/ ~(Inside(lease[e]) /\ EmployerOf(target[lease[e]]) = e)
        /\ UNCHANGED <<tables, queue, transfer, expired, late, scan, pc, client, target, seen, worker>>
    BY DEF LeaseExpires
  <1>2. lease \in [Employer -> Worker \cup {NoWorker}]
    BY Parts DEF WorldOK
  <1>3. lease' \in [Employer -> Worker \cup {NoWorker}]
    BY <1>1, <1>2
  <1>4. faults' \in 0..MaxFaults /\ faults <= faults' /\ (Fault => faults' # 0)
    BY <1>1, FaultFacts
  <1>5. \A x \in Worker \ {} : faults' = 0 /\ Inside(x) /\ HoldsLease(x) =>
          lease'[EmployerOf(target[x])] = x
    <2> SUFFICES ASSUME NEW x \in Worker, faults' = 0, Inside(x), HoldsLease(x)
                 PROVE  lease'[EmployerOf(target[x])] = x
      OBVIOUS
    <2>1. target[x] \in Created
      BY Parts DEF WorkerOK, Inside
    <2>2. EmployerOf(target[x]) \in Employer /\ lease[EmployerOf(target[x])] = x
      BY <2>1, EmployerFacts DEF HoldsLease
    <2>3. EmployerOf(target[x]) # e
      BY <1>1, <1>4, <2>2
    <2> QED
      BY <1>1, <1>2, <2>2, <2>3
  <1>6. Grows({})
    BY <1>1, <1>4, <1>5 DEF Grows, tables
  <1>7. /\ queue' \in [Request -> Entries] /\ \A j \in Request : queue'[j].state # "none" => j \in Created
        /\ scan' \subseteq Created /\ late' \subseteq Request \X Item
    BY <1>1, Parts DEF WorldOK
  <1>8. OnlyMoves({})
    BY <1>1, NobodyMoves
  <1> QED
    BY <1>1, <1>3, <1>6, <1>7, <1>8, WorldStep

\* A late call creates a transfer, but changes none that settled.
LEMMA LateCallInv ==
  ASSUME IInv, NEW k \in late, LateCall(k)
  PROVE  IInv' /\ Kept
  <1>1. /\ late' = late \ {k}
        /\ UNCHANGED transfer \/ TransferBecomes(k[1], k[2], Handled(k[1], k[2]))
        /\ UNCHANGED <<tables, queue, lease, expired, scan, pc, client, target, seen, worker, faults>>
    BY DEF LateCall
  <1>2. late \subseteq Request \X Item
    BY Parts DEF WorldOK
  <1>3. k[1] \in Request /\ k[2] \in Item /\ late' \subseteq Request \X Item
    BY <1>1, <1>2
  <1>4. TablesOK' /\ Grows({})
    BY <1>1, <1>3, HandledFacts, TransferTables
  <1>5. OnlyMoves({})
    BY <1>1, NobodyMoves
  <1> QED
    BY <1>4, <1>5, ProcessStep

\* A transfer settles once, and is completed if it is posted.
LEMMA TransferSettlesInv ==
  ASSUME IInv, NEW t \in Request, NEW i \in Item, TransferSettles(t, i) \/ LatePosting(t, i)
  PROVE  IInv' /\ Kept
  <1>1. UNCHANGED <<tables, queue, lease, expired, late, scan, pc, client, target, seen, worker, faults>>
    BY DEF TransferSettles, LatePosting
  <1>2. late' \subseteq Request \X Item
    BY <1>1, Parts DEF WorldOK
  <1>3. Advances(t, i)
    <2>1. PICK was : was = transfer[t][i]
      OBVIOUS
    <2>2. was \in Transfers /\ (i \in BadItems => was.status = "NONE")
      BY <2>1, Parts DEF ItemsOK, NoTransfer
    <2>3. /\ was.status \in {"PROCESSING", "FAILED"}
          /\ \E x : /\ transfer' = [transfer EXCEPT ![t][i] = x]
                   /\ \/ was.status = "PROCESSING" /\ x = [was EXCEPT !.status = "FAILED"]
                      \/ was.paid /\ x = [was EXCEPT !.status = "COMPLETED"] /\ was.status = "PROCESSING"
                      \/ x = [was EXCEPT !.paid = TRUE]
      BY <2>1 DEF TransferSettles, LatePosting, TransferBecomes
    <2>4. ASSUME NEW x,
                 \/ was.status = "PROCESSING" /\ x = [was EXCEPT !.status = "FAILED"]
                 \/ was.paid /\ x = [was EXCEPT !.status = "COMPLETED"] /\ was.status = "PROCESSING"
                 \/ x = [was EXCEPT !.paid = TRUE]
          PROVE  Moves(was, x)
      BY <2>2, <2>3, <2>4 DEF Moves, Transfers, Paid, Done
    <2> QED
      BY <2>1, <2>2, <2>3, <2>4 DEF Advances
  <1>4. TablesOK' /\ Grows({})
    BY <1>1, <1>2, <1>3, TransferTables
  <1>5. OnlyMoves({})
    BY <1>1, NobodyMoves
  <1> QED
    BY <1>4, <1>5, ProcessStep

\* A key runs out.
LEMMA ReplayWindowEndsInv ==
  ASSUME IInv, NEW t \in Request, NEW i \in Item, ReplayWindowEnds(t, i)
  PROVE  IInv' /\ Kept
  <1>1. /\ expired' = expired \cup {<<t, i>>}
        /\ UNCHANGED <<tables, queue, lease, transfer, late, scan, pc, client, target, seen, worker, faults>>
    BY DEF ReplayWindowEnds
  <1>2. Grows({}) /\ OnlyMoves({})
    BY <1>1, Frame, NobodyMoves DEF tables
  <1>3. /\ queue' \in [Request -> Entries] /\ \A j \in Request : queue'[j].state # "none" => j \in Created
        /\ lease' \in [Employer -> Worker \cup {NoWorker}]
        /\ scan' \subseteq Created /\ late' \subseteq Request \X Item
    BY <1>1, Parts DEF WorldOK
  <1> QED
    BY <1>1, <1>2, <1>3, WorldStep

\* Nothing happens.
LEMMA StutterInv ==
  ASSUME IInv, UNCHANGED vars
  PROVE  IInv' /\ Kept
  <1>1. OnlyMoves({})
    BY NobodyMoves DEF vars, client, worker
  <1> QED
    BY <1>1, LocalStep DEF vars, tables, world

-----------------------------------------------------------------------------
(* Theorems *)

\* There is no job, and nobody has started.
LEMMA InitInv ==
  ASSUME Init
  PROVE  IInv
  <1>1. Created = {}
    BY DEF Created, Init
  <1>2. TableTypes /\ CommandsOK
    BY <1>1 DEF Init, TableTypes, CommandsOK, Statuses, ItemStatuses, NewItem
  <1>3. WorldOK
    BY <1>1, FaultsAssumption DEF Init, WorldOK, NoEntry, Entries
  <1>4. ItemsOK
    BY DEF Init, ItemsOK, NewItem, NoTransfer, Transfers, Done
  <1>5. CountersMatchItems
    <2> SUFFICES ASSUME NEW j \in Request
                 PROVE  /\ job[j].completed = Cardinality({i \in Item : item[j][i].status = "COMPLETED"})
                        /\ job[j].failed = Cardinality({i \in Item : item[j][i].status = "FAILED"})
      BY DEF CountersMatchItems
    <2>1. \A i \in Item : item[j][i].status = "PENDING"
      BY DEF Init, NewItem
    <2>2. /\ {i \in Item : item[j][i].status = "COMPLETED"} = {}
          /\ {i \in Item : item[j][i].status = "FAILED"} = {}
      BY <2>1
    <2>3. job[j].completed = 0 /\ job[j].failed = 0
      BY DEF Init
    <2> QED
      BY <2>2, <2>3, FS_EmptySet
  <1>6. FinishedOK
    BY DEF Init, FinishedOK, Terminal
  <1>7. LocalTypes
    BY DEF Init, LocalTypes
  <1>8. \A r \in Request : RequestOK(r)
    BY DEF Init, RequestOK, SubmitLabels, Process
  <1>9. \A w \in Worker : WorkerOK(w)
    BY DEF Init, WorkerOK, WorkerLabels, Process, Inside
  <1> QED
    BY <1>2, <1>3, <1>4, <1>5, <1>6, <1>7, <1>8, <1>9 DEF IInv, TablesOK

\* Every step keeps the invariant and takes no progress back.
LEMMA NextInv ==
  ASSUME IInv, [Next]_vars
  PROVE  IInv' /\ Kept
  <1>1. ASSUME NEW r \in Request, Submit(r) PROVE IInv' /\ Kept
    BY <1>1, FindRecordInv, ValidateInv, InsertInv, InsertRefusedInv, ReplayInv, EnqueueInv,
       MarkQueuedInv DEF Submit
  <1>2. ASSUME NEW w \in Worker, Work(w) PROVE IInv' /\ Kept
    BY <1>2, ReadJobInv, AcquireInv, MarkProcessingInv, FindClaimedInv, ReclaimInv, FindPendingInv,
       ClaimInv, NextItemInv, CallInv, CheckpointInv, FinalizeInv, WriteFinalInv, ReleaseInv DEF Work
  <1>3. CASE UNCHANGED vars
    BY <1>3, StutterInv
  <1> QED
    BY <1>1, <1>2, <1>3, SubmitCrashInv, ReceiveInv, CallFailsInv, RenewInv, WorkerCrashInv, TakeInv,
       RecoverScanInv, RecoverEnqueueInv, StalledInv, LeaseExpiresInv, LateCallInv,
       TransferSettlesInv, ReplayWindowEndsInv DEF Next, Quiet

\* The inductive invariant holds in every reachable state.
THEOREM Inductive == Spec => []IInv
  BY InitInv, NextInv, PTL DEF Spec

\* The types of the model hold; the counters stay within the number of items.
THEOREM TypeCorrect == Spec => []TypeOK
  <1>1. ASSUME IInv PROVE TypeOK
    <2>1. \A j \in Request : job[j].completed \in 0..Items /\ job[j].failed \in 0..Items
      <3> SUFFICES ASSUME NEW j \in Request
                   PROVE  job[j].completed \in 0..Items /\ job[j].failed \in 0..Items
        OBVIOUS
      <3> DEFINE C == {i \in Item : item[j][i].status = "COMPLETED"}
                 F == {i \in Item : item[j][i].status = "FAILED"}
      <3>1. job[j].completed = Cardinality(C) /\ job[j].failed = Cardinality(F)
        BY <1>1, Parts DEF CountersMatchItems
      <3>2. C \in SUBSET Item /\ F \in SUBSET Item
        OBVIOUS
      <3> HIDE DEF C, F
      <3> QED
        BY <3>1, <3>2, ItemSets
    <2>2. \A j \in Request : job[j].status \in Statuses
      BY <1>1, Parts DEF TableTypes
    <2>3. \A j \in Request, i \in Item : item[j][i].status \in ItemStatuses
      BY <1>1, Parts DEF TableTypes
    <2>4. \A p \in Process : target[p] \in Request \cup {NoWorker}
      BY <1>1, Parts DEF RequestOK, WorkerOK, Created, Process
    <2>5. accepted \subseteq Request
      BY <1>1, Parts DEF TableTypes
    <2> QED
      BY <2>1, <2>2, <2>3, <2>4, <2>5 DEF TypeOK, Statuses, ItemStatuses
  <1> QED
    BY <1>1, Inductive, PTL

\* The counters of a job count its items: the update of the checkpoint is
\* conditional on the token, so that no item is counted twice or missed, however
\* many workers execute it.
THEOREM CountersMatchItemsTheorem == Spec => []CountersMatchItems
  <1>1. IInv => CountersMatchItems
    BY DEF IInv, TablesOK
  <1> QED
    BY <1>1, Inductive, PTL

\* A job is reported finished only when every item is, with the outcome that the
\* items add up to: finalize may rely on counters that it read earlier.
THEOREM FinishedMeansDoneTheorem == Spec => []FinishedMeansDone
  <1>1. IInv => FinishedMeansDone
    BY DEF IInv, TablesOK, FinishedOK, AddsUpTo, FinishedMeansDone
  <1> QED
    BY <1>1, Inductive, PTL

\* Items end as their transfers did, whatever calls timed out and whichever workers
\* crashed: a completed item was paid, and a failed one has a failed transfer, unless
\* Transaction refused the call.
THEOREM ItemsMatchTransfersTheorem == Spec => []ItemsMatchTransfers
  <1>1. ASSUME IInv PROVE ItemsMatchTransfers
    <2> SUFFICES ASSUME NEW j \in Request, NEW i \in Item
                 PROVE  /\ item[j][i].status = "COMPLETED" => transfer[j][i] = Paid
                        /\ item[j][i].status = "FAILED" =>
                             \/ transfer[j][i].status = "FAILED"
                             \/ <<j, i>> \in expired
                             \/ i \in BadItems /\ transfer[j][i] = NoTransfer
      BY DEF ItemsMatchTransfers, Paid
    <2>1. /\ item[j][i].status \in Done => Settled(j, i, item[j][i].status)
          /\ i \in BadItems => transfer[j][i] = NoTransfer
      BY <1>1, Parts DEF ItemsOK
    <2> QED
      BY <2>1 DEF Settled, Done
  <1> QED
    BY <1>1, Inductive, PTL

\* One employer and key create one job, and an accepted submission has a queued
\* job with its own body.
THEOREM OneJobPerKeyTheorem == Spec => []OneJobPerKey
  <1>1. ASSUME IInv PROVE OneJobPerKey
    <2>1. \A j, k \in Created : j # k =>
            command[j].employer # command[k].employer \/ command[j].key # command[k].key
      BY <1>1, Parts DEF CommandsOK
    <2>2. ASSUME NEW r \in Request, reply[r] = "202"
          PROVE  /\ command[target[r]] = cmd[r] /\ cmd[r].payload \notin {"zero", "malformed"}
                 /\ job[target[r]].status \notin {"NONE", "PENDING"}
      <3>1. /\ target[r] \in Created /\ command[target[r]] = cmd[r]
            /\ job[target[r]].status \notin {"NONE", "PENDING"}
        BY <1>1, <2>2, Parts DEF RequestOK
      <3>2. command[target[r]].payload \notin {"zero", "malformed"}
        BY <1>1, <3>1, Parts DEF CommandsOK
      <3> QED
        BY <3>1, <3>2
    <2> QED
      BY <2>1, <2>2 DEF OneJobPerKey
  <1> QED
    BY <1>1, Inductive, PTL

\* Two workers pay for one employer only after a fault: a lease that ran out, a
\* crash or a failed call.
THEOREM OneWorkerPerEmployerTheorem == Spec => []OneWorkerPerEmployer
  <1>1. ASSUME IInv PROVE OneWorkerPerEmployer
    <2> SUFFICES ASSUME NEW w \in Worker, NEW x \in Worker, w # x, Inside(w), Inside(x),
                        EmployerOf(target[w]) = EmployerOf(target[x]), faults = 0
                 PROVE  FALSE
      BY <1>1, Parts DEF OneWorkerPerEmployer
    <2>1. HoldsLease(w) /\ HoldsLease(x)
      BY <1>1, Parts DEF WorkerOK
    <2> QED
      BY <2>1 DEF HoldsLease
  <1> QED
    BY <1>1, Inductive, PTL

\* No step takes progress back: not the checkpoint, claim or final write of a
\* worker that was overtaken, and not the late half of a submission.
THEOREM ProgressIsKeptTheorem == Spec => ProgressIsKept
  <1>1. IInv /\ [Next]_vars => Kept
    BY NextInv
  <1> QED
    BY <1>1, Inductive, PTL DEF Spec, ProgressIsKept, Kept
=============================================================================
