------------------------------ MODULE Payroll -------------------------------
(***************************************************************************)
(* The Payroll service: PayrollService.submit, the BullMQ queue it feeds,  *)
(* the recovery scan, and PayrollProcessorService.process run by workers   *)
(* under a Redis lease per employer, paying items through the Transaction  *)
(* service.                                                                *)
(*                                                                         *)
(* A worker may be overtaken: its lease or its lock on the queued job may  *)
(* run out while it works.  BullMQ and Redis are external.  Of Transaction *)
(* there is what module Transfer has in detail: the status of a transfer   *)
(* and, apart from it, whether its money moved.  Queue error counters and  *)
(* codes, which nothing reads, are left out.                               *)
(***************************************************************************)
EXTENDS Integers, FiniteSets

CONSTANTS
  Request,    \* submissions; a job is named after the request that created it
  Worker,     \* slots of the BullMQ workers of all instances
  Command,    \* request bodies with their employer and idempotency key
  Items,      \* items of a job, by sequence number
  BadItems,   \* items that Transaction refuses without creating a transfer
  BatchSize,  \* items claimed at once
  NoWorker,   \* no worker
  MaxFaults   \* bound on crashes, timeouts and failed calls

\* A job has at least one item (ArrayMinSize in CreatePayrollJobDto).
ASSUME ItemsAssumption == Items \in Nat \ {0} /\ BadItems \subseteq 1..Items
ASSUME BatchAssumption == BatchSize \in Nat \ {0}
ASSUME FaultsAssumption == MaxFaults \in Nat
ASSUME ProcessAssumption == NoWorker \notin Worker /\ Request \cap Worker = {}

VARIABLES
  job,        \* payroll_jobs: status and the two counters
  command,    \* what each job was submitted with
  item,       \* payroll_items: status and processing token
  accepted,   \* jobs whose idempotency record holds the response
  queue,      \* BullMQ's state of a job and the worker that has its lock
  lease,      \* Redis: the worker that holds the lease of an employer
  transfer,   \* Transaction's transfer for the key of each item: its status, and
              \* whether the Ledger has posted it
  expired,    \* keys whose replay window in Transaction is over
  late,       \* calls to Transaction that nobody waits for
  scan,       \* jobs that the recovery scan has still to enqueue
  pc,         \* where each request or worker is
  cmd,        \* the body a request was sent
  reply,      \* what it was answered
  target,     \* the job that a request or worker works on
  seen,       \* the job status that it has read
  todo,       \* items a worker has read and will claim
  batch,      \* items a worker has claimed
  lost,       \* workers that know that their lease is lost
  faults      \* faults so far

tables == <<job, command, item, accepted>>
world == <<queue, lease, transfer, expired, late, scan>>
client == <<cmd, reply>>
worker == <<todo, batch, lost>>
vars == <<job, command, item, accepted, queue, lease, transfer, expired, late, scan,
          pc, cmd, reply, target, seen, todo, batch, lost, faults>>

Item == 1..Items
Process == Request \cup Worker
Employer == {c.employer : c \in Command}
Terminal == {"COMPLETED", "PARTIALLY_FAILED", "FAILED"}
Done == {"COMPLETED", "FAILED"}
Created == {j \in Request : job[j].status # "NONE"}

NoCommand == [employer |-> "none", key |-> "none", payload |-> "none"]
\* A token is random for every claim.  A worker claims an item once while it
\* processes a job, so that its name stands for the token.
NewItem == [status |-> "PENDING", token |-> NoWorker]
NoTransfer == [status |-> "NONE", paid |-> FALSE]
NoEntry == [state |-> "none", owner |-> NoWorker]
EmployerOf(j) == command[j].employer

Go(p, label) == pc' = [pc EXCEPT ![p] = label]
Answer(r, code) == Go(r, "done") /\ reply' = [reply EXCEPT ![r] = code]
SetStatus(j, st) == [job EXCEPT ![j].status = st]

\* A worker is through with a job and forgets what it had read.
Rest(w) ==
  /\ Go(w, "idle")
  /\ target' = [target EXCEPT ![w] = NoWorker] /\ seen' = [seen EXCEPT ![w] = "none"]
  /\ todo' = [todo EXCEPT ![w] = {}] /\ batch' = [batch EXCEPT ![w] = {}]
  /\ lost' = lost \ {w}

Fault == faults < MaxFaults /\ faults' = faults + 1

\* The items of job j with a status.
WithStatus(j, st) == {i \in Item : item[j][i].status = st}

\* Items are read, claimed and paid in the order of their sequence numbers.
First(S) == CHOOSE i \in S : \A k \in S : i <= k

-----------------------------------------------------------------------------
(* The queue *)

\* PayrollQueueService.enqueue: a queued or running job is left alone, one that
\* BullMQ has finished with is replaced.
Enqueued(j) ==
  IF queue[j].state \in {"waiting", "active"} THEN queue
  ELSE [queue EXCEPT ![j] = [state |-> "waiting", owner |-> NoWorker]]

\* Redis fails, perhaps after the finished job was removed or the new one added.
HalfEnqueued(j) ==
  {queue, Enqueued(j)}
    \cup (IF queue[j].state \in {"waiting", "active"} THEN {} ELSE {[queue EXCEPT ![j] = NoEntry]})

\* Mutant: a job that a worker had started is not scanned.
RecoverScanMutant ==
  /\ scan = {}
  /\ scan' = {j \in Created : job[j].status \in {"PENDING", "QUEUED"}}
  /\ scan' # {}
  /\ UNCHANGED <<tables, queue, lease, transfer, expired, late, pc, client, target, seen, worker, faults>>

\* The recovery scan reads the jobs that are not finished, then enqueues them.
RecoverScan ==
  /\ scan = {}
  /\ scan' = {j \in Created : job[j].status \notin Terminal}
  /\ scan' # {}
  /\ UNCHANGED <<tables, queue, lease, transfer, expired, late, pc, client, target, seen, worker, faults>>

RecoverEnqueue(j) ==
  /\ j \in scan
  /\ scan' = scan \ {j}
  /\ \/ queue' = Enqueued(j) /\ UNCHANGED faults
     \/ Fault /\ queue' \in HalfEnqueued(j)
  /\ UNCHANGED <<tables, lease, transfer, expired, late, pc, client, target, seen, worker>>

-----------------------------------------------------------------------------
(* Submission *)

\* A key is 1 to 128 visible characters; the empty one stands for any other.
validateIdempotencyKey(c) == c.key # ""

\* normalizeCommand: not too many items, no external id twice, amounts not
\* negative (isPositive is true of zero).  It sorts the items, so that their
\* sequence numbers do not depend on the order in which they were sent.
normalizeCommand(c) == c.payload # "malformed"

Receive(r, c) ==
  /\ pc[r] = "idle"
  /\ cmd' = [cmd EXCEPT ![r] = c]
  /\ IF validateIdempotencyKey(c) /\ normalizeCommand(c)
     THEN Go(r, "find") /\ UNCHANGED reply ELSE Answer(r, "400")
  /\ UNCHANGED <<tables, world, target, seen, worker, faults>>

\* Mutant: a key is looked up together with the payload it came with.
WithKeyMutant(c) == {j \in Created : command[j] = c}

\* The jobs whose idempotency record has the employer and key of a command.
WithKey(c) == {j \in Created : command[j].employer = c.employer /\ command[j].key = c.key}

\* findRecord reads the record with its job.
FindRecord(r) ==
  /\ pc[r] = "find"
  /\ \/ /\ WithKey(cmd[r]) = {}
        /\ Go(r, "validate") /\ UNCHANGED <<target, seen>>
     \/ \E j \in WithKey(cmd[r]) :
          /\ target' = [target EXCEPT ![r] = j]
          /\ seen' = [seen EXCEPT ![r] = job[j].status]
          /\ Go(r, "replay")
  /\ UNCHANGED <<tables, world, client, worker, faults>>

\* validateSourceWallet: Account's answer lets the job in or refuses it.
ValidateSourceWallet(r) ==
  /\ pc[r] = "validate"
  /\ \/ Go(r, "insert") /\ UNCHANGED <<reply, faults>>
     \/ Answer(r, "403") /\ UNCHANGED faults
     \/ Fault /\ Answer(r, "503")
  /\ UNCHANGED <<tables, world, cmd, target, seen, worker>>

\* payroll_items_amount_check: every amount is more than zero.
AmountCheck(c) == c.payload # "zero"

\* One transaction creates the job, its items and the record, or finds that
\* another request has taken the key, whose job it then reads.
Insert(r) ==
  /\ pc[r] = "insert" /\ AmountCheck(cmd[r])
  /\ IF WithKey(cmd[r]) = {}
     THEN /\ job' = SetStatus(r, "PENDING")
          /\ command' = [command EXCEPT ![r] = cmd[r]]
          /\ target' = [target EXCEPT ![r] = r]
          /\ Go(r, "enqueue")
     ELSE Go(r, "find") /\ UNCHANGED <<job, command, target>>
  /\ UNCHANGED <<item, accepted, world, client, seen, worker, faults>>

\* The database refuses the items, which come before the record in the
\* transaction; that is no unique conflict.
InsertRefused(r) ==
  /\ pc[r] = "insert" /\ ~AmountCheck(cmd[r])
  /\ Answer(r, "500")
  /\ UNCHANGED <<tables, world, cmd, target, seen, worker, faults>>

\* replay compares the hash and the clock, and enqueues a job that was read as
\* pending.
Replay(r) ==
  /\ pc[r] = "replay"
  /\ \/ command[target[r]] # cmd[r] /\ Answer(r, "409")
     \/ command[target[r]] = cmd[r] /\ Answer(r, "409")
     \/ /\ command[target[r]] = cmd[r]
        /\ IF seen[r] = "PENDING" THEN Go(r, "enqueue") /\ UNCHANGED reply
           ELSE Answer(r, "202")
  /\ UNCHANGED <<tables, world, cmd, target, seen, worker, faults>>

Enqueue(r) ==
  /\ pc[r] = "enqueue"
  /\ \/ queue' = Enqueued(target[r]) /\ Go(r, "markQueued") /\ UNCHANGED <<reply, faults>>
     \/ Fault /\ queue' \in HalfEnqueued(target[r]) /\ Answer(r, "503")
  /\ UNCHANGED <<tables, lease, transfer, expired, late, scan, cmd, target, seen, worker>>

\* The second half of ensureEnqueued: a worker may have started by now.
MarkQueued(r) ==
  /\ pc[r] = "markQueued"
  /\ job' = IF job[target[r]].status \in {"PENDING", "QUEUED"}
            THEN SetStatus(target[r], "QUEUED") ELSE job
  /\ accepted' = accepted \cup {target[r]}
  /\ Answer(r, "202")
  /\ UNCHANGED <<command, item, world, cmd, target, seen, worker, faults>>

\* The instance dies while it handles a submission.
SubmitCrash(r) ==
  /\ pc[r] \notin {"idle", "done"} /\ Fault
  /\ Answer(r, "lost")
  /\ UNCHANGED <<tables, world, cmd, target, seen, worker>>

-----------------------------------------------------------------------------
(* Workers *)

HoldsLock(w) == queue[target[w]] = [state |-> "active", owner |-> w]
HoldsLease(w) == lease[EmployerOf(target[w])] = w

\* The lease is released if the worker still has it.
Released(w) == IF HoldsLease(w) THEN [lease EXCEPT ![EmployerOf(target[w])] = NoWorker] ELSE lease

\* BullMQ hears how the work ended from the worker that has the lock.
Report(w, state) ==
  queue' = IF HoldsLock(w) THEN [queue EXCEPT ![target[w]] = [state |-> state, owner |-> NoWorker]]
           ELSE queue

Take(w, j) ==
  /\ pc[w] = "idle" /\ queue[j].state = "waiting"
  /\ queue' = [queue EXCEPT ![j] = [state |-> "active", owner |-> w]]
  /\ target' = [target EXCEPT ![w] = j]
  /\ Go(w, "read")
  /\ UNCHANGED <<tables, lease, transfer, expired, late, scan, client, seen, worker, faults>>

ReadJob(w) ==
  /\ pc[w] = "read"
  /\ IF job[target[w]].status \in Terminal
     THEN Rest(w) /\ Report(w, "completed")
     ELSE Go(w, "acquire") /\ UNCHANGED <<queue, target, seen, worker>>
  /\ UNCHANGED <<tables, lease, transfer, expired, late, scan, client, faults>>

\* Mutant: the lease is set without NX.
AcquireMutant(w) ==
  /\ pc[w] = "acquire"
  /\ lease' = [lease EXCEPT ![EmployerOf(target[w])] = w]
  /\ Go(w, "mark")
  /\ UNCHANGED <<tables, queue, transfer, expired, late, scan, client, target, seen, worker, faults>>

\* A busy lease is an error before there is anything to release.
Acquire(w) ==
  /\ pc[w] = "acquire"
  /\ IF lease[EmployerOf(target[w])] = NoWorker
     THEN /\ lease' = [lease EXCEPT ![EmployerOf(target[w])] = w]
          /\ Go(w, "mark") /\ UNCHANGED <<queue, target, seen, worker>>
     ELSE /\ Rest(w) /\ UNCHANGED lease
          /\ \E state \in {"waiting", "failed"} : Report(w, state)
  /\ UNCHANGED <<tables, transfer, expired, late, scan, client, faults>>

\* The update of the job has no condition on its status.
MarkProcessing(w) ==
  /\ pc[w] = "mark"
  /\ job' = SetStatus(target[w], "PROCESSING")
  /\ Go(w, "findClaimed")
  /\ UNCHANGED <<command, item, accepted, world, client, target, seen, worker, faults>>

\* reconcileClaimedItems reads the items that an earlier worker left behind.
FindClaimed(w) ==
  /\ pc[w] = "findClaimed"
  /\ todo' = [todo EXCEPT ![w] = WithStatus(target[w], "PROCESSING")]
  /\ Go(w, "reclaim")
  /\ UNCHANGED <<tables, world, client, target, seen, batch, lost, faults>>

\* The item in processing under the token of a worker.
Claimed(w, i) == [item EXCEPT ![target[w]][i] = [status |-> "PROCESSING", token |-> w]]

\* Each of them is claimed again, if it is still being processed, and executed
\* before the next.  The lease is not looked at.
Reclaim(w) ==
  LET i == First(todo[w]) IN
  /\ pc[w] = "reclaim"
  /\ \/ todo[w] = {} /\ Go(w, "findPending") /\ UNCHANGED <<item, todo, batch>>
     \/ /\ todo[w] # {}
        /\ todo' = [todo EXCEPT ![w] = @ \ {i}]
        /\ IF item[target[w]][i].status = "PROCESSING"
           THEN /\ item' = Claimed(w, i)
                /\ batch' = [batch EXCEPT ![w] = {i}]
                /\ Go(w, "call")
           ELSE UNCHANGED <<item, batch, pc>>
  /\ UNCHANGED <<job, command, accepted, world, client, target, seen, lost, faults>>

\* The first step of claimPendingBatch, unless the lease is known to be lost.
FindPending(w) ==
  /\ pc[w] = "findPending"
  /\ IF w \in lost THEN Go(w, "throw") /\ UNCHANGED todo
     ELSE LET found == WithStatus(target[w], "PENDING") IN
          /\ todo' = [todo EXCEPT ![w] =
                        {i \in found : Cardinality({k \in found : k <= i}) <= BatchSize}]
          /\ Go(w, "claim")
  /\ UNCHANGED <<tables, world, client, target, seen, batch, lost, faults>>

\* Mutant: the update has no condition on the status of the item.
ClaimMutant(w) ==
  LET i == First(todo[w]) IN
  /\ pc[w] = "claim"
  /\ \/ todo[w] # {} /\ todo' = [todo EXCEPT ![w] = @ \ {i}]
        /\ item' = Claimed(w, i)
        /\ batch' = [batch EXCEPT ![w] = @ \cup {i}] /\ UNCHANGED pc
     \/ todo[w] = {} /\ Go(w, IF batch[w] = {} THEN "finalize" ELSE "next")
        /\ UNCHANGED <<item, todo, batch>>
  /\ UNCHANGED <<job, command, accepted, world, client, target, seen, lost, faults>>

\* The rest of it: every item of the batch is claimed, if it is still pending.
\* An empty batch ends the loop of process.
Claim(w) ==
  LET i == First(todo[w]) IN
  /\ pc[w] = "claim"
  /\ \/ /\ todo[w] # {}
        /\ todo' = [todo EXCEPT ![w] = @ \ {i}]
        /\ IF item[target[w]][i].status = "PENDING"
           THEN /\ item' = Claimed(w, i)
                /\ batch' = [batch EXCEPT ![w] = @ \cup {i}]
           ELSE UNCHANGED <<item, batch>>
        /\ UNCHANGED pc
     \/ /\ todo[w] = {}
        /\ Go(w, IF batch[w] = {} THEN "finalize" ELSE "next")
        /\ UNCHANGED <<item, todo, batch>>
  /\ UNCHANGED <<job, command, accepted, world, client, target, seen, lost, faults>>

\* The loop over the batch.
NextItem(w) ==
  /\ pc[w] = "next"
  /\ Go(w, IF batch[w] = {} THEN "findPending"
           ELSE IF w \in lost THEN "throw" ELSE "call")
  /\ UNCHANGED <<tables, world, client, target, seen, worker, faults>>

Current(w) == First(batch[w])

\* What TransferService leaves of a transfer when it has handled a call.  An expired
\* key is refused and a settled transfer replayed.  Otherwise the transfer is created,
\* or looked for in the Ledger and tried again, and the service may stop anywhere: it
\* completes a transfer that is posted, and fails none that had been posted before
\* the call, but may fail one that is posted meanwhile.  A pending one counts as being
\* processed.
Handled(j, i) ==
  LET was == transfer[j][i] IN
  IF i \in BadItems \/ <<j, i>> \in expired \/ was.status \in Done THEN {was}
  ELSE {t \in [status : {"PROCESSING"} \cup Done, paid : BOOLEAN] :
          /\ t.status = "COMPLETED" => t.paid
          /\ was.paid => t.paid /\ t.status # "FAILED"}

\* The transfer of an item becomes one of a set.
TransferBecomes(j, i, S) == \E t \in S : transfer' = [transfer EXCEPT ![j][i] = t]

\* What Transaction answers: the transfer, or an error without one.
TransactionAnswer(j, i) ==
  IF i \in BadItems \/ <<j, i>> \in expired THEN "REFUSED" ELSE transfer'[j][i].status

\* Mutant: a transfer that is not terminal is taken for a completed one.
OutcomeMutant(answer) == IF answer \in {"FAILED", "REFUSED"} THEN "FAILED" ELSE "COMPLETED"

\* checkpointResponse, and executeItem for an error that carries no transfer:
\* the status to store, if the answer is definitive.
Outcome(answer) ==
  CASE answer = "COMPLETED" -> "COMPLETED"
    [] answer \in {"FAILED", "REFUSED"} -> "FAILED"
    [] OTHER -> "none"

\* executeItem calls Transaction; a transfer that is not terminal is an error.
Call(w) ==
  LET i == Current(w) IN
  /\ pc[w] = "call"
  /\ TransferBecomes(target[w], i, Handled(target[w], i))
  /\ LET outcome == Outcome(TransactionAnswer(target[w], i)) IN
       /\ seen' = [seen EXCEPT ![w] = outcome]
       /\ Go(w, IF outcome = "none" THEN "throw" ELSE "checkpoint")
  /\ UNCHANGED <<tables, queue, lease, expired, late, scan, client, target, worker, faults>>

\* The call times out after three seconds or fails: Transaction may still
\* handle it.
CallFails(w) ==
  /\ pc[w] = "call" /\ Fault
  /\ late' = late \cup {<<target[w], Current(w)>>}
  /\ Go(w, "throw")
  /\ UNCHANGED <<tables, queue, lease, transfer, expired, scan, client, target, seen, worker>>

\* The job with the counter of an outcome incremented.
Counted(j, outcome) ==
  IF outcome = "COMPLETED" THEN [job EXCEPT ![j].completed = @ + 1]
  ELSE [job EXCEPT ![j].failed = @ + 1]

\* Mutant: the number of updated items is not looked at.
CheckpointMutant(w) ==
  LET i == Current(w) IN
  /\ pc[w] = "checkpoint"
  /\ item' = IF item[target[w]][i] = [status |-> "PROCESSING", token |-> w]
             THEN [item EXCEPT ![target[w]][i] = [status |-> seen[w], token |-> NoWorker]] ELSE item
  /\ job' = Counted(target[w], seen[w])
  /\ batch' = [batch EXCEPT ![w] = @ \ {i}]
  /\ Go(w, IF todo[w] # {} THEN "reclaim" ELSE "next")
  /\ UNCHANGED <<command, accepted, world, client, target, seen, todo, lost, faults>>

\* One transaction stores the outcome under the token of the attempt and counts
\* it.  A worker that was overtaken changes nothing and goes on.
Checkpoint(w) ==
  LET i == Current(w) IN
  /\ pc[w] = "checkpoint"
  /\ IF item[target[w]][i] = [status |-> "PROCESSING", token |-> w]
     THEN /\ item' = [item EXCEPT ![target[w]][i] = [status |-> seen[w], token |-> NoWorker]]
          /\ job' = Counted(target[w], seen[w])
     ELSE UNCHANGED <<item, job>>
  /\ batch' = [batch EXCEPT ![w] = @ \ {i}]
  /\ Go(w, IF todo[w] # {} THEN "reclaim" ELSE "next")
  /\ UNCHANGED <<command, accepted, world, client, target, seen, todo, lost, faults>>

\* Mutant: the counters are not compared with the number of items.
FinalStatusMutant(j) ==
  IF job[j].failed = 0 THEN "COMPLETED"
  ELSE IF job[j].completed = 0 THEN "FAILED" ELSE "PARTIALLY_FAILED"

\* The status that the counters of a job amount to.
FinalStatus(j) ==
  IF job[j].completed + job[j].failed # Items THEN "none"
  ELSE IF job[j].failed = 0 THEN "COMPLETED"
  ELSE IF job[j].completed = 0 THEN "FAILED" ELSE "PARTIALLY_FAILED"

\* finalize reads the counters and then writes the status.
Finalize(w) ==
  /\ pc[w] = "finalize"
  /\ seen' = [seen EXCEPT ![w] = FinalStatus(target[w])]
  /\ Go(w, IF FinalStatus(target[w]) = "none" THEN "throw" ELSE "write")
  /\ UNCHANGED <<tables, world, client, target, worker, faults>>

WriteFinal(w) ==
  /\ pc[w] = "write"
  /\ job' = SetStatus(target[w], seen[w])
  /\ Go(w, "release")
  /\ UNCHANGED <<command, item, accepted, world, client, target, seen, worker, faults>>

\* However process ends, the lease is released, or Redis fails and it stays.
\* After an error BullMQ tries again later or, after five attempts, not any more.
Release(w) ==
  /\ pc[w] \in {"release", "throw"}
  /\ \/ lease' = Released(w) /\ UNCHANGED faults
     \/ Fault /\ UNCHANGED lease
  /\ \E state \in IF pc[w] = "release" THEN {"completed"} ELSE {"waiting", "failed"} :
       Report(w, state)
  /\ Rest(w)
  /\ UNCHANGED <<tables, transfer, expired, late, scan, client>>

-----------------------------------------------------------------------------
(* Timers, faults and the world outside *)

\* Between acquiring and releasing the lease.
Inside(w) == pc[w] \notin {"idle", "read", "acquire"}

\* The renewal timer finds the lease gone, or Redis fails.
Renew(w) ==
  /\ Inside(w) /\ w \notin lost
  /\ \/ ~HoldsLease(w) /\ UNCHANGED faults
     \/ HoldsLease(w) /\ Fault
  /\ lost' = lost \cup {w}
  /\ UNCHANGED <<tables, world, pc, client, target, seen, todo, batch>>

\* The lease runs out: its holder is gone, or was not scheduled in time.
LeaseExpires(e) ==
  LET w == lease[e] IN
  /\ w # NoWorker
  /\ \/ ~(Inside(w) /\ EmployerOf(target[w]) = e) /\ UNCHANGED faults
     \/ Inside(w) /\ EmployerOf(target[w]) = e /\ Fault
  /\ lease' = [lease EXCEPT ![e] = NoWorker]
  /\ UNCHANGED <<tables, queue, transfer, expired, late, scan, pc, client, target, seen, worker>>

\* BullMQ finds the lock of an active job expired, and queues or fails the job.
Stalled(j) ==
  LET w == queue[j].owner IN
  /\ queue[j].state = "active"
  /\ \/ (pc[w] = "idle" \/ target[w] # j) /\ UNCHANGED faults
     \/ pc[w] # "idle" /\ target[w] = j /\ Fault
  /\ \E state \in {"waiting", "failed"} :
       queue' = [queue EXCEPT ![j] = [state |-> state, owner |-> NoWorker]]
  /\ UNCHANGED <<tables, lease, transfer, expired, late, scan, pc, client, target, seen, worker>>

\* The instance of a worker dies between two steps.
WorkerCrash(w) ==
  /\ pc[w] # "idle" /\ Fault
  /\ late' = IF pc[w] = "call" THEN late \cup {<<target[w], Current(w)>>} ELSE late
  /\ Rest(w)
  /\ UNCHANGED <<tables, queue, lease, transfer, expired, scan, client>>

\* A call nobody waits for is handled, or never arrives.
LateCall(k) ==
  /\ late' = late \ {k}
  /\ UNCHANGED transfer \/ TransferBecomes(k[1], k[2], Handled(k[1], k[2]))
  /\ UNCHANGED <<tables, queue, lease, expired, scan, pc, client, target, seen, worker, faults>>

\* Transaction's own recovery completes a transfer that is posted, or fails one that
\* it found unposted, posted meanwhile or not.
TransferSettles(j, i) ==
  LET was == transfer[j][i] IN
  /\ was.status = "PROCESSING"
  /\ TransferBecomes(j, i, {[was EXCEPT !.status = "FAILED"]}
                             \cup (IF was.paid THEN {[was EXCEPT !.status = "COMPLETED"]} ELSE {}))
  /\ UNCHANGED <<tables, queue, lease, expired, late, scan, pc, client, target, seen, worker, faults>>

\* A call to the Ledger that outlives its caller posts, also when the transfer has
\* failed since.  Whether one is on its way is left open.
LatePosting(j, i) ==
  /\ transfer[j][i].status \in {"PROCESSING", "FAILED"} /\ ~transfer[j][i].paid
  /\ TransferBecomes(j, i, {[transfer[j][i] EXCEPT !.paid = TRUE]})
  /\ UNCHANGED <<tables, queue, lease, expired, late, scan, pc, client, target, seen, worker, faults>>

\* 24 hours after the transfer was created.
ReplayWindowEnds(j, i) ==
  /\ transfer[j][i] # NoTransfer /\ <<j, i>> \notin expired
  /\ expired' = expired \cup {<<j, i>>}
  /\ UNCHANGED <<tables, queue, lease, transfer, late, scan, pc, client, target, seen, worker, faults>>

-----------------------------------------------------------------------------
Init ==
  /\ job = [j \in Request |-> [status |-> "NONE", completed |-> 0, failed |-> 0]]
  /\ command = [j \in Request |-> NoCommand]
  /\ item = [j \in Request |-> [i \in Item |-> NewItem]]
  /\ accepted = {}
  /\ queue = [j \in Request |-> NoEntry]
  /\ lease = [e \in Employer |-> NoWorker]
  /\ transfer = [j \in Request |-> [i \in Item |-> NoTransfer]]
  /\ expired = {} /\ late = {} /\ scan = {}
  /\ pc = [p \in Process |-> "idle"]
  /\ cmd = [r \in Request |-> NoCommand]
  /\ reply = [r \in Request |-> "none"]
  /\ target = [p \in Process |-> NoWorker]
  /\ seen = [p \in Process |-> "none"]
  /\ todo = [w \in Worker |-> {}]
  /\ batch = [w \in Worker |-> {}]
  /\ lost = {} /\ faults = 0

Submit(r) ==
  FindRecord(r) \/ ValidateSourceWallet(r) \/ Insert(r) \/ InsertRefused(r)
  \/ Replay(r) \/ Enqueue(r) \/ MarkQueued(r)

Work(w) ==
  \/ ReadJob(w) \/ Acquire(w) \/ MarkProcessing(w) \/ FindClaimed(w) \/ Reclaim(w)
  \/ FindPending(w) \/ Claim(w) \/ NextItem(w) \/ Call(w) \/ Checkpoint(w)
  \/ Finalize(w) \/ WriteFinal(w) \/ Release(w)

Quiet == /\ \A r \in Request : pc[r] = "done"
         /\ \A w \in Worker : pc[w] = "idle"
         /\ UNCHANGED vars

Next ==
  \/ \E r \in Request : Submit(r) \/ SubmitCrash(r) \/ \E c \in Command : Receive(r, c)
  \/ \E w \in Worker : Work(w) \/ CallFails(w) \/ Renew(w) \/ WorkerCrash(w)
  \/ \E w \in Worker, j \in Request : Take(w, j)
  \/ RecoverScan \/ \E j \in Request : RecoverEnqueue(j) \/ Stalled(j)
  \/ \E e \in Employer : LeaseExpires(e)
  \/ \E k \in late : LateCall(k)
  \/ \E j \in Request, i \in Item : TransferSettles(j, i) \/ LatePosting(j, i)
                                      \/ ReplayWindowEnds(j, i)
  \/ Quiet

\* Workers and timers keep running, BullMQ hands out what waits and notices
\* what stalled, leases run out, and time passes.
Fairness ==
  /\ \A r \in Request : WF_vars(Submit(r))
  /\ \A w \in Worker : WF_vars(Work(w))
  /\ \A j \in Request : WF_vars(\E w \in Worker : Take(w, j))
  /\ WF_vars(RecoverScan)
  /\ \A j \in Request : WF_vars(RecoverEnqueue(j)) /\ WF_vars(Stalled(j) /\ UNCHANGED faults)
  /\ \A e \in Employer : WF_vars(LeaseExpires(e) /\ UNCHANGED faults)
  /\ \A j \in Request, i \in Item : WF_vars(ReplayWindowEnds(j, i))

Spec == Init /\ [][Next]_vars
FairSpec == Spec /\ Fairness
-----------------------------------------------------------------------------
(* Properties *)

\* Types.
TypeOK ==
  /\ \A j \in Request : job[j].status \in {"NONE", "PENDING", "QUEUED", "PROCESSING"} \cup Terminal
  /\ \A j \in Request : job[j].completed \in 0..Items /\ job[j].failed \in 0..Items
  /\ \A j \in Request, i \in Item : item[j][i].status \in {"PENDING", "PROCESSING"} \cup Done
  /\ \A p \in Process : target[p] \in Request \cup {NoWorker}
  /\ accepted \subseteq Request

\* The counters of a job count its items, although workers overtake each other
\* and execute the same item (checkpoint is conditional on the token).
CountersMatchItems ==
  \A j \in Request :
    /\ job[j].completed = Cardinality({i \in Item : item[j][i].status = "COMPLETED"})
    /\ job[j].failed = Cardinality({i \in Item : item[j][i].status = "FAILED"})

\* A job is reported finished only when every item is, with the outcome that
\* the items add up to.
FinishedMeansDone ==
  \A j \in Request : job[j].status \in Terminal =>
    LET outcomes == {item[j][i].status : i \in Item} IN
    /\ outcomes \subseteq Done
    /\ job[j].status = IF outcomes = {"COMPLETED"} THEN "COMPLETED"
                       ELSE IF outcomes = {"FAILED"} THEN "FAILED" ELSE "PARTIALLY_FAILED"

\* Items end as their transfers did, whatever calls timed out and whichever workers
\* crashed or overtook each other: a completed item has a completed transfer, whose
\* money moved, and a failed one a failed transfer, unless Transaction refused the
\* call, with no transfer there or after the replay window of its key.  Transaction
\* may itself call a transfer failed whose money moved (LostAnswerStaysProcessing in
\* module Transfer), and Payroll then does too.
ItemsMatchTransfers ==
  \A j \in Request, i \in Item :
    /\ item[j][i].status = "COMPLETED" => transfer[j][i] = [status |-> "COMPLETED", paid |-> TRUE]
    /\ item[j][i].status = "FAILED" =>
         \/ transfer[j][i].status = "FAILED"
         \/ <<j, i>> \in expired
         \/ i \in BadItems /\ transfer[j][i] = NoTransfer

\* Progress is never taken back: a finished item keeps its status and no later
\* attempt claims it, and a job that a worker has started never looks unstarted
\* again (ensureEnqueued races with the worker that takes the job).
ProgressIsKept ==
  [][\A j \in Request :
       /\ \A i \in Item : item[j][i].status \in Done => item'[j][i] = item[j][i]
       /\ job[j].status \in {"PROCESSING"} \cup Terminal =>
            job'[j].status \in {"PROCESSING"} \cup Terminal]_vars

\* One employer and key create one job, however many duplicates arrive together,
\* and a submission is accepted only for a job of the same body with items that
\* can be paid, which has been queued by then.
OneJobPerKey ==
  /\ \A j, k \in Created : j # k =>
       command[j].employer # command[k].employer \/ command[j].key # command[k].key
  /\ \A r \in Request : reply[r] = "202" =>
       /\ command[target[r]] = cmd[r] /\ cmd[r].payload \notin {"zero", "malformed"}
       /\ job[target[r]].status \notin {"NONE", "PENDING"}

\* As long as leases are renewed in time, one worker at a time pays for an
\* employer.
OneWorkerPerEmployer ==
  \A w, x \in Worker :
    w # x /\ Inside(w) /\ Inside(x) /\ EmployerOf(target[w]) = EmployerOf(target[x]) => faults > 0

\* Every job that was stored is finished in the end and stays finished, whatever
\* crashed, because the recovery scan comes back to it.
JobsFinish == \A j \in Request : job[j].status # "NONE" ~> [](job[j].status \in Terminal)

-----------------------------------------------------------------------------
(* Stronger than what the code does; the README tells how it fails *)

\* decisions.md: an already completed transfer is checkpointed; so no failed
\* item was paid.
FailedMeansUnpaid ==
  \A j \in Request, i \in Item : item[j][i].status = "FAILED" => ~transfer[j][i].paid
=============================================================================
