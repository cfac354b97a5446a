------------------------------ MODULE Transfer ------------------------------
(***************************************************************************)
(* The transfer orchestration of the Transaction service: createDomestic,  *)
(* createInternational, handleExisting, reconcile, process, complete and   *)
(* fail, run by concurrent requests and by background reconcilers, against *)
(* the Account, FX and Ledger services.                                    *)
(*                                                                         *)
(* A call to another service is separate from its effect there: a caller   *)
(* that times out or dies leaves the call in flight, and the effect may    *)
(* come at any later time.  Reading the wall clock to tell whether a       *)
(* transfer is stale may go either way.                                    *)
(***************************************************************************)
EXTENDS Integers, FiniteSets

CONSTANTS
  Request,      \* client requests; a transfer is named after its creator
  Reconciler,   \* background and operator reconciliation, which force a retry
  Command,      \* request bodies with their idempotency key
  NoTransfer,   \* no transfer
  MaxFaults     \* bound on crashes, timeouts, lost and failed calls

ASSUME ProcessAssumption == Request \cap Reconciler = {} /\ NoTransfer \notin Request
ASSUME FaultsAssumption == MaxFaults \in Nat

VARIABLES
  status,     \* transfers.status, "NONE" before the row exists
  version,    \* transfers.version
  command,    \* the command each transfer was claimed with
  record,     \* idempotency_records: state and response status
  history,    \* status of the two transaction_history rows, "NONE" if absent
  expired,    \* transfers whose replay window of 24 hours is over
  posted,     \* the Ledger's postings, by transfer id
  consumer,   \* the transfer that consumed each FX quote
  lapsed,     \* quotes past their expiry
  late,       \* calls in flight that nobody waits for
  pc,         \* where each request or reconciler is
  cmd,        \* the body a request was sent
  target,     \* the transfer it works on
  seen,       \* what it read of that transfer: status, version, record
  call,       \* the state of the call it waits for, or the failure to record
  reply,      \* what a request was answered
  faults      \* faults so far

store == <<status, version, command, record, history>>
world == <<expired, posted, consumer, lapsed, late>>
vars == <<status, version, command, record, history, expired, posted, consumer,
          lapsed, late, pc, cmd, target, seen, call, reply, faults>>

Process == Request \cup Reconciler
Quote == {c.quote : c \in Command} \ {"none"}

Terminal == {"COMPLETED", "FAILED"}
Created == {t \in Request : status[t] # "NONE"}
International(t) == command[t].type = "INTERNATIONAL"

NoCommand == [key |-> "none", type |-> "none", payload |-> "none", quote |-> "none",
              valid |-> FALSE]

\* What CreateTransferDto and CreateInternationalTransferDto let through: an
\* international transfer names its quote, a domestic one has none.
ValidCommand(c) ==
  /\ c.type \in {"DOMESTIC", "INTERNATIONAL"}
  /\ (c.type = "INTERNATIONAL") = (c.quote # "none")
  /\ c.payload # "none"

ASSUME CommandAssumption == \A c \in Command : ValidCommand(c)

NoRecord == [state |-> "NONE", http |-> "none"]
NothingSeen == [status |-> "NONE", version |-> 0, record |-> NoRecord]
NoReply == [http |-> "none", status |-> "NONE", transfer |-> NoTransfer]

\* What a read of the transfer row returns.
Row(t) == [status |-> status[t], version |-> version[t], record |-> record[t]]

-----------------------------------------------------------------------------
(* Steps of a process *)

Go(p, label) == pc' = [pc EXCEPT ![p] = label]

\* A request is answered and over; a reconciler goes on to the next transfer.
Answer(p, http, st) ==
  /\ Go(p, IF p \in Request THEN "done" ELSE "idle")
  /\ reply' = IF p \in Request
              THEN [reply EXCEPT ![p] = [http |-> http, status |-> st,
                                         transfer |-> target[p]]]
              ELSE reply

\* resultForTransfer and processingResult.
HttpStatus(st) == CASE st = "COMPLETED" -> "201" [] st = "FAILED" -> "422" [] OTHER -> "202"
AnswerWith(p, st) == Answer(p, HttpStatus(st), st)

\* The failure that fail will store, as its HTTP status.
GoFail(p, http) == Go(p, "fail") /\ call' = [call EXCEPT ![p] = http]

Fault == faults < MaxFaults /\ faults' = faults + 1

\* 1 to 128 visible characters; the empty key stands for all others.
validateIdempotencyKey(c) == c.key # ""

\* validateCommand and validateInternationalCommand: two wallets and, across
\* currencies, two currencies.  The test of the amount is isPositive, which is
\* true of zero.
validateCommand(c) == c.payload # "malformed"

\* The controller passes on the key and the body.
Receive(p, c) ==
  /\ p \in Request /\ pc[p] = "idle"
  /\ cmd' = [cmd EXCEPT ![p] = c]
  /\ IF validateIdempotencyKey(c) /\ validateCommand(c)
     THEN Go(p, "find") /\ UNCHANGED reply
     ELSE Answer(p, "400", "NONE")
  /\ UNCHANGED <<store, world, target, seen, call, faults>>

\* Mutant: a key is looked up together with the payload it came with.
WithKeyMutant(c) == {t \in Created : command[t] = c}

\* The transfers whose idempotency record has the key of command c.
WithKey(c) == {t \in Created : command[t].key = c.key}

\* findByKey reads the transfer together with its idempotency record.
Adopt(p, t) ==
  /\ target' = [target EXCEPT ![p] = t]
  /\ seen' = [seen EXCEPT ![p] = Row(t)]
  /\ Go(p, "existing")

FindByKey(p) ==
  /\ pc[p] = "find"
  /\ \/ \E t \in WithKey(cmd[p]) : Adopt(p, t)
     \/ WithKey(cmd[p]) = {} /\ Go(p, "claim") /\ UNCHANGED <<target, seen>>
  /\ UNCHANGED <<store, world, cmd, call, reply, faults>>

\* transfers_fx_quote_id_key: a quote belongs to one transfer row.
QuoteTaken(c) ==
  c.quote # "none" /\ \E t \in Created : command[t].quote = c.quote

\* transfers_amount_check: the amount is above zero.
AmountCheck(c) == c.payload # "zero"

\* claim and claimInternational: one transaction inserts the transfer, the
\* idempotency record and, for a domestic transfer, the history rows.
Claim(p) ==
  LET c == cmd[p] IN
  /\ pc[p] = "claim"
  /\ AmountCheck(c) /\ WithKey(c) = {} /\ ~QuoteTaken(c)
  /\ status' = [status EXCEPT ![p] = "PENDING"]
  /\ command' = [command EXCEPT ![p] = c]
  /\ record' = [record EXCEPT ![p] = [state |-> "PROCESSING", http |-> "none"]]
  /\ history' = [history EXCEPT ![p] = IF c.type = "DOMESTIC" THEN "PENDING" ELSE "NONE"]
  /\ target' = [target EXCEPT ![p] = p]
  /\ seen' = [seen EXCEPT ![p] = [status |-> "PENDING", version |-> version[p],
                                  record |-> record'[p]]]
  /\ Go(p, IF c.type = "DOMESTIC" THEN "transition" ELSE "prepare")
  /\ UNCHANGED <<version, world, cmd, call, reply, faults>>

\* The unique index on client and key, or the one on the quote, let another
\* request win.
ClaimLost(p) ==
  /\ pc[p] = "claim" /\ AmountCheck(cmd[p])
  /\ \/ \E t \in WithKey(cmd[p]) : Adopt(p, t) /\ UNCHANGED reply
     \/ /\ WithKey(cmd[p]) = {} /\ QuoteTaken(cmd[p])
        /\ Answer(p, "409", "NONE") /\ UNCHANGED <<target, seen>>
  /\ UNCHANGED <<store, world, cmd, call, faults>>

\* The database refuses the row, before it looks at any index; that is no unique
\* violation, and the request ends as an internal error.
ClaimRefused(p) ==
  /\ pc[p] = "claim" /\ ~AmountCheck(cmd[p])
  /\ Answer(p, "500", "NONE")
  /\ UNCHANGED <<store, world, cmd, target, seen, call, faults>>

\* Mutant: the request hash is not compared.
HandleExistingMutant(p) ==
  /\ pc[p] = "existing"
  /\ IF target[p] \in expired THEN Answer(p, "409", "NONE")
     ELSE IF seen[p].record.state # "PROCESSING"
     THEN Answer(p, seen[p].record.http, seen[p].record.state)
     ELSE Go(p, "reconcile") /\ UNCHANGED reply
  /\ UNCHANGED <<store, world, cmd, target, seen, call, faults>>

\* handleExisting works on the record that findByKey returned.
HandleExisting(p) ==
  LET t == target[p] IN
  /\ pc[p] = "existing"
  /\ \/ /\ command[t] # cmd[p] /\ Answer(p, "409", "NONE")
     \/ /\ command[t] = cmd[p] /\ t \in expired /\ Answer(p, "409", "NONE")
     \/ /\ command[t] = cmd[p] /\ t \notin expired
        /\ IF seen[p].record.state # "PROCESSING"
           THEN Answer(p, seen[p].record.http, seen[p].record.state)
           ELSE Go(p, "reconcile") /\ UNCHANGED reply
  /\ UNCHANGED <<store, world, cmd, target, seen, call, faults>>

\* transition(PENDING, PROCESSING) of a domestic transfer and its history.
Transition(p) ==
  LET t == target[p] IN
  /\ pc[p] = "transition"
  /\ IF status[t] = "PENDING"
     THEN /\ status' = [status EXCEPT ![t] = "PROCESSING"]
          /\ version' = [version EXCEPT ![t] = @ + 1]
          /\ history' = [history EXCEPT ![t] = "PROCESSING"]
     ELSE UNCHANGED <<status, version, history>>
  /\ Go(p, "process")
  /\ UNCHANGED <<command, record, world, cmd, target, seen, call, reply, faults>>

-----------------------------------------------------------------------------
(* Reconciliation *)

\* Mutant: only pending international transfers are scanned.
FindStaleMutant(t) == status[t] = "PENDING" /\ International(t)

\* The transfers that findStale returns once they are old enough.
FindStale(t) ==
  \/ status[t] = "PROCESSING"
  \/ status[t] = "PENDING" /\ International(t)

\* runOnce takes one of the transfers that findStale returned.
StartReconcile(w, t) ==
  /\ w \in Reconciler /\ pc[w] = "idle"
  /\ FindStale(t)
  /\ target' = [target EXCEPT ![w] = t]
  /\ Go(w, "reconcile")
  /\ UNCHANGED <<store, world, cmd, seen, call, reply, faults>>

\* reconcile reads the transfer and decides what to do with it.
Reconcile(p) ==
  LET t == target[p] IN
  /\ pc[p] = "reconcile"
  /\ seen' = [seen EXCEPT ![p] = Row(t)]
  /\ \/ /\ status[t] = "PENDING" /\ International(t)
        /\ Go(p, "reread") /\ UNCHANGED reply
     \/ /\ status[t] = "PROCESSING"
        /\ Go(p, "byReference") /\ UNCHANGED reply
     \/ /\ status[t] \in Terminal \/ (status[t] = "PENDING" /\ ~International(t))
        /\ AnswerWith(p, status[t])
  /\ UNCHANGED <<store, world, cmd, target, call, faults>>

\* reconcile reads a pending international transfer again with its record, and
\* prepareInternational looks at the status that this read returned.
Reread(p) ==
  LET t == target[p] IN
  /\ pc[p] = "reread"
  /\ seen' = [seen EXCEPT ![p] = Row(t)]
  /\ IF status[t] = "PENDING"
     THEN Go(p, "prepare") /\ UNCHANGED reply
     ELSE AnswerWith(p, status[t])
  /\ UNCHANGED <<store, world, cmd, target, call, faults>>

\* ledger.byReference.  A client's retry gives up on a transfer that is not
\* stale yet; a forced one never does.
ByReference(p) ==
  /\ pc[p] = "byReference"
  /\ \/ target[p] \in posted /\ Go(p, "complete") /\ UNCHANGED reply
     \/ /\ target[p] \notin posted
        /\ \/ Go(p, "retry") /\ UNCHANGED reply
           \/ p \notin Reconciler /\ AnswerWith(p, "PROCESSING")
  /\ UNCHANGED <<store, world, cmd, target, seen, call, faults>>

\* Mutant: the version that was read is not compared.
ClaimRetryMutant(p) ==
  LET t == target[p] IN
  /\ pc[p] = "retry"
  /\ IF status[t] = "PROCESSING"
     THEN /\ version' = [version EXCEPT ![t] = @ + 1]
          /\ Go(p, "process") /\ UNCHANGED reply
     ELSE /\ UNCHANGED version
          /\ AnswerWith(p, status[t])
  /\ UNCHANGED <<status, command, record, history, world, cmd, target, seen, call, faults>>

\* claimProcessingRetry compares and increments the version that was read.
ClaimRetry(p) ==
  LET t == target[p] IN
  /\ pc[p] = "retry"
  /\ IF status[t] = "PROCESSING" /\ version[t] = seen[p].version
     THEN /\ version' = [version EXCEPT ![t] = @ + 1]
          /\ Go(p, "process") /\ UNCHANGED reply
     ELSE /\ UNCHANGED version
          /\ AnswerWith(p, status[t])
  /\ UNCHANGED <<status, command, record, history, world, cmd, target, seen, call, faults>>

-----------------------------------------------------------------------------
(* FX preparation *)

\* A quote is free for t, or its own already.
QuoteOpen(t) == consumer[command[t].quote] \in {t, NoTransfer}
Consumed(t) == [consumer EXCEPT ![command[t].quote] = t]

\* Mutant: the refusal of FX is ignored.
PrepareInternationalMutant(p) ==
  LET t == target[p]
      q == command[t].quote
  IN
  /\ pc[p] = "prepare" /\ call[p] = "none"
  /\ \/ q \notin lapsed /\ call' = [call EXCEPT ![p] = "consume"] /\ UNCHANGED pc
     \/ q \in lapsed /\ Go(p, "prepared") /\ UNCHANGED call
  /\ UNCHANGED <<store, world, cmd, target, seen, reply, faults>>

\* prepareInternational calls FX, whose transaction starts by reading its clock
\* and the quote; handleFxFailure fails a transfer whose quote is refused.
PrepareInternational(p) ==
  LET t == target[p]
      q == command[t].quote
  IN
  /\ pc[p] = "prepare" /\ call[p] = "none"
  /\ \/ consumer[q] = t /\ Go(p, "prepared") /\ UNCHANGED call
     \/ /\ consumer[q] = NoTransfer /\ q \notin lapsed
        /\ call' = [call EXCEPT ![p] = "consume"] /\ UNCHANGED pc
     \/ /\ consumer[q] # t
        /\ consumer[q] # NoTransfer \/ q \in lapsed
        /\ GoFail(p, "409")
  /\ UNCHANGED <<store, world, cmd, target, seen, reply, faults>>

\* The update that binds the quote.  By now it may belong to another transfer,
\* or someone who looked at it has expired it.
FxConsume(p) ==
  LET t == target[p] IN
  /\ pc[p] = "prepare" /\ call[p] = "consume"
  /\ \/ /\ QuoteOpen(t) /\ consumer' = Consumed(t)
        /\ Go(p, "prepared") /\ call' = [call EXCEPT ![p] = "none"]
     \/ /\ consumer[command[t].quote] # t
        /\ ~QuoteOpen(t) \/ command[t].quote \in lapsed
        /\ UNCHANGED consumer /\ GoFail(p, "409")
  /\ UNCHANGED <<store, expired, posted, lapsed, late, cmd, target, seen, reply, faults>>

\* The transaction that stores the terms of the quote and creates the history
\* rows, if the transfer is still pending.
Prepared(p) ==
  LET t == target[p] IN
  /\ pc[p] = "prepared"
  /\ IF status[t] = "PENDING"
     THEN /\ status' = [status EXCEPT ![t] = "PROCESSING"]
          /\ version' = [version EXCEPT ![t] = @ + 1]
          /\ history' = [history EXCEPT ![t] = "PROCESSING"]
          /\ Go(p, "process") /\ UNCHANGED reply
     ELSE /\ UNCHANGED <<status, version, history>>
          /\ AnswerWith(p, status[t])
  /\ UNCHANGED <<command, record, world, cmd, target, seen, call, faults>>

-----------------------------------------------------------------------------
(* Processing *)

\* process reads the transfer before it calls anyone.
ReadForProcess(p) ==
  LET t == target[p] IN
  /\ pc[p] = "process"
  /\ IF status[t] = "PROCESSING"
     THEN Go(p, "validate") /\ UNCHANGED reply
     ELSE AnswerWith(p, status[t])
  /\ UNCHANGED <<store, world, cmd, target, seen, call, faults>>

\* Both wallets are read from Account and validated; then the posting is sent.
ValidateWallets(p) ==
  /\ pc[p] = "validate"
  /\ IF command[target[p]].valid
     THEN Go(p, "posting") /\ call' = [call EXCEPT ![p] = "lookup"]
     ELSE GoFail(p, "409")
  /\ UNCHANGED <<store, world, cmd, target, seen, reply, faults>>

\* handleAccountFailure fails the transfer even when Account merely did not
\* answer.
AccountUnavailable(p) ==
  /\ pc[p] = "validate" /\ Fault
  /\ GoFail(p, "503")
  /\ UNCHANGED <<store, world, cmd, target, seen, reply>>

\* The Ledger's side of a call: the lookup by reference, then the posting.
\* What is already posted is returned; a posting that came in between is
\* returned too, unless it left no funds for the second one.
LedgerLookup(p) ==
  /\ pc[p] = "posting" /\ call[p] = "lookup"
  /\ call' = [call EXCEPT ![p] = IF target[p] \in posted THEN "ok" ELSE "post"]
  /\ UNCHANGED <<store, world, pc, cmd, target, seen, reply, faults>>

LedgerPost(p) ==
  /\ pc[p] = "posting" /\ call[p] = "post"
  /\ \/ posted' = posted \cup {target[p]} /\ call' = [call EXCEPT ![p] = "ok"]
     \/ UNCHANGED posted /\ call' = [call EXCEPT ![p] = "refused"]
  /\ UNCHANGED <<store, expired, consumer, lapsed, late, pc, cmd, target, seen, reply, faults>>

\* Mutant: response.ok is not looked at.
LedgerAnswerMutant(p) ==
  /\ pc[p] = "posting" /\ call[p] \in {"ok", "refused"}
  /\ Go(p, "complete") /\ call' = [call EXCEPT ![p] = "none"]
  /\ UNCHANGED <<store, world, cmd, target, seen, reply, faults>>

\* The answer of the Ledger arrives.
LedgerAnswer(p) ==
  /\ pc[p] = "posting" /\ call[p] \in {"ok", "refused"}
  /\ IF call[p] = "ok"
     THEN Go(p, "complete") /\ call' = [call EXCEPT ![p] = "none"]
     ELSE GoFail(p, "422")
  /\ UNCHANGED <<store, world, cmd, target, seen, reply, faults>>

\* Mutant: the update has no condition on the status.
CompleteMutant(p) ==
  LET t == target[p] IN
  /\ pc[p] = "complete"
  /\ status' = [status EXCEPT ![t] = "COMPLETED"]
  /\ version' = [version EXCEPT ![t] = @ + 1]
  /\ history' = [history EXCEPT ![t] = "COMPLETED"]
  /\ record' = [record EXCEPT ![t] = [state |-> "COMPLETED", http |-> "201"]]
  /\ AnswerWith(p, "COMPLETED")
  /\ UNCHANGED <<command, world, cmd, target, seen, call, faults>>

\* complete: transfer, history and idempotency record in one transaction, only
\* if the transfer is being processed.
Complete(p) ==
  LET t == target[p] IN
  /\ pc[p] = "complete"
  /\ IF status[t] = "PROCESSING"
     THEN /\ status' = [status EXCEPT ![t] = "COMPLETED"]
          /\ version' = [version EXCEPT ![t] = @ + 1]
          /\ history' = [history EXCEPT ![t] = "COMPLETED"]
          /\ record' = [record EXCEPT ![t] = [state |-> "COMPLETED", http |-> "201"]]
     ELSE UNCHANGED <<status, version, history, record>>
  /\ AnswerWith(p, status'[t])
  /\ UNCHANGED <<command, world, cmd, target, seen, call, faults>>

\* Mutant: the number of updated transfers is not looked at.
FailMutant(p) ==
  LET t == target[p] IN
  /\ pc[p] = "fail"
  /\ status' = [status EXCEPT ![t] = IF @ \in Terminal THEN @ ELSE "FAILED"]
  /\ version' = [version EXCEPT ![t] = @ + 1]
  /\ history' = [history EXCEPT ![t] = IF @ = "NONE" THEN @ ELSE "FAILED"]
  /\ record' = [record EXCEPT ![t] = [state |-> "FAILED", http |-> call[p]]]
  /\ Answer(p, call[p], "FAILED")
  /\ call' = [call EXCEPT ![p] = "none"]
  /\ UNCHANGED <<command, world, cmd, target, seen, faults>>

\* fail: the same for a transfer that is not terminal; the rows of history that
\* exist follow it.
Fail(p) ==
  LET t == target[p] IN
  /\ pc[p] = "fail"
  /\ IF status[t] \in {"PENDING", "PROCESSING"}
     THEN /\ status' = [status EXCEPT ![t] = "FAILED"]
          /\ version' = [version EXCEPT ![t] = @ + 1]
          /\ history' = [history EXCEPT ![t] = IF @ = "NONE" THEN @ ELSE "FAILED"]
          /\ record' = [record EXCEPT ![t] = [state |-> "FAILED", http |-> call[p]]]
          /\ Answer(p, call[p], "FAILED")
     ELSE /\ UNCHANGED <<status, version, history, record>>
          /\ AnswerWith(p, status[t])
  /\ call' = [call EXCEPT ![p] = "none"]
  /\ UNCHANGED <<command, world, cmd, target, seen, faults>>

-----------------------------------------------------------------------------
(* Faults and the world outside *)

\* The call p waits for goes on without it.
Abandon(p) ==
  /\ late' = late \cup (IF pc[p] = "prepare"
                        THEN {<<IF call[p] = "consume" THEN "consume" ELSE "fx", target[p]>>}
                        ELSE IF call[p] \in {"lookup", "post"} THEN {<<"ledger", target[p]>>}
                        ELSE {})
  /\ call' = [call EXCEPT ![p] = "none"]

\* A call to FX or the Ledger times out after two seconds, is lost, or comes
\* back with a server error: the caller answers 202 and leaves the transfer.
CallFails(p) ==
  /\ pc[p] \in {"prepare", "posting", "byReference"} /\ Fault
  /\ Abandon(p)
  /\ AnswerWith(p, IF pc[p] = "prepare" THEN seen[p].status ELSE "PROCESSING")
  /\ UNCHANGED <<store, expired, posted, consumer, lapsed, cmd, target, seen>>

\* The process dies between two steps; its client gets no answer.
Crash(p) ==
  /\ pc[p] \notin {"idle", "done"} /\ Fault
  /\ Abandon(p)
  /\ Answer(p, "lost", "NONE")
  /\ UNCHANGED <<store, expired, posted, consumer, lapsed, cmd, target, seen>>

\* A call nobody waits for takes effect, or never does.
LateCall(k) ==
  /\ late' = late \ {k}
  /\ \/ k[1] = "ledger" /\ posted' = posted \cup {k[2]} /\ UNCHANGED consumer
     \/ /\ k[1] = "consume" \/ (k[1] = "fx" /\ command[k[2]].quote \notin lapsed)
        /\ QuoteOpen(k[2]) /\ consumer' = Consumed(k[2]) /\ UNCHANGED posted
     \/ UNCHANGED <<posted, consumer>>
  /\ UNCHANGED <<store, expired, lapsed, pc, cmd, target, seen, call, reply, faults>>

\* 24 hours after the claim; a quote lives for a minute.
ReplayWindowEnds(t) ==
  /\ t \in Created \ expired
  /\ command[t].quote \in lapsed \cup {"none"}
  /\ expired' = expired \cup {t}
  /\ UNCHANGED <<store, posted, consumer, lapsed, late, pc, cmd, target, seen, call, reply, faults>>

QuoteLapses(q) ==
  /\ q \in Quote \ lapsed
  /\ lapsed' = lapsed \cup {q}
  /\ UNCHANGED <<store, expired, posted, consumer, late, pc, cmd, target, seen, call, reply, faults>>

-----------------------------------------------------------------------------
Init ==
  /\ status = [t \in Request |-> "NONE"]
  /\ version = [t \in Request |-> 0]
  /\ command = [t \in Request |-> NoCommand]
  /\ record = [t \in Request |-> NoRecord]
  /\ history = [t \in Request |-> "NONE"]
  /\ expired = {} /\ posted = {} /\ lapsed = {} /\ late = {}
  /\ consumer = [q \in Quote |-> NoTransfer]
  /\ pc = [p \in Process |-> "idle"]
  /\ cmd = [p \in Process |-> NoCommand]
  /\ target = [p \in Process |-> NoTransfer]
  /\ seen = [p \in Process |-> NothingSeen]
  /\ call = [p \in Process |-> "none"]
  /\ reply = [p \in Request |-> NoReply]
  /\ faults = 0

\* What a process does by itself, without waiting for the Ledger.
Step(p) ==
  \/ FindByKey(p) \/ Claim(p) \/ ClaimLost(p) \/ ClaimRefused(p) \/ HandleExisting(p) \/ Transition(p)
  \/ Reconcile(p) \/ Reread(p) \/ ByReference(p) \/ ClaimRetry(p)
  \/ PrepareInternational(p) \/ FxConsume(p) \/ Prepared(p) \/ ReadForProcess(p) \/ ValidateWallets(p)
  \/ LedgerLookup(p) \/ LedgerPost(p) \/ LedgerAnswer(p) \/ Complete(p) \/ Fail(p)

\* All requests are answered and there is nothing to reconcile.
Quiet == /\ \A p \in Request : pc[p] = "done"
         /\ \A w \in Reconciler : pc[w] = "idle"
         /\ UNCHANGED vars

Next ==
  \/ \E p \in Process : Step(p) \/ AccountUnavailable(p) \/ CallFails(p) \/ Crash(p)
  \/ \E p \in Request, c \in Command : Receive(p, c)
  \/ \E w \in Reconciler, t \in Request : StartReconcile(w, t)
  \/ \E k \in late : LateCall(k)
  \/ \E t \in Request : ReplayWindowEnds(t)
  \/ \E q \in Quote : QuoteLapses(q)
  \/ Quiet

\* Node keeps running what it started, and the interval timer of the
\* reconciler keeps coming back to every stale transfer.
Fairness ==
  /\ \A p \in Process : WF_vars(Step(p))
  /\ \A w \in Reconciler, t \in Request : SF_vars(StartReconcile(w, t))

Spec == Init /\ [][Next]_vars
FairSpec == Spec /\ Fairness
-----------------------------------------------------------------------------
(* Properties *)

Labels == {"idle", "find", "claim", "existing", "transition", "reconcile", "reread",
           "byReference", "retry", "prepare", "prepared", "process", "validate",
           "posting", "complete", "fail", "done"}
Statuses == {"NONE", "PENDING", "PROCESSING"} \cup Terminal

\* Types.
TypeOK ==
  /\ status \in [Request -> Statuses]
  /\ history \in [Request -> Statuses]
  /\ version \in [Request -> Nat]
  /\ pc \in [Process -> Labels]
  /\ target \in [Process -> Request \cup {NoTransfer}]
  /\ posted \subseteq Request
  /\ faults \in 0..MaxFaults

\* A transfer is only reported completed when the Ledger moved the money,
\* whichever request, retry or reconciler completed it; and nothing is claimed,
\* sent to the Ledger or kept waiting for an amount of zero, which passes the
\* validation of the service.
CompletedMeansPosted ==
  /\ \A t \in Request : status[t] = "COMPLETED" => t \in posted
  /\ \A t \in Created \cup posted : command[t].payload \notin {"none", "zero"}

\* The three tables tell one story: a transfer and its idempotency record appear
\* together, a stored response exists exactly for a terminal transfer and is for
\* its outcome, and the wallets' history shows the status of the transfer,
\* although complete, fail and transition race.
TablesAgree ==
  /\ \A t \in Request : (status[t] = "NONE") = (record[t] = NoRecord)
  /\ \A t \in Created :
       /\ IF status[t] \in Terminal THEN record[t].state = status[t]
          ELSE record[t].state = "PROCESSING"
       /\ (record[t].http = "none") = (record[t].state = "PROCESSING")
       /\ \/ history[t] = status[t]
          \/ history[t] = "NONE" /\ International(t) /\ status[t] \in {"PENDING", "FAILED"}

\* One idempotency key creates one transfer and one FX quote serves one
\* transfer, however many duplicates arrive together.
ClaimsAreUnique ==
  \A t, u \in Created :
    \/ t = u
    \/ /\ command[t].key # command[u].key
       /\ command[t].quote # command[u].quote \/ command[t].quote = "none"

\* A client that is told an outcome is told the outcome of a transfer with the
\* payload it sent, and that outcome is the transfer's for good.
RepliesHold ==
  \A r \in Request : reply[r].status \in Terminal =>
    /\ reply[r].transfer \in Created
    /\ command[reply[r].transfer] = cmd[r]
    /\ status[reply[r].transfer] = reply[r].status

\* Money moves across currencies only under a quote that FX has bound to that
\* very transfer.
QuoteBoundFirst ==
  \A t \in Created : International(t) /\ (t \in posted \/ status[t] \in {"PROCESSING", "COMPLETED"})
    => consumer[command[t].quote] = t

\* A transfer is processed again from a version that nobody else went on from:
\* of a client's retry and the reconciler, which have both read the same stale
\* row, one goes on to the wallets and the Ledger (claimProcessingRetry compares
\* the version).  The creator has read version zero.
Retrying(p) == pc[p] \in {"process", "validate", "posting"}
OneRetryPerVersion ==
  \A p, q \in Process :
    p # q /\ Retrying(p) /\ Retrying(q) /\ target[p] = target[q] =>
      seen[p].version # seen[q].version

\* Every transfer settles and stays settled, whatever crashed or timed out,
\* because the reconciler comes back to it: except a domestic one whose process
\* died before the transition to PROCESSING, which findStale does not select.
RecoverableSettles ==
  \A t \in Request :
    status[t] # "NONE" ~>
      [](\/ status[t] \in Terminal
         \/ status[t] = "PENDING" /\ ~International(t) /\ faults > 0)

\* The transfers of this module follow the promised life cycle, so that none of
\* their updates is one that the triggers of the database refuse.
L == INSTANCE Lifecycle WITH Transfer <- Request, record <- [t \in Request |-> record[t].state]
FollowsLifecycle == L!Spec

-----------------------------------------------------------------------------
(* Stronger than what the code does; the README tells how it fails *)

\* README: a transfer whose posting the Ledger has committed, while the answer to
\* its caller was lost or too late so that the client was told 202, stays in
\* processing until it is completed.
LostAnswerStaysProcessing ==
  [][\A r \in Request :
       LET t == reply[r].transfer IN
       reply[r].http = "202" /\ t \in posted /\ status[t] = "PROCESSING" =>
         status'[t] \in {"PROCESSING", "COMPLETED"}]_vars

\* No failed transfer has moved money, whatever became of the answer.
FailedMeansUnposted == \A t \in Request : status[t] = "FAILED" => t \notin posted

\* decisions.md: a transfer uses only actionable states, which stale records
\* leave by reconciliation.
EveryTransferSettles == \A t \in Request : status[t] # "NONE" ~> status[t] \in Terminal

\* README: definitive failures are stored and replayed; every answer with the
\* outcome of a failed transfer has the stored HTTP status.
FailuresAreReplayed ==
  \A r \in Request : reply[r].status = "FAILED" =>
    reply[r].http = record[reply[r].transfer].http
=============================================================================
