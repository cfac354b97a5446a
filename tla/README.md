# TLA+ models of NovaPay

NovaPay is a set of NestJS services over PostgreSQL, Redis and BullMQ that move
money between wallets: Account, Ledger, Transaction, FX, Payroll and Admin, each
with a database of its own, behind an Nginx gateway. This directory models the
part of it that decides whether money is right: what concurrent requests,
retries, crashes, late calls and background jobs do to the tables of each
service. Every operation is modelled await by await; between two awaits Node
runs nothing else, and a database transaction is split into its statements
wherever another transaction can come in between.

Run a model with `tlc -workers 2 -config X.cfg MCx`, the proofs of a module with
`tlapm XProofs.tla`.

## Inventory

| component | state | operations | interacts with |
|---|---|---|---|
| Ledger posting engine (`ledger-service/src/ledger/posting.service.ts`) | `ledger_transactions`, `ledger_entries`, `wallet_balances` | post, fund, reverse, byReference | called by Transaction and by test fixtures |
| Ledger accounts (`ledger-account.service.ts`) | `ledger_accounts` | provision, balance reads | called by Account |
| Ledger invariant check (`ledger-invariant.service.ts`) | `ledger_invariant_checks` | verify | reads the Ledger's tables |
| Transfer orchestration (`transaction-service/src/transfers/transfer.service.ts`) | `transfers`, `idempotency_records`, `transaction_history` | createDomestic, createInternational, reconcile, process, complete, fail | calls Account, FX, Ledger |
| Transfer reconciliation (`reconciliation.service.ts`) | a timer | findStale, forced reconcile | transfer orchestration |
| Wallet history (`history/`) | `transaction_history` | pages with a cursor, rebuild command | transfer orchestration |
| FX quotes (`fx-service/src/quotes/`) | `fx_quotes` | create, get, consume | a rate provider; called by Transaction |
| Audit chain (`admin-service/src/audit/`) | `audit_streams`, `audit_records` | append, verify, records | called by Account and Payroll |
| Wallets (`account-service/src/wallets`) | `wallets`, `wallet_idempotency_records` | create, reconcile, validation, list, balance | calls Ledger and Admin; called by Transaction |
| Identities (`account-service/src/identity`) | `users` | ensureUser, update, get, lookup, the command rewrap | calls Admin; called by wallets |
| Identity cryptography (`identity-crypto.service.ts`) | a key ring | encrypt, decrypt, rewrapDek, emailDigest | identities |
| Payroll submission and queue (`payroll-service/src/payroll/payroll.service.ts`, `queue/`) | `payroll_jobs`, `payroll_items`, its idempotency records, BullMQ | submit, replay, enqueue, recovery scan | Redis |
| Payroll processor and lease (`payroll-processor.service.ts`, `employer-lease.service.ts`) | items and counters, Redis leases | claim, execute, checkpoint, finalize, acquire, renew, release | calls Transaction |
| Guards, filters, logging, health, metrics, gateway, tooling | none that a property is about | | |

What is hard, and what makes each component correct:

* **Ledger.** Requests interleave at every await, two of them may carry the same
  reference, balances are overwritten with values computed earlier, and the
  database aborts transactions. Correct means: balances are the sum of the
  journal, currencies sum to zero, no wallet is below zero, one reference is one
  posting, one posting has one reversal, and nobody waits for ever.
* **Transfer.** A call that timed out may still take effect. Three tables must
  tell one story, a key or a quote belongs to one transfer, an answer that was
  given must stay true, and a transfer must settle whoever dies.
* **FX.** Reads expire quotes that consumers claim. One consumer per quote,
  within its life, at the price that was shown.
* **Audit.** Appends to one stream race, the same event is sent twice, records
  are tampered with. The chain is unbroken, an event is there once, and a stream
  that is called valid is genuine.
* **Account.** A wallet exists in two services and in the audit trail, and each
  call may fail. A wallet has the one key that created it, and an active wallet
  has its Ledger account.
* **Identity.** Rows are encrypted under two levels of keys, by requests on
  instances that may disagree about the active key, and by a command that reads
  all rows and writes them back one by one. A stored identity can be read, an
  acknowledged one stays and is audited, and after a rotation the old key is not
  needed.
* **Payroll.** Workers are overtaken by others, instances die, Redis forgets. An
  item is counted once and paid before it is called completed, and every job ends.
* **History.** Rows are inserted and rewritten while a client turns pages and
  while the rebuild command runs.

`PROJECT.json` lists each such hazard at its line, with the properties that would
catch it going wrong, and a note where the code itself does.

## Plan

1. Done: `Ledger` first, because everything else trusts it, with its inductive
   invariant; then `Transfer` with its abstract specification `Lifecycle`; then
   the services they call (`Quote`, `Audit`, `Account`); then the two batch
   processes (`Payroll`, `History`).
2. Done: `Identity` with its cryptography and key rotation, and
   `AuditedIdentity`, which composes it with `Audit`; the validation of requests
   in front of `Account`, `Transfer`, `Payroll` and `Ledger`; `Lifecycle`
   extended to commands and idempotency records.
3. Done: proofs of every safety property the runs check, in every module, with two
   refinements: `Transfer` of `Lifecycle`, and `AuditedIdentity` of `Identity`.
4. Left for later: `Transfer` over `Ledger` and `Quote` in place of the sets
   `posted` and `consumer`, and `Payroll` over `Lifecycle` in place of `transfer`.
   As whole modules their products are out of TLC's reach with two requests; what
   each side assumes of the other is what the other's properties state (one
   reference, one posting: ExactlyOnce; one consumer: OneConsumer).

## Modules

Each module has one record of local state per request (`pc`, `cmd` and what the
handler keeps in its variables), and one action per stretch of code between two
awaits. Requests do not repeat: a retry is another request with the same body.
`X.tla` is the component and its properties, `MCX.tla` the instances for TLC,
`XProofs.tla` its theorems.
Each property has a mutant beside the definition it breaks (`FooMutant` next to
`Foo`): a plausible slip in that code, under which TLC finds the property
violated.

**Ledger** (posting.service.ts, ledger-account.service.ts, the Ledger's migrations).
`accounts`, `balance`, `version`, `journal` are the tables, `owner` the row
locks. `ReceivePost`, `ReceiveFunding`, `ReceiveReversal`, `FindIdempotent`,
`Resolve`, `CreateClearing`, `ClearingReady` are the reads before the
transaction; `BeginTransaction`, `LockRow`, `CheckFunds`, `Commit`,
`InsertConflict` are postResolved; `RowChanged` and `SerializationFailure` are
the two ways in which PostgreSQL aborts a SERIALIZABLE transaction, and
`RetryOrThrow` the loop around it. Whether Prisma reports a failed raw query as
P2034, which is retried, or as P2010, which is not, depends on its version: both
are allowed. `Crash` is the loss of the process or of its connection. Amounts
are small integers. The positivity test of validateResolved accepts zero, as
Decimal.isPositive does; the table's CHECK refuses it. No code ever makes an
account FROZEN or CLOSED, so statuses are left out.

**Transfer** and **Lifecycle** (transfer.service.ts, reconciliation.service.ts,
the clients). `status`, `version`, `record`, `history` are the tables; `posted`
and `consumer` are what the Ledger and FX have done. A call is separate from its
effect: `Abandon` leaves it in `late`, and `LateCall` performs it at any later
time. Whether a transfer is stale is either answer of the clock; the 24 hour
window of a key and the life of a quote end at any time (`ReplayWindowEnds`,
`QuoteLapses`), the quote's first. `Receive` is the controller with
`validateIdempotencyKey` and `validateCommand`; a payload is "a", "b", "zero" or
"malformed", and an amount of zero passes, because the test is isPositive, and is
then refused by the CHECK of the table (`ClaimRefused`). `Lifecycle` is what a
caller may rely on and what the triggers of the database enforce: a transfer is
claimed with a command that it keeps, put into processing and settled once,
together with its idempotency record; the Ledger posts only for transfers that
were put into processing, and only a posted one is completed.

**Quote** (quote.service.ts, fx-provider.ts, the quote migrations). Every
transaction reads the database clock once (`now`) and acts on it however late
(`Tick` in between). `Expire` and `Claim` are the second statements of get and
consume; the update that consume makes before it throws QUOTE_EXPIRED is rolled
back with it. `TransitionAllowed` is the trigger, `TransferFree` the unique index.

**Audit** (audit.service.ts, audit.controller.ts). `head`, `records`, the lock on
the stream row, and the two statements of verify and records. A hash is the
sequence of what it covers, so that hashes do not collide; what it covers is what
computeAuditHash puts in, which leaves out the event id. `Tamper` changes the event
id of a stored record, its data, or its data with a hash that fits (`Changed`),
deletes it, or swaps two; `genuine` remembers what was appended.

**Account** (wallet.service.ts, wallet.controller.ts, the clients). Each read,
insert and call is a step; `Provision` and `AppendEvent` are the effects in
Ledger and Admin, `ProvisionFails` and `AppendFails` lose the call before or
after them. `FindWallets` and `ReadBalances` are list and balance, `FindWallet`
is validation and the start of reconcile. Whether a user has a row is all that
wallets need of it.

**Identity** (identity.service.ts, identity-crypto.service.ts, rewrap.ts).
Encryption is symbolic: `encryptAesGcm` is a box that names its key, text and
associated data, and `Opens` says which key and data open it. A row has two boxes,
the identity under a data key and the data key under a key encryption key, as
`encrypt` and `rewrapDek` build them; a data key is named by the request that drew
it. A field of an identity has a text and a spelling, which `normalizeIdentity`
removes. `FindUser`, `Backfill`, `CreateUser` and `FindWinner` are ensureUser,
`Update`, `Get` and `Lookup` the other operations. `StartRewrap` is the one read of
all rows and `RewrapUser` the write of one of them; `RewrapCrash` is the end of the
process. A rotation is what the configuration allows: every ring has both keys,
instances are replaced one by one, so that a request meets either active version
until `Deploy`, which waits for the old instances to drain, and rewrap is run with
the new configuration, before or after that. `raced` is a history variable.

**AuditedIdentity** composes `Identity` with `Audit`: `Arrive` hands the event of
an update to an append of the Admin service, `Answered` returns its outcome,
`TimesOut` ends the wait after two seconds while the append goes on, and a call
may arrive after its caller has given up, or never. The other request of Audit is
that of an operator or of another service.

**Payroll** (payroll.service.ts, payroll-processor.service.ts, queue/). Jobs and items,
the BullMQ state of a job, the lease of an employer and Transaction's transfer for each
item: its status and, apart from it, whether its money moved. A worker's token is its
name, because a worker never uses two at a time. What a worker has read and claimed is a
set of items, of which it takes the lowest sequence number (`First`), as orderBy does.
`LeaseExpires` and `Stalled` let another worker overtake one that is still running;
`WorkerCrash` and `SubmitCrash` kill, `LateCall` reaches Transaction after the caller
gave up, `ReplayWindowEnds` forgets a key. BullMQ and Redis are external: modelled by
what the code relies on. Transaction is module Transfer reduced to what one call
(`Handled`), its own recovery (`TransferSettles`) and a late posting by the Ledger
(`LatePosting`) may leave of a transfer; as there, a transfer may be failed although its
money moved or moves later. Bodies are validated like those of transfers, and zero is
refused by the CHECK on items.

**History** (history-projection.service.ts, transfer.service.ts). One row per
transfer and wallet, transfers that commit after their timestamp, the rebuild
batch by batch, and a reader who follows the cursors. Rows have ids of their own
that they draw when they are created (`RowsBecome`): ids order rows of the same
instant, and a row that was lost and is created again has another. The HMAC on a
cursor is left out; a cursor is the row it stands for.

**Ordering** is what an ORDER BY returns, for History and Audit: the i-th row of a
finite set is the one that i - 1 others come before. **DataLemmas** has what the
proofs need to know of data: the least-number principle, induction over the subsets
of a finite set, sums, rows in order, and sequences with an element appended.

## Runs

Distinct states in parentheses. Symmetry is used for requests, workers and
transfers that are interchangeable, never in a run with a liveness property.

* **LedgerPosting** (0.68 M). Five accounts in two currencies, three requests out
  of seven bodies: funding, a domestic and an FX transfer that want the same
  money, its reference reused by a posting with both entries on one account,
  unbalanced legs, two reversals of the first posting; two attempts. Checks
  JournalMatchesBalances, MoneyConserved, NoOverdraft, ExactlyOnce,
  ReversalsAreExact, LockedRowsAreCurrent, NoMutualWait, PostingMovesBalances.
  Three requests are what it takes for one to fund and two to race, and for a
  posting to be reversed twice; two attempts are what it takes to repeat.
* **LedgerProgress** (0.15 M). Two wallets, three requests, two attempts:
  RequestsAnswered.
* **Transfers** (1.8 M). Two requests, one reconciler, one fault; a domestic
  transfer, an international one, one that takes the key of the first and the
  quote of the second, and one of zero. CompletedMeansPosted, TablesAgree,
  ClaimsAreUnique, RepliesHold, QuoteBoundFirst, OneRetryPerVersion, and
  FollowsLifecycle, the refinement of Lifecycle. A duplicate is the second request, a
  retry of an unfinished transfer the second request or the reconciler.
* **TransferProgress** (66 k). One request, one reconciler, three faults, bodies
  without a key and to the sender's own wallet: RecoverableSettles.
* **Quotes** (0.94 M). Three requests, two clients, two transfers, five terms, a
  quote that lives one unit of a clock that runs for two: ConsumedInTime,
  OneConsumer, PriceHonoured, SettledIsFinal. One request creates, two race.
* **Identities** (0.53 M). Two callers, a legacy and a new user who want one email
  in two spellings, six commands, two instants, one fault, one rotation; an
  operator or another service that reuses an event id, and one act of tampering:
  IdentitiesReadable, RotationComplete, UpdatesKept, UpdatesAudited, ChainIntact,
  RecordedOnce, ValidMeansGenuine. The constraint Focus explores the rotation and
  the operator's half one at a time: a behaviour that has started a rotation,
  met a fault or let time pass is followed until the operator comes in, and one
  with an operator or tampering as long as the keys, the clock and the calls stand
  still. The two halves share no variable but the events of updates, which carry
  the time of a row and nothing of its keys; concurrent appends from the callers,
  retries and late calls are in the first half, verification and tampering of
  what they appended in the second.
* **Accounts** (0.35 M). Three requests, one user, two currencies, two failed
  calls: WalletsHaveKeys, ActiveMeansProvisioned, CreatedMeansActive. Two calls
  are what it takes to fail a creation and its retry at different places.
* **PayrollWorkers** (1.9 M). One job of two items in one batch, two workers, two
  faults, which is what it takes for a worker to be overtaken and to come back:
  CountersMatchItems, FinishedMeansDone, ItemsMatchTransfers, ProgressIsKept. The
  constraint FirstItemExpires lets the replay window end for the first item only:
  the items are handled alike and one after the other.
* **PayrollProgress** (78 k). The same with one fault and one refused item:
  JobsFinish.
* **PayrollSubmit** (0.76 M). Two submissions (same key, same key with another
  payload or with one of zero, another job of the employer, no key, a malformed
  body), two workers, no faults: OneJobPerKey, OneWorkerPerEmployer. Replay windows
  do not end here (WindowsLast); they change nothing for keys of jobs and leases.
* **Histories** (2.3 M). Three transfers, two instants, four row ids, batches of two,
  pages of one, one damaged row: RebuildRepairs, PagesAreComplete. The constraint
  OneAtATime explores the repair of rows and the reading of them one at a time. In
  RebuildAlone there is no reader, whose steps change nothing of the tables, and row
  ids are drawn in turn, as nothing but a reader looks at them. In RowsOnly the
  reader walks while rows appear, one is lost, and the rebuild creates it again; the
  reader does not see what a row says of its transfer, so transfers stop once they
  have their rows. In RowsLast it walks after everything else is over.

One run, **TransferFailed** (one request, one reconciler, two faults: the timeout and
the outage), is expected to be violated; see *Statements*.

In all passing runs deadlock is checked: a state in which nothing can happen is
one where all requests are answered and all work is done.

**Fairness.** *Ledger*: weak fairness of every request's own steps. Node runs
every continuation that is ready and PostgreSQL grants a lock when it is free;
crashes and aborts are not fair, so progress does not depend on them. *Transfer*:
weak fairness of every process, and strong fairness of the reconciler taking up a
transfer, because the interval timer comes back and findStale takes the oldest
first, while whether a transfer is old enough at that moment varies. *Payroll*:
weak fairness of submissions and workers, of BullMQ handing out each waiting job,
of the recovery scan, of BullMQ's detection of stalled jobs and of the expiry of
the lease of a dead worker, which Redis guarantees, and of the end of the replay
window. Faults are never fair and each run bounds their number, so that the
services stay up in the end.

## Statements the code does not keep

One is checked by a run of its own, because it puts money at stake:
`TransferFailed` shows that the code violates LostAnswerStaysProcessing. A call to the
Ledger times out while it is still on its way, and the client is told 202. The
reconciler asks the Ledger, finds no posting and claims the transfer; now the late
call posts it. The second attempt begins with Account, which does not answer, and
process marks the transfer FAILED although its money has moved
(transfer.service.ts:523). README.md:306 says that such a transfer "remains
`PROCESSING` until reconciliation finds the posting". CompletedMeansPosted, the other
direction, holds.

The following are at the end of their modules and in no cfg; adding one to the cfg
named here shows the behaviour. The checked properties are stated around them.

* FailedMeansUnposted (Transfers): LostAnswerStaysProcessing is about the documented
  case, a client that was told 202; no failed transfer has moved money, whatever
  became of the answer, is refuted in the same way by one call that is merely slow.
* RefusedMeansUnposted (LedgerPosting): the reference is claimed by the insert,
  after the funds check, so the second of two copies of a transfer can be refused
  for INSUFFICIENT_FUNDS although the transfer is posted. decisions.md gives the
  opposite order. Nothing is posted twice (ExactlyOnce).
* EveryTransferSettles (TransferProgress): a domestic transfer whose process dies
  between the claim and the transition to PROCESSING stays PENDING; findStale
  selects pending transfers only when they are international. RecoverableSettles
  says that this is the only transfer that does not settle.
* FailuresAreReplayed (Transfers): a request that finds its transfer failed,
  other than through the stored response, is answered 422 whatever the stored
  HTTP status is.
* UsedMeansConsumed (Quotes): a consumer that a read overtakes at the expiry is
  told QUOTE_ALREADY_USED although nobody consumed the quote.
* ValidMeansUnchanged (Identities): computeAuditHash does not cover the event id
  (audit.service.ts:208), so a record whose event id was changed in the table is
  still part of a chain that verify calls valid, although README.md:403 counts
  canonical identifiers among what a hash covers. ValidMeansGenuine says that event
  ids are all that a valid chain can hide.
* InvalidMeansTampered (Identities): verify reads the head and the records in two
  statements; an append in between makes an untouched stream look broken.
* DuplicatesAreReplayed, RetriesSucceed (Accounts): of two overlapping copies of a
  creation, the second may be told WALLET_ALREADY_EXISTS, or may activate the
  wallet again, send the audit event with another time under the same id, and be
  told that the audit trail is unavailable. CreatedMeansActive says that the wallet
  is there all the same.
* AlwaysReadable (Identities): an identity that is updated or backfilled between
  rewrap's read of its row and the write gets the wrapped data key of the old
  ciphertext beside the new one, and cannot be decrypted any more; nor can it be
  repaired through the service, since update decrypts the old identity first
  (rewrap.ts:15). IdentitiesReadable says that no other interleaving does this.
* BackfillKeepsUpdates (Identities): of two first requests of a legacy user, one
  may store an identity and the other then overwrite it with the empty one
  (identity.service.ts:28). UpdatesKept is stated around it.
* RepeatedUpdatesSucceed (Identities): the event id covers the user and the
  identity, its body the updatedAt of the row. An identity that is set again after
  another one, or whose row rewrap or a concurrent copy wrote in between, sends the
  same id with another time; Admin answers 409, and the client is told that the
  audit trail is unavailable although the update is stored.
* FailedMeansUnpaid (PayrollWorkers): a failed item may have been paid in two ways.
  It was paid, not checkpointed, and tried again after the 24 hours of its key, and
  gets IDEMPOTENCY_KEY_EXPIRED; or Transaction itself called the transfer failed
  after its money had moved, as in `TransferFailed`. ItemsMatchTransfers says that
  an item otherwise ends as its transfer did.
* RebuiltMeansEqual (Histories): the rebuild reads a batch outside the transaction
  that writes it, and puts a transfer's old status back if it moved in between.
  RebuildRepairs is stated for the transfers that did not.
* TransfersShownOnce (Histories): a row that was lost and is created again by the
  rebuild has a new id, and among rows of one instant a walk may come past it a
  second time. PagesAreComplete is about rows, each of which is shown once.

## Proofs

A theorem holds for every value of the constants: any number of requests, workers
and accounts, any commands and any number of faults. The names are those of the
properties, with `Theorem` at the end. Every proof has the same plan: an inductive
invariant (`IInv`), which TLC checked first on the instance of the runs; `InitInv`;
one lemma per action; `NextInv`, which puts them together; and a theorem per
property, which follows from `Inductive`.

The properties are not inductive, because a handler acts on what it read some
awaits earlier. What the invariants add is the same in each service: what a
process at each of its labels may still rely on although others have moved since
(`RequestOK`, `ProcessOK`, `WorkerOK`). That it may is shown once: `Grows` lists
what no step takes back (a row that exists, a status that is final, a posting that
was made), the label facts are about nothing else, and the lemma `OtherRequest` or
its like concludes that they survive the steps of everybody else. The lemma of an
action then only shows that its step is one of growth and that the process that
moved has what its next label needs.

**LedgerProofs.** TypeCorrect, NoOverdraft, NoLostUpdate (LockedRowsAreCurrent),
NoMutualWait, PostingMovesBalances; then ExactlyOnce, ReversalsAreExact,
NoViolations (the report of the invariant check stays empty),
JournalMatchesBalances and MoneyConserved.

NoOverdraft needs to know that the balances Commit writes, computed some steps
earlier from a snapshot taken earlier still, are right. A checked transaction
holds all its rows and has computed each new balance from its snapshot
(CheckedIsComputed); the snapshot of a locked row is current (LocksAreFresh),
because only the owner of a row writes it (LocksAreOwned) and because a row is
only locked when its version is that of the snapshot, which means that its balance
is too (SnapshotsAreVersioned). That rows are locked in ascending order
(LocksAreAscending) excludes mutual waiting. There is one lemma per kind of step
(OutsideStep, RollbackStep, BeginStep, LockStep, CheckStep, CommitStep).

The second invariant, JInv, is about the journal: a resolved posting still carries
the reference and hash of its command and still mirrors an original that the
journal holds. ReversalsAreExact compares what the two postings book on each side
of each account (`Booked`).

JournalMatchesBalances says that a balance is what a replay of the journal gives
(`Projected`, a recursive function). That such a function exists and unfolds is
proved from the least-number principle (`LeastNat`, from WFMin on the naturals),
which takes a set and not an operator, through finite approximations of it
(ApproxUnique, ApproxExists, ProjectedStep); a commit then adds one term.

MoneyConserved compares the sum of the customers' balances with that of the clearing
accounts. The library's SumFunctionOnSet is a fold, that is, a recursive function on
subsets; DataLemmas shows that it exists and unfolds (SumsUpToExist, SumIsSolution)
and then that it does not depend on the order of summation (SumRemove), adds over
disjoint sets (SumUnion) and over terms (SumPlus), and may be taken class by class
(SumClasses). Induction over the subsets of a finite set is had without an operator
as hypothesis, by looking at a smallest member of the set of counterexamples
(SubsetInduction). A posting that balances in each of its currencies books as much on
one side as on the other; SumClasses turns the entries of a side into what is booked
on each account, and a commit changes the two sums of a currency by the same amount.

**TransferProofs.** TypeCorrect, CompletedMeansPosted, TablesAgree, ClaimsAreUnique,
RepliesHold, QuoteBoundFirst, OneRetryPerVersion, and FollowsLifecycle: Spec implements
`Lifecycle` under the mapping of record to its state. TransferOK relates the rows of a
transfer to each other, to the Ledger and to FX; ProcessOK has the rest. Only Claim,
Transition, Prepared, Complete, Fail, LedgerPost and LateCall are steps of Lifecycle
(lemmas `...Refines`); all others stutter. OneRetryPerVersion has an invariant of its
own, VInv, on top of IInv: the version a process has read is never ahead of the row
(VersionOK), so that the claim, which takes the version it read and raises it, leaves
nobody else with the version it took.

**QuoteProofs.** ConsumedInTime, OneConsumer, PriceHonoured, SettledIsFinal. The
invariant says that the quote a request named existed at its time or never will,
and that the terms it compared are still the terms.

**AccountProofs.** TypeCorrect, WalletsHaveKeys, ActiveMeansProvisioned,
CreatedMeansActive. WalletsHaveKeys counts keys; the invariant says the same with
quantifiers, and FiniteSetTheorems turns it into the cardinality.

**PayrollProofs.** TypeCorrect, CountersMatchItems, FinishedMeansDone,
ItemsMatchTransfers, OneJobPerKey, OneWorkerPerEmployer, ProgressIsKept. A worker at its
checkpoint has an outcome that the transfer justifies for good (Settled): a transfer
only advances (Moves), one that is completed or failed keeps its status, and a completed
one is paid; a refused item has none, and a key that ran out stays so. That a failed
transfer is unpaid is neither assumed nor concluded. A worker about to write the final
status has one that the items add up to (AddsUpTo); it still is when it is written,
because by then no item can change. FinalAddsUp derives it from the counters: as many
completed and failed items as there are items means that there are no others. Until the
first fault a worker inside its lease holds it.

**HistoryProofs.** RebuildRepairs, PagesAreComplete. RInv says that all that the rebuild
has come past is repaired, and that what it has read and not written is as it was read,
unless it moved; the batch is the lowest ids above the last one (FirstIdsFacts), so that
nothing is passed over. A transfer may commit below that point, and then has its row
from its commit. IdsOK says that the rows that are there have ids of their own, all of
them drawn: a row that stays keeps its id, and a new one takes an id that nobody had
(IdsStep). The entries that a page is cut from therefore keep their place in the order
as long as they are there (EntriesKept), and WalkOK concludes that every entry that was
there from the start and has not been shown is beyond the cursor; that a page is a
stretch of the entries in order without a gap is InOrderLists.

**AuditedIdentityProofs.** ImplementsIdentity: the composition implements `Identity`,
where Admin may answer anything and calls may be lost. IdentitiesReadable,
RotationComplete and UpdatesKept are therefore proved of `Identity` alone
(IdentityInv). RowsOK is about the rows: a row that nobody encrypted between rewrap's
read and write opens, and is still what rewrap has read. KeysOK is about the
rotation: a rewrap that began after the deployment leaves the old key only where it
has yet to write. RequestOK has what a request may rely on at each label; the identity
that it has seen or stored is still there, or another request that may have replaced
it can be named (Keeps, Excused).

ChainIntact, RecordedOnce and ValidMeansGenuine follow from AuditInv: what was
appended is one chain that ends at the head (GenuineOK), what is stored was appended,
and is exactly that until somebody tampers (RecordsOK), an append past the lock has
read the head as it is (LocksOK), and the head that a verification has read was once
the head (ReadOK). That a chain verify calls valid is genuine up to event ids
(ValidGenuine) is shown by the last place where the hash of a record read and the
hash of the one appended differ: verify recomputed the hash of the next one, which
tells its predecessor and all of the record but its event id (HashInjects). An act of
tampering changes the event id of a record, its data, or its data with a hash that
fits (`Changed`). UpdatesAudited joins the two halves (CallersOK): a caller whose append
has started carries the event of its own update, and is told OK only when it was
recorded. All this is proved without the constraint Focus of the run, for any number
of callers, users, events and acts of tampering.

The type invariants (TypeOK) of Ledger, Transfer, Account and Payroll are theorems, and
not repeated in the runs.

TLC checked IdentityInv, AuditInv, CallersOK, RInv, IdsOK and WalkOK on the instances of
the runs first.

The assumptions, all evaluated by TLC in the runs: account ids are ordered like
naturals, there are finitely many and customers are accounts; the values that stand for
nothing (NoRequest, NoTransfer, NoWorker, the currency "none") are not among the real
ones; requests are not reconcilers or workers; bounds are naturals, and a quote's life,
a batch, the number of attempts and the ids of rows are not zero; a payroll job has an
item, as ArrayMinSize demands; commands and terms have the shape that the DTO classes
let through (ValidCommand, ValidTerm), which leaves amounts, keys, references and
payloads free; an event names a stream, and an identity command one of the four
operations and, unless it is a lookup, a user.

Only model-checked: liveness (RequestsAnswered, RecoverableSettles, JobsFinish),
since fairness and ENABLED are outside the prover.

## Not modelled

* The bits of encryption, digests, HMACs and cursors: pure computation of a
  library; what they guarantee is in Identity, Audit and History.
* A key ring without the old key, or without the active one: the service does not
  start or answers 500 (loadKeyConfiguration). RotationComplete is what makes it
  safe to drop the old key.
* Guards, request ids, error formatting, environment checks: stateless within one
  request. Of the validation pipes only what a later step relies on is stated (as
  ValidCommand and ValidTerm, with an ASSUME).
* Metrics, health, tracing, logs: nothing reads them back. The counters of queue
  errors on payroll jobs are of this kind.
* The rows, metric and timer of the Ledger's invariant check: nothing reads them
  back. What the check looks for is `Violations` in MoneyConserved.
* REVERSED transfers: no code of Transaction sets this status.
* The limits of batches (50 stale transfers, 100 payroll jobs a scan): the runs
  stay below them.
* The gateway, containers, scripts and examples; the CI tool that selects affected
  services (`tools/ci/affected-services.mjs`) is not part of the running system.
