------------------------------- MODULE Ledger -------------------------------
(***************************************************************************)
(* The posting engine of the Ledger service: PostingService.post, reverse  *)
(* and fund, run by concurrent HTTP requests against one PostgreSQL        *)
(* database.  Every await of the code is a separate step, so that any two  *)
(* requests interleave at every point where the service really yields.     *)
(*                                                                         *)
(* The posting itself is one SERIALIZABLE transaction.  Its snapshot is    *)
(* taken at its first statement, the balance rows are locked one by one in *)
(* the order of SELECT ... ORDER BY ledger_account_id FOR UPDATE, a row    *)
(* that changed after the snapshot aborts the transaction, and the         *)
(* database may abort it for reasons of its own at any statement.          *)
(***************************************************************************)
EXTENDS Integers, Sequences, FiniteSets, FiniteSetsExt

CONSTANTS
  Account,      \* ledger account ids; their order is the order of the UUIDs
  Customer,     \* the accounts of wallets; the others are FX_CLEARING
  CurrencyOf,   \* the currency of each account
  Request,      \* HTTP requests the service may be working on
  NoRequest,    \* the owner of a row that is not locked
  Command,      \* request bodies: posts, funding fixtures and reversals
  MaxAttempts   \* the bound of the retry loop in postResolved (3 in the code)

ASSUME AccountAssumption ==
  /\ Account \subseteq Nat /\ IsFiniteSet(Account)
  /\ Customer \subseteq Account
ASSUME RequestAssumption == NoRequest \notin Request
ASSUME AttemptsAssumption == MaxAttempts \in Nat \ {0}

VARIABLES
  accounts,   \* the provisioned accounts, each with its wallet_balances row
  balance,    \* wallet_balances.available_balance
  version,    \* wallet_balances.version
  owner,      \* the request whose transaction holds the lock on the row
  journal,    \* ledger_transactions with their entries, in commit order
  pc,         \* where each request is
  cmd,        \* the body each request was sent
  posting,    \* the ResolvedPosting it works on
  snap,       \* balances and versions in the snapshot of its transaction
  next,       \* the balances it computed from the locked rows
  attempt,    \* the attempt of postResolved it is in
  reply       \* what the service answered

tables == <<accounts, balance, version, journal>>
locals == <<cmd, posting, snap, next, attempt>>
vars == <<accounts, balance, version, owner, journal, pc, cmd, posting, snap,
          next, attempt, reply>>

-----------------------------------------------------------------------------
(* Entries and postings *)

NoCommand == [kind |-> "none"]
NoPosting == [kind |-> "none", entries |-> <<>>]
NoReply == [code |-> "none", id |-> 0]

AccountsOf(p) == {p.entries[i].account : i \in DOMAIN p.entries}

\* The sum of the entries with one direction that satisfy Selected.
Total(entries, direction, Selected(_)) ==
  SumFunctionOnSet([i \in DOMAIN entries |-> entries[i].amount],
                   {i \in DOMAIN entries : /\ entries[i].direction = direction
                                           /\ Selected(entries[i])})

\* Mutant: clearing accounts are created with the normal side of customers.
NormalSideMutant(a) == "CREDIT"

\* provision gives customers normal side CREDIT, ensureClearingAccount gives
\* clearing accounts normal side DEBIT.
NormalSide(a) == IF a \in Customer THEN "CREDIT" ELSE "DEBIT"
OtherSide(d) == IF d = "DEBIT" THEN "CREDIT" ELSE "DEBIT"

\* What a posting books on one side of account a, and how that moves its balance.
Booked(p, a, direction) ==
  LET OnAccount(e) == e.account = a IN Total(p.entries, direction, OnAccount)
Effect(p, a) == Booked(p, a, NormalSide(a)) - Booked(p, a, OtherSide(NormalSide(a)))

\* Debits equal credits in one currency.
Balanced(entries, currency) ==
  LET InCurrency(e) == e.currency = currency
  IN  Total(entries, "DEBIT", InCurrency) = Total(entries, "CREDIT", InCurrency)

ClearingAccount(currency) ==
  CHOOSE a \in Account \ Customer : CurrencyOf[a] = currency

Entry(a, direction, amount, currency) ==
  [account |-> a, direction |-> direction, amount |-> amount,
   currency |-> currency]

\* What CreatePostingDto, FundWalletDto and ReversePostingDto let through:
\* amounts have no sign, and a post has two to eight entries.
ValidCommand(c) ==
  /\ c.kind \in {"TRANSFER", "FX_TRANSFER", "FEE", "FUNDING", "REVERSAL"}
  /\ c.kind = "FUNDING" => c.amount \in Nat
  /\ c.kind \notin {"FUNDING", "REVERSAL"} =>
       /\ c.srcAmount \in Nat /\ c.tgtAmount \in Nat
       /\ c.entries \in Seq(Range(c.entries)) /\ Len(c.entries) \in 2..8
       /\ \A e \in Range(c.entries) :
            /\ DOMAIN e = {"account", "direction", "amount", "currency"}
            /\ e.amount \in Nat /\ e.direction \in {"DEBIT", "CREDIT"}

ASSUME CommandAssumption == \A c \in Command : ValidCommand(c)

\* hashValue(normalizeCommand(...)): the body without its request id, with the
\* entries of a post in canonical order.
CommandHash(c) ==
  IF c.kind \in {"FUNDING", "REVERSAL"} THEN c
  ELSE [c EXCEPT !.entries = [e \in Range(@) |-> Cardinality({i \in DOMAIN @ : @[i] = e})]]

validateFxShape(c) ==
  IF c.kind = "FX_TRANSFER" THEN c.src # c.tgt /\ c.quote ELSE c.src = c.tgt /\ ~c.quote

\* The clearing legs that an FX posting adds to the customers' legs.
ClearingEntries(c) ==
  IF c.kind = "FX_TRANSFER"
  THEN << Entry(ClearingAccount(c.src), "CREDIT", c.srcAmount, c.src),
          Entry(ClearingAccount(c.tgt), "DEBIT", c.tgtAmount, c.tgt) >>
  ELSE <<>>

ResolvePost(c) ==
  [kind |-> c.kind, ref |-> c.ref, hash |-> CommandHash(c),
   src |-> c.src, tgt |-> c.tgt, srcAmount |-> c.srcAmount,
   tgtAmount |-> c.tgtAmount, reverses |-> 0,
   entries |-> c.entries \o ClearingEntries(c)]

ResolveFunding(c) ==
  [kind |-> "FUNDING", ref |-> c.ref, hash |-> CommandHash(c),
   src |-> c.currency, tgt |-> c.currency, srcAmount |-> c.amount,
   tgtAmount |-> c.amount, reverses |-> 0,
   entries |-> << Entry(ClearingAccount(c.currency), "DEBIT", c.amount, c.currency),
                  Entry(c.account, "CREDIT", c.amount, c.currency) >>]

Swapped(e) == [e EXCEPT !.direction = OtherSide(@)]

ResolveReversal(c) ==
  LET original == journal[c.original]
  IN  [original EXCEPT
         !.kind = "REVERSAL", !.ref = c.ref, !.hash = CommandHash(c),
         !.reverses = c.original,
         !.entries = [i \in DOMAIN @ |-> Swapped(@[i])]]

\* validateResolved.  The positivity test of the code accepts zero, and the
\* DTO admits no negative amount, so that it never rejects anything.
validateResolved(p) ==
  /\ \A i \in DOMAIN p.entries : Balanced(p.entries, p.entries[i].currency)
  /\ Total(p.entries, "DEBIT", LAMBDA e : e.currency = p.src) = p.srcAmount
  /\ Total(p.entries, "CREDIT", LAMBDA e : e.currency = p.tgt) = p.tgtAmount

\* The CHECK constraints on amounts and the deferred trigger on each posting.
DatabaseAccepts(p) ==
  /\ p.srcAmount > 0 /\ p.tgtAmount > 0
  /\ Len(p.entries) >= 2
  /\ \A i \in DOMAIN p.entries :
       p.entries[i].amount > 0 /\ Balanced(p.entries, p.entries[i].currency)

\* The rows that the unique index on external_reference, or the one on
\* reverses_transaction_id, refuses to duplicate.
References == {journal[i].ref : i \in DOMAIN journal}
Reversed == {journal[i].reverses : i \in DOMAIN journal} \ {0}

\* The same currency and an active account on every entry; no code of the
\* service ever changes the status of an account.
AccountsUsable(entries) ==
  \A i \in DOMAIN entries : CurrencyOf[entries[i].account] = entries[i].currency

-----------------------------------------------------------------------------
(* The steps of one request *)

Held(r) == {a \in Account : owner[a] = r}
Missing(r) == AccountsOf(posting[r]) \ Held(r)
Rollback(r) == owner' = [a \in Account |-> IF owner[a] = r THEN NoRequest
                                           ELSE owner[a]]

Go(r, label) == pc' = [pc EXCEPT ![r] = label]

Answer(r, code, id) == /\ Go(r, "done")
                       /\ reply' = [reply EXCEPT ![r] = [code |-> code, id |-> id]]

\* postResolved validates synchronously before it opens the transaction.
EnterPostResolved(r, p) ==
  IF validateResolved(p)
  THEN Go(r, "begin") /\ UNCHANGED reply
  ELSE Answer(r, "INVALID_POSTING", 0)

\* post: the shape of an FX posting is checked before anything is read.
ReceivePost(r, c) ==
  /\ pc[r] = "idle" /\ c.kind \notin {"FUNDING", "REVERSAL"}
  /\ cmd' = [cmd EXCEPT ![r] = c]
  /\ IF validateFxShape(c)
     THEN Go(r, "lookup") /\ UNCHANGED reply
     ELSE Answer(r, "INVALID_FX_POSTING", 0)
  /\ UNCHANGED <<tables, owner, posting, snap, next, attempt>>

\* fund: the wallet is looked up first, then its clearing account ensured.
ReceiveFunding(r, c) ==
  /\ pc[r] = "idle" /\ c.kind = "FUNDING"
  /\ cmd' = [cmd EXCEPT ![r] = c]
  /\ IF c.account \in accounts /\ CurrencyOf[c.account] = c.currency
     THEN /\ posting' = [posting EXCEPT ![r] = ResolveFunding(c)]
          /\ Go(r, "clearing") /\ UNCHANGED reply
     ELSE /\ Answer(r, "LEDGER_ACCOUNT_NOT_FOUND", 0) /\ UNCHANGED posting
  /\ UNCHANGED <<tables, owner, snap, next, attempt>>

\* reverse: one read returns the original, its entries and its reversal; the
\* reversal seen here is acted on only after the idempotency lookup.
ReceiveReversal(r, c) ==
  /\ pc[r] = "idle" /\ c.kind = "REVERSAL"
  /\ cmd' = [cmd EXCEPT ![r] = c]
  /\ IF c.original \notin DOMAIN journal
     THEN Answer(r, "POSTING_NOT_FOUND", 0) /\ UNCHANGED posting
     ELSE IF journal[c.original].kind = "REVERSAL"
     THEN Answer(r, "REVERSAL_OF_REVERSAL_NOT_ALLOWED", 0) /\ UNCHANGED posting
     ELSE /\ posting' = [posting EXCEPT ![r] = ResolveReversal(c)]
          /\ Go(r, IF c.original \in Reversed THEN "lookupReversed" ELSE "lookup")
          /\ UNCHANGED reply
  /\ UNCHANGED <<tables, owner, snap, next, attempt>>

\* Mutant: the stored command hash is not compared.
ReplayMutant(r, i) == Answer(r, "POSTED", i)

\* The answer that findIdempotent gives for the posting with index i.
Replay(r, i) ==
  IF journal[i].hash = CommandHash(cmd[r])
  THEN Answer(r, "POSTED", i)
  ELSE Answer(r, "IDEMPOTENCY_KEY_REUSED", 0)

\* findIdempotent, as the three operations use it before they post.
FindIdempotent(r) ==
  /\ pc[r] \in {"lookup", "lookupReversed"}
  /\ \/ \E i \in DOMAIN journal : journal[i].ref = cmd[r].ref /\ Replay(r, i)
     \/ /\ cmd[r].ref \notin References
        /\ \/ /\ cmd[r].kind \notin {"FUNDING", "REVERSAL"}
              /\ Go(r, "resolve") /\ UNCHANGED reply
           \/ /\ cmd[r].kind \in {"FUNDING", "REVERSAL"}
              /\ IF pc[r] = "lookupReversed"
                 THEN Answer(r, "POSTING_ALREADY_REVERSED", 0)
                 ELSE EnterPostResolved(r, posting[r])
  /\ UNCHANGED <<tables, owner, locals>>

\* post reads the accounts of its wallets and turns the body into entries.
Resolve(r) ==
  LET c == cmd[r] IN
  /\ pc[r] = "resolve"
  /\ IF ~(AccountsOf(c) \subseteq accounts)
     THEN Answer(r, "LEDGER_ACCOUNT_NOT_FOUND", 0) /\ UNCHANGED posting
     ELSE IF ~AccountsUsable(c.entries)
     THEN Answer(r, "LEDGER_ACCOUNT_UNAVAILABLE", 0) /\ UNCHANGED posting
     ELSE /\ posting' = [posting EXCEPT ![r] = ResolvePost(c)]
          /\ IF c.kind = "FX_TRANSFER"
             THEN Go(r, "clearing") /\ UNCHANGED reply
             ELSE EnterPostResolved(r, ResolvePost(c))
  /\ UNCHANGED <<tables, owner, cmd, snap, next, attempt>>

\* ensureClearingAccount: a missing clearing account is created; when another
\* request creates it first, the unique index turns the insert into a read.
CreateClearing(r) ==
  /\ pc[r] = "clearing"
  /\ \E a \in Account \ (Customer \cup accounts) :
       a \in AccountsOf(posting[r]) /\ accounts' = accounts \cup {a}
  /\ UNCHANGED <<balance, version, owner, journal, pc, locals, reply>>

\* All clearing accounts are there: fund goes on to its lookup, post to the
\* transaction.
ClearingReady(r) ==
  /\ pc[r] = "clearing"
  /\ AccountsOf(posting[r]) \subseteq accounts
  /\ IF posting[r].kind = "FUNDING"
     THEN Go(r, "lookup") /\ UNCHANGED reply
     ELSE EnterPostResolved(r, posting[r])
  /\ UNCHANGED <<tables, owner, locals>>

\* The first statement of the transaction fixes the snapshot; the accounts are
\* checked again inside it.
BeginTransaction(r) ==
  /\ pc[r] = "begin"
  /\ IF AccountsOf(posting[r]) \subseteq accounts /\ AccountsUsable(posting[r].entries)
     THEN /\ snap' = [snap EXCEPT ![r] = [balance |-> balance, version |-> version]]
          /\ Go(r, "locking") /\ UNCHANGED reply
     ELSE Answer(r, "LEDGER_ACCOUNT_UNAVAILABLE", 0) /\ UNCHANGED snap
  /\ UNCHANGED <<tables, owner, cmd, posting, next, attempt>>

\* Mutant: the rows are locked in no particular order.
NextRowMutant(r, a) == a \in Missing(r)

\* The row that ORDER BY ledger_account_id FOR UPDATE locks next.
NextRow(r, a) == a \in Missing(r) /\ \A b \in Missing(r) : a <= b

\* Mutant: a weaker isolation level locks a row that has changed.
RowIsCurrentMutant(r, a) == TRUE

\* A row changed after the snapshot cannot be locked at this isolation level.
RowIsCurrent(r, a) == version[a] = snap[r].version[a]

LockRow(r) ==
  /\ pc[r] = "locking"
  /\ \E a \in Account : /\ NextRow(r, a)
                        /\ owner[a] = NoRequest
                        /\ RowIsCurrent(r, a)
                        /\ owner' = [owner EXCEPT ![a] = r]
  /\ UNCHANGED <<tables, pc, locals, reply>>

\* A transaction the database gives up on is rolled back and, while attempts
\* are left and the driver reports it as P2034, started again.
RetryOrThrow(r) ==
  /\ Rollback(r)
  /\ \/ /\ attempt[r] < MaxAttempts
        /\ attempt' = [attempt EXCEPT ![r] = @ + 1]
        /\ Go(r, "begin") /\ UNCHANGED reply
     \/ Answer(r, "INTERNAL_SERVER_ERROR", 0) /\ UNCHANGED attempt
  /\ UNCHANGED <<tables, cmd, posting, snap, next>>

RowChanged(r) ==
  /\ pc[r] = "locking"
  /\ \E a \in Account : /\ NextRow(r, a)
                        /\ owner[a] = NoRequest
                        /\ ~RowIsCurrent(r, a)
  /\ RetryOrThrow(r)

\* Any statement of the transaction, its commit included, may fail with a
\* serialization failure.
SerializationFailure(r) ==
  /\ pc[r] \in {"locking", "checked"}
  /\ RetryOrThrow(r)

\* Mutant: the boundary of the funds check is off by one.
FundsAvailableMutant(after) == \A a \in DOMAIN after \cap Customer : after[a] >= -1

\* The balances after the posting, computed from the locked rows, must leave no
\* customer below zero.
FundsAvailable(after) == \A a \in DOMAIN after \cap Customer : after[a] >= 0

\* The funds are checked after all rows are locked.
RowsLocked(r) == pc[r] = "locking" /\ Missing(r) = {}
After(r) == [a \in AccountsOf(posting[r]) |-> snap[r].balance[a] + Effect(posting[r], a)]

\* Mutant: the row locks are taken in a transaction of their own that ends with
\* the funds check.
CheckFundsMutant(r) ==
  /\ RowsLocked(r)
  /\ IF FundsAvailable(After(r))
     THEN next' = [next EXCEPT ![r] = After(r)] /\ Go(r, "checked") /\ UNCHANGED reply
     ELSE Answer(r, "INSUFFICIENT_FUNDS", 0) /\ UNCHANGED next
  /\ Rollback(r)
  /\ UNCHANGED <<tables, cmd, posting, snap, attempt>>

CheckFunds(r) ==
  /\ RowsLocked(r)
  /\ IF FundsAvailable(After(r))
     THEN /\ next' = [next EXCEPT ![r] = After(r)]
          /\ Go(r, "checked") /\ UNCHANGED <<owner, reply>>
     ELSE /\ Rollback(r)
          /\ Answer(r, "INSUFFICIENT_FUNDS", 0) /\ UNCHANGED next
  /\ UNCHANGED <<tables, cmd, posting, snap, attempt>>

\* Mutant: the unique index on reverses_transaction_id is missing.
UniqueViolationMutant(p) == p.ref \in References

\* The unique indexes on external_reference and reverses_transaction_id.
UniqueViolation(p) == p.ref \in References \/ p.reverses \in Reversed

\* The posting and its entries are inserted, every balance is overwritten with
\* the value computed before, and the transaction commits.
Commit(r) ==
  /\ pc[r] = "checked"
  /\ ~UniqueViolation(posting[r])
  /\ IF DatabaseAccepts(posting[r])
     THEN /\ journal' = Append(journal, posting[r])
          /\ balance' = [a \in Account |-> IF a \in AccountsOf(posting[r])
                                           THEN next[r][a] ELSE balance[a]]
          /\ version' = [a \in Account |-> IF a \in AccountsOf(posting[r])
                                           THEN version[a] + 1 ELSE version[a]]
          /\ Answer(r, "POSTED", Len(journal) + 1)
     ELSE /\ UNCHANGED <<journal, balance, version>>
          /\ Answer(r, "INTERNAL_SERVER_ERROR", 0)
  /\ Rollback(r)
  /\ UNCHANGED <<accounts, locals>>

\* Mutant: a failed insert leaves its transaction open.
InsertConflictMutant(r) ==
  /\ pc[r] = "checked"
  /\ UniqueViolation(posting[r])
  /\ Go(r, "conflict")
  /\ UNCHANGED <<tables, owner, locals, reply>>

InsertConflict(r) ==
  /\ pc[r] = "checked"
  /\ UniqueViolation(posting[r])
  /\ Rollback(r)
  /\ Go(r, "conflict")
  /\ UNCHANGED <<tables, locals, reply>>

\* handlePostingFailure after a unique violation: the winner is replayed.
HandlePostingFailure(r) ==
  /\ pc[r] = "conflict"
  /\ \/ \E i \in DOMAIN journal : journal[i].ref = cmd[r].ref /\ Replay(r, i)
     \/ /\ cmd[r].ref \notin References
        /\ Answer(r, "POSTING_CONFLICT", 0)
  /\ UNCHANGED <<tables, owner, locals>>

\* The process or its database connection dies: the transaction rolls back and
\* the caller never hears.
Crash(r) ==
  /\ pc[r] \notin {"idle", "done"}
  /\ Rollback(r)
  /\ Answer(r, "LOST", 0)
  /\ UNCHANGED <<tables, locals>>

\* LedgerAccountService.provision: a wallet gets its account once; a second
\* call, or the loser of a race, reads the first one's.
Provision(a) ==
  /\ a \in Customer \ accounts
  /\ accounts' = accounts \cup {a}
  /\ UNCHANGED <<balance, version, owner, journal, pc, locals, reply>>

-----------------------------------------------------------------------------
Init ==
  /\ accounts = {}
  /\ balance = [a \in Account |-> 0]
  /\ version = [a \in Account |-> 0]
  /\ owner = [a \in Account |-> NoRequest]
  /\ journal = <<>>
  /\ pc = [r \in Request |-> "idle"]
  /\ cmd = [r \in Request |-> NoCommand]
  /\ posting = [r \in Request |-> NoPosting]
  /\ snap = [r \in Request |-> [balance |-> balance, version |-> version]]
  /\ next = [r \in Request |-> <<>>]
  /\ attempt = [r \in Request |-> 1]
  /\ reply = [r \in Request |-> NoReply]

Receive(r) == \E c \in Command :
  ReceivePost(r, c) \/ ReceiveFunding(r, c) \/ ReceiveReversal(r, c)

\* What a request does by itself once it was received.
Step(r) ==
  \/ FindIdempotent(r) \/ Resolve(r) \/ CreateClearing(r) \/ ClearingReady(r)
  \/ BeginTransaction(r) \/ LockRow(r) \/ RowChanged(r) \/ CheckFunds(r)
  \/ Commit(r) \/ InsertConflict(r) \/ HandlePostingFailure(r)

\* Every request was answered: the service is idle.
Finished == (\A r \in Request : pc[r] = "done") /\ UNCHANGED vars

Next ==
  \/ \E r \in Request : Receive(r) \/ Step(r) \/ SerializationFailure(r) \/ Crash(r)
  \/ \E a \in Customer : Provision(a)
  \/ Finished

\* The event loop and the database keep serving every request they accepted.
Fairness == \A r \in Request : WF_vars(Step(r))

Spec == Init /\ [][Next]_vars
FairSpec == Spec /\ Fairness
-----------------------------------------------------------------------------
(* Properties *)

Labels == {"idle", "lookup", "lookupReversed", "resolve", "clearing", "begin",
           "locking", "checked", "conflict", "done"}

\* Types: every row lock belongs to a request or to nobody, and a request only
\* holds row locks while its transaction is open.
TypeOK ==
  /\ accounts \subseteq Account
  /\ version \in [Account -> Nat]
  /\ owner \in [Account -> Request \cup {NoRequest}]
  /\ pc \in [Request -> Labels]
  /\ attempt \in [Request -> 1..MaxAttempts]
  /\ DOMAIN balance = Account
  /\ \A r \in Request : Held(r) # {} => pc[r] \in {"locking", "checked"}

\* What the first n postings of a log leave on account a, for every n.
Projected(log, a) ==
  LET sum[n \in Nat] == IF n = 0 THEN 0
                        ELSE IF a \in AccountsOf(log[n]) THEN sum[n - 1] + Effect(log[n], a)
                        ELSE sum[n - 1]
  IN  sum

\* The balance projection is the journal: whatever requests raced, were retried
\* or died, each balance is the sum of the entries posted to its account
\* (postResolved writes balances as absolute values it computed earlier).
JournalMatchesBalances ==
  \A a \in Account : balance[a] = Projected(journal, a)[Len(journal)]

\* LedgerInvariantService.verify: the postings without entries, or whose debits
\* and credits differ in a currency.
Violations ==
  {i \in DOMAIN journal :
     \/ journal[i].entries = <<>>
     \/ \E k \in DOMAIN journal[i].entries :
          ~Balanced(journal[i].entries, journal[i].entries[k].currency)}

\* Money is only moved: in every currency what the customers own is what the
\* clearing account paid out, after transfers, FX legs, funding and reversals.
\* The report of LedgerInvariantService on the same journal stays empty.
MoneyConserved ==
  /\ Violations = {}
  /\ \A currency \in Range(CurrencyOf) :
       LET InCurrency == {a \in Account : CurrencyOf[a] = currency} IN
       SumFunctionOnSet(balance, InCurrency \cap Customer)
         = SumFunctionOnSet(balance, InCurrency \ Customer)

\* No customer is ever below zero, however many debits of one wallet race
\* (the funds check of postResolved).
NoOverdraft == \A a \in Customer : balance[a] >= 0

\* A request that is told its posting was made finds exactly its own command
\* under its reference, and no reference is posted twice: retries and
\* concurrent duplicates never move money again (findIdempotent,
\* handlePostingFailure and the index on external_reference).
ExactlyOnce ==
  /\ \A i, j \in DOMAIN journal : journal[i].ref = journal[j].ref => i = j
  /\ \A r \in Request : reply[r].code = "POSTED" =>
       /\ reply[r].id \in DOMAIN journal
       /\ journal[reply[r].id].hash = CommandHash(cmd[r])

\* A posting is reversed at most once, by a posting that undoes it exactly (what
\* one debits on an account the other credits there), and a reversal is never
\* reversed, although reverse reads the original long before it posts.
ReversalsAreExact ==
  \A i \in DOMAIN journal : journal[i].kind = "REVERSAL" =>
    LET original == journal[i].reverses
    IN  /\ original \in 1..(i - 1)
        /\ journal[original].kind # "REVERSAL"
        /\ \A a \in Account, side \in {"DEBIT", "CREDIT"} :
             Booked(journal[i], a, side) = Booked(journal[original], a, OtherSide(side))
        /\ \A j \in DOMAIN journal : journal[j].reverses = original => j = i

\* What a transaction has read stays true while it holds the row: a locked row
\* still has the balance of the snapshot, so no update is lost.
LockedRowsAreCurrent ==
  \A r \in Request : \A a \in Held(r) :
    snap[r].version[a] = version[a] /\ snap[r].balance[a] = balance[a]

\* Two requests never wait for rows of each other: ORDER BY in the SELECT FOR
\* UPDATE makes every request lock in ascending order.
WaitsFor(r, q) == /\ pc[r] = "locking"
                  /\ \E a \in Account : NextRow(r, a) /\ owner[a] = q
NoMutualWait == \A r, q \in Request : WaitsFor(r, q) => ~WaitsFor(q, r)

\* A step that changes a balance appends one posting and moves every balance by
\* exactly the effect of that posting; no step takes anything out of the
\* journal.  (postResolved's commit; everything else leaves the money alone.)
PostingMovesBalances ==
  [][ \/ UNCHANGED <<journal, balance>>
      \/ \E r \in Request :
           /\ journal' = Append(journal, posting[r])
           /\ \A a \in Account : balance'[a] =
                IF a \in AccountsOf(posting[r])
                THEN balance[a] + Effect(posting[r], a) ELSE balance[a] ]_vars

\* Every accepted request is answered: waiting for row locks, retries and
\* conflicts all come to an end.  (A request is not taken back, so that when
\* none is in flight, those that were have been answered.)
InFlight == {r \in Request : pc[r] \notin {"idle", "done"}}
RequestsAnswered == InFlight # {} ~> InFlight = {}

-----------------------------------------------------------------------------
(* Stronger than what the code does; the README tells how it fails *)

\* decisions.md: first claim the reference, then lock, then check the funds.  A
\* request that is about to be refused for lack of funds therefore is no
\* duplicate of a posting that was made.
RefusedMeansUnposted ==
  \A r \in Request : RowsLocked(r) /\ ~FundsAvailable(After(r)) =>
    \A i \in DOMAIN journal : journal[i].hash # posting[r].hash
=============================================================================
