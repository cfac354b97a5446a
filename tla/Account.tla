------------------------------- MODULE Account ------------------------------
(***************************************************************************)
(* Wallets in the Account service: WalletService.create, reconcile, list   *)
(* and balance, run by concurrent requests, together with what they do to  *)
(* the Ledger (provision, balances) and to the audit trail of the Admin    *)
(* service (append).  A call to either may fail before or after its        *)
(* effect.  What a user's row holds is the subject of module Identity.     *)
(***************************************************************************)
EXTENDS Integers, FiniteSets

CONSTANTS
  Request,     \* requests to the service
  User,        \* principals
  Currency,    \* a wallet is a user and a currency
  Command,     \* create, reconcile, list and balance requests
  MaxTime,     \* bound on the clock, in milliseconds
  MaxFaults    \* bound on failed calls

ASSUME BoundsAssumption == MaxTime \in Nat /\ MaxFaults \in Nat

VARIABLES
  clock,       \* the time that @updatedAt takes
  users,       \* the users who have a row
  wallets,     \* wallets: status and updated_at
  records,     \* wallet_idempotency_records, by user and key
  provisioned, \* the Ledger's accounts, by wallet
  audit,       \* occurred_at of the activation of each wallet, -1 if there is none
  pc,          \* where each request is
  cmd,         \* what it was sent
  seen,        \* the wallet row it has read or written, or the wallets
               \* whose balances it asks for
  reply,       \* what it was answered
  faults       \* calls that failed

tables == <<users, wallets, records>>
vars == <<clock, users, wallets, records, provisioned, audit, pc, cmd, seen, reply, faults>>

Wallet == User \X Currency
Key == {c.key : c \in {k \in Command : k.op = "create"}}
NoCommand == [op |-> "none"]
NoRecord == [currency |-> "none", label |-> "none"]
NoWallet == [status |-> "NONE", at |-> -1]

WalletOf(r) == <<cmd[r].user, cmd[r].currency>>

Go(r, label) == pc' = [pc EXCEPT ![r] = label]
Answer(r, code) == Go(r, "done") /\ reply' = [reply EXCEPT ![r] = code]
See(r, row) == seen' = [seen EXCEPT ![r] = row]
Fault == faults < MaxFaults /\ faults' = faults + 1

\* What CreateWalletDto lets through: three capital letters, and a label or none.
\* The other requests name a wallet or, to list all of them, only their user.
ValidCommand(c) ==
  /\ c.op \in {"create", "reconcile", "validate", "list", "balance"}
  /\ c.user \in User
  /\ c.op # "list" => c.currency \in Currency

ASSUME CommandAssumption == \A c \in Command : ValidCommand(c)
ASSUME CurrencyAssumption == "none" \notin Currency

\* validateIdempotencyKey wants 1 to 128 visible characters; the empty key stands
\* for the ones it refuses, a missing header among them.
validateIdempotencyKey(c) == c.op = "create" => c.key # ""

Receive(r, c) ==
  /\ pc[r] = "idle"
  /\ cmd' = [cmd EXCEPT ![r] = c]
  /\ IF validateIdempotencyKey(c)
     THEN /\ Go(r, IF c.op \in {"reconcile", "validate"} THEN "findWallet" ELSE "ensureUser")
          /\ UNCHANGED reply
     ELSE Answer(r, "INVALID_IDEMPOTENCY_KEY")
  /\ UNCHANGED <<clock, tables, provisioned, audit, seen, faults>>

-----------------------------------------------------------------------------
(* Users *)

AfterUser(r) == IF cmd[r].op = "create" THEN "findRecord" ELSE "findWallets"

\* ensureUser creates the user unless there is one; the loser of a race reads the
\* winner's row.
EnsureUser(r) ==
  /\ pc[r] = "ensureUser"
  /\ users' = users \cup {cmd[r].user}
  /\ Go(r, AfterUser(r))
  /\ UNCHANGED <<clock, wallets, records, provisioned, audit, cmd, seen, reply, faults>>

-----------------------------------------------------------------------------
(* Wallets *)

\* hashCommand covers the currency and the label.
SameCommand(r, record) == record.currency = cmd[r].currency /\ record.label = cmd[r].label

Record(r) == records[<<cmd[r].user, cmd[r].key>>]

\* The wallet that the record of the request's key names.
Adopt(r) == See(r, wallets[<<cmd[r].user, Record(r).currency>>]) /\ Go(r, "provision")

FindRecord(r) ==
  /\ pc[r] = "findRecord"
  /\ \/ Record(r) = NoRecord /\ Go(r, "sameCurrency") /\ UNCHANGED <<seen, reply>>
     \/ /\ Record(r) # NoRecord /\ SameCommand(r, Record(r))
        /\ Adopt(r) /\ UNCHANGED reply
     \/ /\ Record(r) # NoRecord /\ ~SameCommand(r, Record(r))
        /\ Answer(r, "IDEMPOTENCY_KEY_REUSED") /\ UNCHANGED seen
  /\ UNCHANGED <<clock, tables, provisioned, audit, cmd, faults>>

\* A second read refuses another wallet in the same currency.
FindSameCurrency(r) ==
  /\ pc[r] = "sameCurrency"
  /\ IF wallets[WalletOf(r)] = NoWallet
     THEN Go(r, "insert") /\ UNCHANGED reply
     ELSE Answer(r, "WALLET_ALREADY_EXISTS")
  /\ UNCHANGED <<clock, tables, provisioned, audit, cmd, seen, faults>>

\* Mutant: the record is written by a statement of its own, which may not run.
InsertWalletMutant(r) ==
  LET w == WalletOf(r) IN
  /\ pc[r] = "insert"
  /\ IF wallets[w] = NoWallet
     THEN /\ wallets' = [wallets EXCEPT ![w] = [status |-> "PENDING", at |-> clock]]
          /\ See(r, wallets'[w]) /\ Go(r, "provision") /\ UNCHANGED records
     ELSE Go(r, "winner") /\ UNCHANGED <<wallets, records, seen>>
  /\ UNCHANGED <<clock, users, provisioned, audit, cmd, reply, faults>>

\* The wallet and its idempotency record are inserted together, under the
\* unique indexes on user and currency and on user and key.
InsertWallet(r) ==
  LET w == WalletOf(r) IN
  /\ pc[r] = "insert"
  /\ IF wallets[w] = NoWallet /\ Record(r) = NoRecord
     THEN /\ wallets' = [wallets EXCEPT ![w] = [status |-> "PENDING", at |-> clock]]
          /\ records' = [records EXCEPT ![<<cmd[r].user, cmd[r].key>>] =
                           [currency |-> cmd[r].currency, label |-> cmd[r].label]]
          /\ See(r, wallets'[w]) /\ Go(r, "provision")
     ELSE Go(r, "winner") /\ UNCHANGED <<wallets, records, seen>>
  /\ UNCHANGED <<clock, users, provisioned, audit, cmd, reply, faults>>

FindWinner(r) ==
  /\ pc[r] = "winner"
  /\ \/ /\ Record(r) = NoRecord
        /\ Answer(r, "WALLET_ALREADY_EXISTS") /\ UNCHANGED seen
     \/ /\ Record(r) # NoRecord /\ SameCommand(r, Record(r))
        /\ Adopt(r) /\ UNCHANGED reply
     \/ /\ Record(r) # NoRecord /\ ~SameCommand(r, Record(r))
        /\ Answer(r, "IDEMPOTENCY_KEY_REUSED") /\ UNCHANGED seen
  /\ UNCHANGED <<clock, tables, provisioned, audit, cmd, faults>>

\* reconcile and validation start from a wallet id; validation reports the row.
FindWallet(r) ==
  LET row == wallets[WalletOf(r)] IN
  /\ pc[r] = "findWallet"
  /\ IF row = NoWallet THEN Answer(r, "WALLET_NOT_FOUND") /\ UNCHANGED seen
     ELSE /\ See(r, row)
          /\ IF cmd[r].op = "reconcile" THEN Go(r, "provision") /\ UNCHANGED reply
             ELSE Answer(r, row.status)
  /\ UNCHANGED <<clock, tables, provisioned, audit, cmd, faults>>

\* Mutant: a failed provisioning call is ignored.
ProvisionFailsMutant(r) ==
  /\ pc[r] = "provision" /\ Fault
  /\ Go(r, "activate")
  /\ UNCHANGED <<clock, tables, provisioned, audit, cmd, seen, reply>>

Provision(r) ==
  /\ pc[r] = "provision"
  /\ provisioned' = provisioned \cup {WalletOf(r)}
  /\ Go(r, "activate")
  /\ UNCHANGED <<clock, tables, audit, cmd, seen, reply, faults>>

\* The Ledger does not answer; it may have created the account.
ProvisionFails(r) ==
  /\ pc[r] = "provision" /\ Fault
  /\ provisioned' \in {provisioned, provisioned \cup {WalletOf(r)}}
  /\ Answer(r, "LEDGER_UNAVAILABLE")
  /\ UNCHANGED <<clock, tables, audit, cmd, seen>>

\* An active wallet is left alone by create; reconcile always writes it.
Activate(r) ==
  LET w == WalletOf(r) IN
  /\ pc[r] = "activate"
  /\ IF cmd[r].op = "create" /\ seen[r].status = "ACTIVE"
     THEN UNCHANGED <<wallets, seen>>
     ELSE /\ wallets' = [wallets EXCEPT ![w] = [status |-> "ACTIVE", at |-> clock]]
          /\ See(r, wallets'[w])
  /\ IF cmd[r].op = "create" THEN Go(r, "audit") /\ UNCHANGED reply ELSE Answer(r, "OK")
  /\ UNCHANGED <<clock, users, records, provisioned, audit, cmd, faults>>

-----------------------------------------------------------------------------
(* Balances *)

\* list reads all wallets of the user and keeps those with a Ledger account; the
\* Ledger is not called for none.  balance needs its wallet to have one.
FindWallets(r) ==
  LET Own == IF cmd[r].op = "list" THEN {w \in Wallet : w[1] = cmd[r].user} ELSE {WalletOf(r)}
      Linked == {w \in Own : wallets[w].status = "ACTIVE"}
  IN
  /\ pc[r] = "findWallets"
  /\ IF Linked # {} THEN Go(r, "balances") /\ See(r, [linked |-> Linked]) /\ UNCHANGED reply
     ELSE /\ Answer(r, IF cmd[r].op = "list" THEN "OK" ELSE "WALLET_NOT_FOUND")
          /\ UNCHANGED seen
  /\ UNCHANGED <<clock, tables, provisioned, audit, cmd, faults>>

\* LedgerAccountService.balances: one unknown wallet fails the whole query, and
\* the client reports the 404 like an outage.
ReadBalances(r) ==
  /\ pc[r] = "balances"
  /\ Answer(r, IF seen[r].linked \subseteq provisioned THEN "OK" ELSE "LEDGER_UNAVAILABLE")
  /\ UNCHANGED <<clock, tables, provisioned, audit, cmd, seen, faults>>

BalancesFail(r) ==
  /\ pc[r] = "balances" /\ Fault
  /\ Answer(r, "LEDGER_UNAVAILABLE")
  /\ UNCHANGED <<clock, tables, provisioned, audit, cmd, seen>>

-----------------------------------------------------------------------------
(* The audit event *)

\* AuditService.append: an event is recorded once, and sent again with another
\* time it is refused, which the client reports like an outage.
AppendEvent(r) ==
  LET w == WalletOf(r) IN
  /\ pc[r] = "audit"
  /\ IF audit[w] \in {-1, seen[r].at}
     THEN audit' = [audit EXCEPT ![w] = seen[r].at] /\ Answer(r, "OK")
     ELSE UNCHANGED audit /\ Answer(r, "AUDIT_UNAVAILABLE")
  /\ UNCHANGED <<clock, tables, provisioned, cmd, seen, faults>>

\* Mutant: the event is sent without waiting for an answer.
AppendFailsMutant(r) ==
  /\ pc[r] = "audit" /\ Fault
  /\ Answer(r, "OK")
  /\ UNCHANGED <<clock, tables, provisioned, audit, cmd, seen>>

\* The Admin service does not answer; it may have recorded the event.
AppendFails(r) ==
  LET w == WalletOf(r) IN
  /\ pc[r] = "audit" /\ Fault
  /\ audit' \in {audit, [audit EXCEPT ![w] = IF @ = -1 THEN seen[r].at ELSE @]}
  /\ Answer(r, "AUDIT_UNAVAILABLE")
  /\ UNCHANGED <<clock, tables, provisioned, cmd, seen>>

-----------------------------------------------------------------------------
Tick == /\ clock < MaxTime /\ clock' = clock + 1
        /\ UNCHANGED <<tables, provisioned, audit, pc, cmd, seen, reply, faults>>

Init ==
  /\ clock = 0
  /\ users = {}
  /\ wallets = [w \in Wallet |-> NoWallet]
  /\ records = [k \in User \X Key |-> NoRecord]
  /\ provisioned = {}
  /\ audit = [w \in Wallet |-> -1]
  /\ pc = [r \in Request |-> "idle"]
  /\ cmd = [r \in Request |-> NoCommand]
  /\ seen = [r \in Request |-> NoWallet]
  /\ reply = [r \in Request |-> "none"]
  /\ faults = 0

Step(r) ==
  \/ EnsureUser(r) \/ FindRecord(r) \/ FindSameCurrency(r) \/ InsertWallet(r) \/ FindWinner(r)
  \/ FindWallet(r) \/ Provision(r) \/ ProvisionFails(r) \/ Activate(r)
  \/ FindWallets(r) \/ ReadBalances(r) \/ BalancesFail(r)
  \/ AppendEvent(r) \/ AppendFails(r)

\* All requests are answered.
Finished == (\A r \in Request : pc[r] = "done") /\ UNCHANGED vars

Next ==
  \/ \E r \in Request : Step(r) \/ \E c \in Command : Receive(r, c)
  \/ Tick
  \/ Finished

Spec == Init /\ [][Next]_vars
-----------------------------------------------------------------------------
(* Properties *)

\* The types of the tables and of the bounds.
TypeOK ==
  /\ clock \in 0..MaxTime /\ faults \in 0..MaxFaults
  /\ users \subseteq User /\ provisioned \subseteq Wallet
  /\ \A w \in Wallet : wallets[w].status \in {"NONE", "PENDING", "ACTIVE"}

\* Whatever creations race, every wallet was created under exactly one key of its
\* user, and every key that was used names a wallet of that user: no retry finds
\* a wallet without a record or a record without a wallet.
WalletsHaveKeys ==
  \A u \in User :
    /\ \A c \in Currency : wallets[<<u, c>>] # NoWallet =>
         Cardinality({k \in Key : records[<<u, k>>].currency = c}) = 1
    /\ \A k \in Key : records[<<u, k>>] # NoRecord =>
         wallets[<<u, records[<<u, k>>].currency>>] # NoWallet

\* An active wallet has its account in the Ledger, whichever calls failed; and a
\* list of wallets, which fails as a whole when the Ledger misses one of them,
\* fails only when the call does.  A wallet that Transaction is told is active can
\* be posted to.
ActiveMeansProvisioned ==
  /\ \A w \in Wallet : wallets[w].status = "ACTIVE" => w \in provisioned
  /\ \A r \in Request :
       cmd[r].op \in {"list", "balance"} /\ reply[r] = "LEDGER_UNAVAILABLE" => faults > 0
  /\ \A r \in Request : reply[r] = "ACTIVE" => WalletOf(r) \in provisioned

\* A client that is told its wallet is there has an active wallet that was
\* created under its key, with its currency and label, and the activation is in
\* the audit trail.  So has one that is told the trail is unavailable although no
\* call failed: that is a retry whose event was refused for its new time.
CreatedMeansActive ==
  \A r \in Request :
    cmd[r].op = "create" /\ (reply[r] = "OK" \/ (reply[r] = "AUDIT_UNAVAILABLE" /\ faults = 0)) =>
      /\ wallets[WalletOf(r)].status = "ACTIVE"
      /\ Record(r) = [currency |-> cmd[r].currency, label |-> cmd[r].label]
      /\ audit[WalletOf(r)] # -1

-----------------------------------------------------------------------------
(* Stronger than what the code does; the README tells how it fails *)

\* README: Account provides idempotent wallet provisioning.  A request for a
\* wallet that its own key created is not told that the wallet already exists.
DuplicatesAreReplayed ==
  \A r \in Request : cmd[r].op = "create" /\ reply[r] = "WALLET_ALREADY_EXISTS" =>
    Record(r) # [currency |-> cmd[r].currency, label |-> cmd[r].label]

\* README: Account provides replay-safe retries.  When no call failed, no request
\* for a wallet, however often it is sent, ends with an unavailable audit trail.
RetriesSucceed ==
  \A r \in Request : cmd[r].op = "create" /\ reply[r] = "AUDIT_UNAVAILABLE" => faults > 0
=============================================================================
