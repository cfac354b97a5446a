---------------------------- MODULE AccountProofs ---------------------------
(***************************************************************************)
(* Theorems about the wallets of the Account service, for every set of     *)
(* requests, users, currencies and commands and every bound on failures.   *)
(*                                                                         *)
(* The inductive invariant has two halves.  TablesOK relates the tables:   *)
(* wallets and idempotency records name each other one to one, and an      *)
(* active wallet has its Ledger account.  RequestOK says, for each point   *)
(* where a request waits, what it has established and still relies on: the *)
(* record of its key from the provisioning on, the Ledger account from the *)
(* activation on, the active wallet when it sends the audit event.  None   *)
(* of that is taken back by another request (Grows), so it holds when the  *)
(* request goes on.                                                        *)
(***************************************************************************)
EXTENDS Account, FiniteSetTheorems, TLAPS

Labels == {"idle", "ensureUser", "findRecord", "sameCurrency", "insert", "winner", "findWallet",
           "provision", "activate", "findWallets", "balances", "audit", "done"}

Row == [status : {"PENDING", "ACTIVE"}, at : Nat]

\* The record that a request for a wallet writes and later finds.
Mine(r) == [currency |-> cmd[r].currency, label |-> cmd[r].label]

\* Types of the tables and of what is outside the service.
Domains ==
  /\ clock \in 0..MaxTime /\ faults \in 0..MaxFaults
  /\ users \subseteq User /\ provisioned \subseteq Wallet
  /\ wallets \in [Wallet -> Row \cup {NoWallet}]
  /\ DOMAIN records = User \X Key
  /\ \A k \in User \X Key :
       records[k] # NoRecord =>
         /\ records[k].currency \in Currency
         /\ records[k] = [currency |-> records[k].currency, label |-> records[k].label]
  /\ audit \in [Wallet -> Nat \cup {-1}]

\* Wallets and records name each other, one to one.
RecordsMatch ==
  \A u \in User :
    /\ \A c \in Currency : wallets[<<u, c>>] # NoWallet =>
         \E k \in Key : records[<<u, k>>].currency = c
    /\ \A k \in Key : records[<<u, k>>] # NoRecord =>
         wallets[<<u, records[<<u, k>>].currency>>] # NoWallet
    /\ \A k, l \in Key :
         records[<<u, k>>] # NoRecord /\ records[<<u, l>>] # NoRecord
           /\ records[<<u, k>>].currency = records[<<u, l>>].currency => k = l

TablesOK ==
  /\ Domains
  /\ RecordsMatch
  /\ \A w \in Wallet : wallets[w].status = "ACTIVE" => w \in provisioned

\* Types of the requests' own state.
LocalTypes ==
  /\ pc \in [Request -> Labels]
  /\ DOMAIN cmd = Request /\ DOMAIN seen = Request /\ DOMAIN reply = Request

\* The wallet that a request has found or created.
Holds(r) ==
  /\ wallets[WalletOf(r)] # NoWallet
  /\ seen[r] \in Row
  /\ seen[r].status = "ACTIVE" => wallets[WalletOf(r)].status = "ACTIVE"
  /\ cmd[r].op = "create" => Record(r) = Mine(r)

\* What was answered stays true.
ReplyOK(r) ==
  /\ cmd[r].op = "create" /\ (reply[r] = "OK" \/ (reply[r] = "AUDIT_UNAVAILABLE" /\ faults = 0)) =>
       /\ wallets[WalletOf(r)].status = "ACTIVE"
       /\ Record(r) = Mine(r)
       /\ audit[WalletOf(r)] # -1
  /\ cmd[r].op \in {"list", "balance"} /\ reply[r] = "LEDGER_UNAVAILABLE" => faults > 0
  /\ reply[r] = "ACTIVE" => WalletOf(r) \in provisioned

RequestOK(r) ==
  /\ pc[r] = "idle" => cmd[r] = NoCommand
  /\ pc[r] # "idle" => cmd[r] \in Command
  /\ pc[r] # "done" => reply[r] = "none"
  /\ pc[r] = "ensureUser" => cmd[r].op \in {"create", "list", "balance"}
  /\ cmd[r].op = "create" /\ pc[r] # "done" => <<cmd[r].user, cmd[r].key>> \in User \X Key
  /\ pc[r] \in {"findRecord", "sameCurrency", "insert", "winner", "audit"} => cmd[r].op = "create"
  /\ pc[r] = "findWallet" => cmd[r].op \in {"reconcile", "validate"}
  /\ pc[r] \in {"provision", "activate"} => cmd[r].op \in {"create", "reconcile"}
  /\ pc[r] \in {"provision", "activate", "audit"} => Holds(r)
  /\ pc[r] \in {"activate", "audit"} => WalletOf(r) \in provisioned
  /\ pc[r] = "audit" => wallets[WalletOf(r)].status = "ACTIVE"
  /\ pc[r] \in {"findWallets", "balances"} => cmd[r].op \in {"list", "balance"}
  /\ pc[r] = "balances" => seen[r].linked \subseteq provisioned
  /\ ReplyOK(r)

IInv == TablesOK /\ LocalTypes /\ \A r \in Request : RequestOK(r)

-----------------------------------------------------------------------------
(* What no step takes back, and what a step of one request leaves alone. *)

Grows ==
  /\ provisioned \subseteq provisioned' /\ faults <= faults'
  /\ \A w \in Wallet :
       /\ wallets[w] # NoWallet => wallets'[w] # NoWallet
       /\ wallets[w].status = "ACTIVE" => wallets'[w].status = "ACTIVE"
       /\ audit[w] # -1 => audit'[w] # -1
  /\ \A k \in User \X Key : records[k] # NoRecord => records'[k] = records[k]

OnlyMoves(r) ==
  /\ LocalTypes'
  /\ \A q \in Request \ {r} :
       pc'[q] = pc[q] /\ cmd'[q] = cmd[q] /\ seen'[q] = seen[q] /\ reply'[q] = reply[q]

\* The wallet and the key that a command names.
LEMMA CommandFacts ==
  ASSUME NEW r \in Request, cmd[r] \in Command
  PROVE  /\ cmd[r].op \in {"create", "reconcile", "validate", "list", "balance"}
         /\ cmd[r].user \in User
         /\ cmd[r].op # "list" => WalletOf(r) \in Wallet /\ cmd[r].currency \in Currency
         /\ cmd[r].op = "create" => <<cmd[r].user, cmd[r].key>> \in User \X Key
         /\ cmd[r].op = "create" => Mine(r) # NoRecord
         /\ cmd[r] # NoCommand
  BY CommandAssumption, CurrencyAssumption
     DEF ValidCommand, WalletOf, Wallet, Key, Mine, NoRecord, NoCommand

\* What a request relies on survives the steps of others.
LEMMA OthersKeep ==
  ASSUME IInv, Grows, NEW q \in Request, faults' \in Nat,
         pc'[q] = pc[q], cmd'[q] = cmd[q], seen'[q] = seen[q], reply'[q] = reply[q]
  PROVE  RequestOK(q)'
  <1>1. RequestOK(q) /\ faults \in Nat
    BY DEF IInv, TablesOK, Domains
  <1>2. CASE pc[q] = "idle"
    BY <1>1, <1>2 DEF RequestOK, ReplyOK, NoCommand
  <1>3. CASE pc[q] # "idle"
    <2>1. cmd[q] \in Command
      BY <1>1, <1>3 DEF RequestOK
    <2>2. cmd[q].op # "list" => WalletOf(q) \in Wallet
      BY <2>1, CommandFacts
    <2>3. cmd[q].op = "create" => (Record(q) = Mine(q) => Record(q)' = Mine(q))
      BY <2>1, CommandFacts DEF Grows, Record
    <2>4. Mine(q)' = Mine(q) /\ WalletOf(q)' = WalletOf(q)
      BY DEF Mine, WalletOf
    <2>5. pc[q] \in {"provision", "activate", "audit"} => Holds(q)'
      BY <1>1, <2>2, <2>3, <2>4 DEF RequestOK, Holds, Grows
    <2>6. ReplyOK(q)'
      <3>1. cmd[q].op = "create" /\ (reply[q] = "OK" \/ (reply[q] = "AUDIT_UNAVAILABLE" /\ faults' = 0)) =>
              /\ wallets'[WalletOf(q)].status = "ACTIVE"
              /\ Record(q)' = Mine(q)
              /\ audit'[WalletOf(q)] # -1
        BY <1>1, <2>2, <2>3 DEF RequestOK, ReplyOK, Grows
      <3>2. cmd[q].op \in {"list", "balance"} /\ reply[q] = "LEDGER_UNAVAILABLE" => faults' > 0
        BY <1>1 DEF RequestOK, ReplyOK, Grows
      <3>3. reply[q] = "ACTIVE" => WalletOf(q) \in provisioned'
        BY <1>1 DEF RequestOK, ReplyOK, Grows
      <3> QED
        BY <2>4, <3>1, <3>2, <3>3 DEF ReplyOK
    <2>7. /\ pc[q] \in {"activate", "audit"} => WalletOf(q) \in provisioned'
          /\ pc[q] = "audit" => wallets'[WalletOf(q)].status = "ACTIVE"
          /\ pc[q] = "balances" => seen[q].linked \subseteq provisioned'
      BY <1>1, <2>2 DEF RequestOK, Grows
    <2> QED
      BY <1>1, <2>4, <2>5, <2>6, <2>7 DEF RequestOK
  <1> QED
    BY <1>2, <1>3

\* The pattern of every step of one request.
LEMMA RequestStep ==
  ASSUME IInv, NEW r \in Request, TablesOK', Grows, OnlyMoves(r), RequestOK(r)'
  PROVE  IInv'
  <1>1. faults' \in Nat
    BY DEF TablesOK, Domains
  <1>2. \A q \in Request \ {r} : RequestOK(q)'
    BY <1>1, OthersKeep DEF OnlyMoves
  <1> QED
    BY <1>2 DEF IInv, OnlyMoves

\* A step that changes no table.
LEMMA LocalStep ==
  ASSUME IInv, NEW r \in Request, UNCHANGED <<clock, tables, provisioned, audit>>,
         faults' \in 0..MaxFaults, faults <= faults', OnlyMoves(r), RequestOK(r)'
  PROVE  IInv'
  <1>1. TablesOK'
    BY DEF IInv, TablesOK, Domains, RecordsMatch, tables
  <1>2. Grows
    BY DEF Grows, tables
  <1> QED
    BY <1>1, <1>2, RequestStep

\* A request moves on, and no other.
LEMMA GoFacts ==
  ASSUME LocalTypes, NEW r \in Request, NEW label \in Labels, Go(r, label)
  PROVE  /\ pc' \in [Request -> Labels] /\ pc'[r] = label
         /\ \A q \in Request \ {r} : pc'[q] = pc[q]
  BY DEF LocalTypes, Go

\* A request is answered, and no other.
LEMMA AnswerFacts ==
  ASSUME LocalTypes, NEW r \in Request, NEW code, Answer(r, code)
  PROVE  /\ pc' \in [Request -> Labels] /\ pc'[r] = "done"
         /\ \A q \in Request \ {r} : pc'[q] = pc[q] /\ reply'[q] = reply[q]
         /\ DOMAIN reply' = Request /\ reply'[r] = code
  BY DEF LocalTypes, Answer, Go, Labels

\* A request notes a row that it read, and no other.
LEMMA SeeFacts ==
  ASSUME LocalTypes, NEW r \in Request, NEW row, See(r, row)
  PROVE  /\ DOMAIN seen' = Request /\ seen'[r] = row
         /\ \A q \in Request \ {r} : seen'[q] = seen[q]
  BY DEF LocalTypes, See

\* A fault that the bound allows.
LEMMA FaultFacts ==
  ASSUME IInv, Fault
  PROVE  faults' \in 0..MaxFaults /\ faults <= faults' /\ faults' > 0
  BY BoundsAssumption DEF IInv, TablesOK, Domains, Fault

\* A request that is answered keeps nothing but what it was told.
LEMMA Answered ==
  ASSUME IInv, NEW r \in Request, pc[r] # "idle", NEW code, Answer(r, code), UNCHANGED <<cmd, seen>>
  PROVE  OnlyMoves(r) /\ pc'[r] = "done" /\ reply'[r] = code /\ (ReplyOK(r)' => RequestOK(r)')
  <1>1. LocalTypes /\ RequestOK(r)
    BY DEF IInv
  <1>2. /\ pc' \in [Request -> Labels] /\ pc'[r] = "done"
        /\ \A q \in Request \ {r} : pc'[q] = pc[q] /\ reply'[q] = reply[q]
        /\ DOMAIN reply' = Request /\ reply'[r] = code
    BY <1>1, AnswerFacts
  <1>3. OnlyMoves(r)
    BY <1>1, <1>2 DEF OnlyMoves, LocalTypes
  <1>4. ReplyOK(r)' => RequestOK(r)'
    BY <1>1, <1>2 DEF RequestOK
  <1> QED
    BY <1>2, <1>3, <1>4

\* An answer that promises nothing.
LEMMA Refused ==
  ASSUME IInv, NEW r \in Request, pc[r] # "idle", NEW code, Answer(r, code), UNCHANGED <<cmd, seen>>,
         code \notin {"OK", "ACTIVE", "AUDIT_UNAVAILABLE", "LEDGER_UNAVAILABLE"}
  PROVE  OnlyMoves(r) /\ RequestOK(r)'
  BY Answered DEF ReplyOK

-----------------------------------------------------------------------------
(* The steps *)

\* Nothing has happened yet: there is no wallet, key or account to relate.
LEMMA InitInv == Init => IInv
  <1> SUFFICES ASSUME Init PROVE IInv
    OBVIOUS
  <1>1. Domains
    BY BoundsAssumption DEF Init, Domains
  <1>2. RecordsMatch
    BY CurrencyAssumption DEF Init, RecordsMatch, NoRecord, Wallet
  <1>3. \A w \in Wallet : wallets[w].status # "ACTIVE"
    BY DEF Init, NoWallet
  <1>4. LocalTypes
    BY DEF Init, LocalTypes, Labels
  <1>5. \A r \in Request : RequestOK(r)
    BY DEF Init, RequestOK, ReplyOK, NoCommand
  <1> QED
    BY <1>1, <1>2, <1>3, <1>4, <1>5 DEF IInv, TablesOK

\* A request is taken up or refused; it relies on nothing yet.
LEMMA ReceiveInv ==
  ASSUME IInv, NEW r \in Request, NEW c \in Command, Receive(r, c)
  PROVE  IInv'
  <1>1. /\ LocalTypes /\ RequestOK(r) /\ pc[r] = "idle" /\ reply[r] = "none"
        /\ UNCHANGED <<clock, tables, provisioned, audit, seen, faults>>
        /\ faults' \in 0..MaxFaults /\ faults <= faults'
    BY BoundsAssumption DEF IInv, RequestOK, Receive, TablesOK, Domains
  <1>2. /\ DOMAIN cmd' = Request /\ cmd'[r] = c
        /\ \A q \in Request \ {r} : cmd'[q] = cmd[q]
    BY <1>1 DEF Receive, LocalTypes
  <1>3. /\ c.op \in {"create", "reconcile", "validate", "list", "balance"}
        /\ c.op = "create" => <<c.user, c.key>> \in User \X Key
    BY CommandAssumption DEF ValidCommand, Key
  <1>4. CASE Answer(r, "INVALID_IDEMPOTENCY_KEY")
    <2>1. /\ pc' \in [Request -> Labels] /\ pc'[r] = "done"
          /\ \A q \in Request \ {r} : pc'[q] = pc[q] /\ reply'[q] = reply[q]
          /\ DOMAIN reply' = Request /\ reply'[r] = "INVALID_IDEMPOTENCY_KEY"
      BY <1>1, <1>4, AnswerFacts
    <2>2. OnlyMoves(r) /\ RequestOK(r)'
      BY <1>1, <1>2, <2>1 DEF OnlyMoves, LocalTypes, RequestOK, ReplyOK
    <2> QED
      BY <1>1, <2>2, LocalStep
  <1>5. CASE UNCHANGED reply
    <2>0. ~Answer(r, "INVALID_IDEMPOTENCY_KEY")
      BY <1>1, <1>5, AnswerFacts
    <2>1. PICK label \in {"findWallet", "ensureUser"} :
            Go(r, label) /\ (label = "findWallet" <=> c.op \in {"reconcile", "validate"})
      BY <1>5, <1>1, <2>0 DEF Receive
    <2>2. /\ pc' \in [Request -> Labels] /\ pc'[r] = label
          /\ \A q \in Request \ {r} : pc'[q] = pc[q]
      BY <1>1, <2>1, GoFacts DEF Labels
    <2>3. OnlyMoves(r)
      BY <1>1, <1>2, <1>5, <2>2 DEF OnlyMoves, LocalTypes
    <2>4. RequestOK(r)'
      BY <1>1, <1>2, <1>3, <1>5, <2>1, <2>2 DEF RequestOK, ReplyOK
    <2> QED
      BY <1>1, <2>3, <2>4, LocalStep
  <1> QED
    BY <1>4, <1>5 DEF Receive

\* A step without a fault.
LEMMA NoFault ==
  ASSUME IInv, UNCHANGED faults
  PROVE  faults' \in 0..MaxFaults /\ faults <= faults'
  BY BoundsAssumption DEF IInv, TablesOK, Domains

\* A request goes on and remembers what it had seen.
LEMMA Moved ==
  ASSUME IInv, NEW r \in Request, NEW label \in Labels, Go(r, label), UNCHANGED <<cmd, seen, reply>>
  PROVE  OnlyMoves(r) /\ pc'[r] = label
  BY GoFacts DEF IInv, OnlyMoves, LocalTypes

\* A request goes on with a row it has read or written.
LEMMA MovedSeeing ==
  ASSUME IInv, NEW r \in Request, NEW label \in Labels, Go(r, label), UNCHANGED <<cmd, reply>>,
         NEW row, See(r, row)
  PROVE  OnlyMoves(r) /\ pc'[r] = label /\ seen'[r] = row
  BY GoFacts, SeeFacts DEF IInv, OnlyMoves, LocalTypes

\* The user is stored, or was; nobody relies on a user that is missing.
LEMMA EnsureUserInv ==
  ASSUME IInv, NEW r \in Request, EnsureUser(r)
  PROVE  IInv'
  <1>1. /\ RequestOK(r) /\ pc[r] = "ensureUser" /\ cmd[r] \in Command
        /\ UNCHANGED <<clock, wallets, records, provisioned, audit, cmd, seen, reply, faults>>
    BY DEF IInv, RequestOK, EnsureUser
  <1>2. users' \subseteq User
    BY <1>1, CommandFacts DEF EnsureUser, IInv, TablesOK, Domains
  <1>3. TablesOK'
    BY <1>1, <1>2 DEF IInv, TablesOK, Domains, RecordsMatch
  <1>4. Grows
    BY <1>1, NoFault DEF Grows
  <1>5. PICK label \in {"findRecord", "findWallets"} :
          Go(r, label) /\ (label = "findRecord" <=> cmd[r].op = "create")
    BY DEF EnsureUser, AfterUser
  <1>6. OnlyMoves(r) /\ pc'[r] = label
    BY <1>1, <1>5, Moved DEF Labels
  <1>7. RequestOK(r)'
    BY <1>1, <1>5, <1>6 DEF RequestOK, ReplyOK
  <1> QED
    BY <1>3, <1>4, <1>6, <1>7, RequestStep

\* A refusal that changes nothing.
LEMMA RefusedInv ==
  ASSUME IInv, NEW r \in Request, pc[r] # "idle", NEW code, Answer(r, code),
         code \notin {"OK", "ACTIVE", "AUDIT_UNAVAILABLE", "LEDGER_UNAVAILABLE"},
         UNCHANGED <<clock, tables, provisioned, audit, cmd, seen, faults>>
  PROVE  IInv'
  BY Refused, NoFault, LocalStep

\* A creation goes from one lookup to the next.
LEMMA NextLookup ==
  ASSUME IInv, NEW r \in Request, pc[r] \in {"findRecord", "sameCurrency", "insert"},
         NEW label \in {"sameCurrency", "insert", "winner"}, Go(r, label),
         UNCHANGED <<clock, tables, provisioned, audit, cmd, seen, reply, faults>>
  PROVE  IInv'
  <1>1. OnlyMoves(r) /\ pc'[r] = label
    BY Moved DEF Labels
  <1>2. RequestOK(r)'
    BY <1>1 DEF IInv, RequestOK, ReplyOK
  <1> QED
    BY <1>1, <1>2, NoFault, LocalStep

\* A creation goes on with the wallet that the record of its key names.
LEMMA AdoptInv ==
  ASSUME IInv, NEW r \in Request, pc[r] \in {"findRecord", "winner"},
         Record(r) # NoRecord, SameCommand(r, Record(r)), Adopt(r),
         UNCHANGED <<clock, tables, provisioned, audit, cmd, reply, faults>>
  PROVE  IInv'
  <1>1. /\ RequestOK(r) /\ cmd[r] \in Command /\ cmd[r].op = "create" /\ reply[r] = "none"
        /\ <<cmd[r].user, cmd[r].key>> \in User \X Key
    BY DEF IInv, RequestOK
  <1>2. WalletOf(r) \in Wallet /\ cmd[r].user \in User /\ cmd[r].key \in Key
    BY <1>1, CommandFacts
  <1>3. Record(r) = Mine(r) /\ Record(r).currency = cmd[r].currency
    BY <1>1 DEF IInv, TablesOK, Domains, Record, SameCommand, Mine
  <1>4. wallets[WalletOf(r)] # NoWallet
    BY <1>2, <1>3 DEF IInv, TablesOK, RecordsMatch, Record, WalletOf
  <1>5. wallets[WalletOf(r)] \in Row
    BY <1>2, <1>4 DEF IInv, TablesOK, Domains
  <1>6. See(r, wallets[WalletOf(r)]) /\ Go(r, "provision")
    BY <1>3 DEF Adopt, WalletOf
  <1>7. OnlyMoves(r) /\ pc'[r] = "provision" /\ seen'[r] = wallets[WalletOf(r)]
    BY <1>6, MovedSeeing DEF Labels
  <1>8. Holds(r)'
    BY <1>3, <1>4, <1>5, <1>7 DEF Holds, Record, Mine, WalletOf, tables
  <1>9. RequestOK(r)'
    BY <1>1, <1>7, <1>8 DEF RequestOK, ReplyOK
  <1> QED
    BY <1>7, <1>9, NoFault, LocalStep

\* The request has read a record that is there, or found none.
LEMMA FindRecordInv ==
  ASSUME IInv, NEW r \in Request, FindRecord(r)
  PROVE  IInv'
  <1>1. pc[r] = "findRecord" /\ UNCHANGED <<clock, tables, provisioned, audit, cmd, faults>>
    BY DEF FindRecord
  <1>2. CASE Go(r, "sameCurrency") /\ UNCHANGED <<seen, reply>>
    BY <1>1, <1>2, NextLookup
  <1>3. CASE Record(r) # NoRecord /\ SameCommand(r, Record(r)) /\ Adopt(r) /\ UNCHANGED reply
    BY <1>1, <1>3, AdoptInv
  <1>4. CASE Answer(r, "IDEMPOTENCY_KEY_REUSED") /\ UNCHANGED seen
    BY <1>1, <1>4, RefusedInv
  <1> QED
    BY <1>2, <1>3, <1>4 DEF FindRecord

\* The same for the wallet of the same currency.
LEMMA FindSameCurrencyInv ==
  ASSUME IInv, NEW r \in Request, FindSameCurrency(r)
  PROVE  IInv'
  <1>1. pc[r] = "sameCurrency" /\ UNCHANGED <<clock, tables, provisioned, audit, cmd, seen, faults>>
    BY DEF FindSameCurrency
  <1>2. CASE Go(r, "insert") /\ UNCHANGED reply
    BY <1>1, <1>2, NextLookup
  <1>3. CASE Answer(r, "WALLET_ALREADY_EXISTS")
    BY <1>1, <1>3, RefusedInv
  <1> QED
    BY <1>2, <1>3 DEF FindSameCurrency

\* The same for the wallet of the request that won the race.
LEMMA FindWinnerInv ==
  ASSUME IInv, NEW r \in Request, FindWinner(r)
  PROVE  IInv'
  <1>1. pc[r] = "winner" /\ UNCHANGED <<clock, tables, provisioned, audit, cmd, faults>>
    BY DEF FindWinner
  <1>2. CASE Record(r) # NoRecord /\ SameCommand(r, Record(r)) /\ Adopt(r) /\ UNCHANGED reply
    BY <1>1, <1>2, AdoptInv
  <1>3. CASE \E code \in {"WALLET_ALREADY_EXISTS", "IDEMPOTENCY_KEY_REUSED"} :
               Answer(r, code) /\ UNCHANGED seen
    BY <1>1, <1>3, RefusedInv
  <1> QED
    BY <1>2, <1>3 DEF FindWinner

\* The wallet and its record appear together, and neither was there before.
LEMMA InsertTables ==
  ASSUME TablesOK, NEW u \in User, NEW c \in Currency, NEW k \in Key, NEW label,
         wallets[<<u, c>>] = NoWallet, records[<<u, k>>] = NoRecord,
         wallets' = [wallets EXCEPT ![<<u, c>>] = [status |-> "PENDING", at |-> clock]],
         records' = [records EXCEPT ![<<u, k>>] = [currency |-> c, label |-> label]],
         UNCHANGED <<clock, users, provisioned, audit, faults>>
  PROVE  TablesOK' /\ Grows
  <1>1. <<u, c>> \in Wallet /\ <<u, k>> \in User \X Key
    BY DEF Wallet
  <1>2. [status |-> "PENDING", at |-> clock] \in Row /\ [status |-> "PENDING", at |-> clock] # NoWallet
    BY DEF TablesOK, Domains, Row, NoWallet
  <1>3. /\ wallets' \in [Wallet -> Row \cup {NoWallet}]
        /\ wallets'[<<u, c>>] = [status |-> "PENDING", at |-> clock]
        /\ \A w \in Wallet \ {<<u, c>>} : wallets'[w] = wallets[w]
    BY <1>1, <1>2 DEF TablesOK, Domains
  <1>4. /\ DOMAIN records' = User \X Key
        /\ records'[<<u, k>>] = [currency |-> c, label |-> label]
        /\ \A l \in (User \X Key) \ {<<u, k>>} : records'[l] = records[l]
    BY <1>1 DEF TablesOK, Domains
  <1>5. records'[<<u, k>>] # NoRecord /\ records'[<<u, k>>].currency = c
    BY <1>4, CurrencyAssumption DEF NoRecord
  <1>6. Domains'
    BY <1>3, <1>4 DEF TablesOK, Domains
  <1>7. RecordsMatch'
    <2> SUFFICES ASSUME NEW v \in User
                 PROVE  /\ \A d \in Currency : wallets'[<<v, d>>] # NoWallet =>
                             \E l \in Key : records'[<<v, l>>].currency = d
                        /\ \A l \in Key : records'[<<v, l>>] # NoRecord =>
                             wallets'[<<v, records'[<<v, l>>].currency>>] # NoWallet
                        /\ \A l, m \in Key :
                             records'[<<v, l>>] # NoRecord /\ records'[<<v, m>>] # NoRecord
                               /\ records'[<<v, l>>].currency = records'[<<v, m>>].currency => l = m
      BY DEF RecordsMatch
    <2>1. /\ \A d \in Currency : wallets[<<v, d>>] # NoWallet =>
               \E l \in Key : records[<<v, l>>].currency = d
          /\ \A l \in Key : records[<<v, l>>] # NoRecord =>
               wallets[<<v, records[<<v, l>>].currency>>] # NoWallet
          /\ \A l, m \in Key :
               records[<<v, l>>] # NoRecord /\ records[<<v, m>>] # NoRecord
                 /\ records[<<v, l>>].currency = records[<<v, m>>].currency => l = m
      BY DEF TablesOK, RecordsMatch
    <2>2. CASE v # u
      <3>1. /\ \A l \in Key : records'[<<v, l>>] = records[<<v, l>>]
            /\ \A d \in Currency : wallets'[<<v, d>>] = wallets[<<v, d>>]
        BY <2>2, <1>3, <1>4 DEF Wallet
      <3>2. \A l \in Key : records[<<v, l>>] # NoRecord => records[<<v, l>>].currency \in Currency
        BY DEF TablesOK, Domains
      <3> QED
        BY <2>1, <3>1, <3>2
    <2>3. CASE v = u
      <3>1. /\ \A l \in Key \ {k} : records'[<<u, l>>] = records[<<u, l>>]
            /\ \A d \in Currency \ {c} : wallets'[<<u, d>>] = wallets[<<u, d>>]
        BY <1>3, <1>4 DEF Wallet
      <3>2. \A l \in Key : records[<<u, l>>] # NoRecord => records[<<u, l>>].currency \in Currency
        BY DEF TablesOK, Domains
      <3>3. wallets'[<<u, c>>] # NoWallet
        BY <1>2, <1>3
      <3>4. \A d \in Currency : wallets'[<<u, d>>] # NoWallet =>
              \E l \in Key : records'[<<u, l>>].currency = d
        <4> TAKE d \in Currency
        <4> HAVE wallets'[<<u, d>>] # NoWallet
        <4>1. CASE d = c
          BY <1>5, <4>1
        <4>2. CASE d # c
          <5>1. PICK l \in Key : records[<<u, l>>].currency = d
            BY <2>1, <2>3, <3>1, <4>2
          <5>2. l # k
            BY <5>1, CurrencyAssumption DEF NoRecord
          <5> QED
            BY <3>1, <5>1, <5>2
        <4> QED
          BY <4>1, <4>2
      <3>5. \A l \in Key : records'[<<u, l>>] # NoRecord =>
              wallets'[<<u, records'[<<u, l>>].currency>>] # NoWallet
        BY <1>5, <2>1, <2>3, <3>1, <3>2, <3>3
      <3>6. \A l \in Key \ {k} : records[<<u, l>>] # NoRecord => records[<<u, l>>].currency # c
        BY <2>1, <2>3
      <3> QED
        BY <1>5, <2>1, <2>3, <3>1, <3>4, <3>5, <3>6
    <2> QED
      BY <2>2, <2>3
  <1>8. \A w \in Wallet : wallets'[w].status = "ACTIVE" => w \in provisioned'
    BY <1>3 DEF TablesOK
  <1>9. Grows
    BY <1>2, <1>3, <1>4, BoundsAssumption DEF Grows, TablesOK, Domains, NoWallet
  <1> QED
    BY <1>6, <1>7, <1>8, <1>9 DEF TablesOK

\* Wallet and record are inserted together or not at all.
LEMMA InsertWalletInv ==
  ASSUME IInv, NEW r \in Request, InsertWallet(r)
  PROVE  IInv'
  <1>1. /\ RequestOK(r) /\ pc[r] = "insert" /\ cmd[r] \in Command /\ cmd[r].op = "create"
        /\ reply[r] = "none" /\ UNCHANGED <<clock, users, provisioned, audit, cmd, reply, faults>>
    BY DEF IInv, RequestOK, InsertWallet
  <1>2. CASE Go(r, "winner") /\ UNCHANGED <<wallets, records, seen>>
    BY <1>1, <1>2, NextLookup DEF tables
  <1>3. CASE /\ wallets[WalletOf(r)] = NoWallet /\ Record(r) = NoRecord
             /\ wallets' = [wallets EXCEPT ![WalletOf(r)] = [status |-> "PENDING", at |-> clock]]
             /\ records' = [records EXCEPT ![<<cmd[r].user, cmd[r].key>>] =
                              [currency |-> cmd[r].currency, label |-> cmd[r].label]]
             /\ See(r, wallets'[WalletOf(r)]) /\ Go(r, "provision")
    <2>1. /\ cmd[r].user \in User /\ cmd[r].currency \in Currency /\ cmd[r].key \in Key
          /\ WalletOf(r) \in Wallet
      BY <1>1, CommandFacts
    <2>2. TablesOK' /\ Grows
      BY <1>1, <1>3, <2>1, InsertTables DEF WalletOf, Record, IInv
    <2>3. OnlyMoves(r) /\ pc'[r] = "provision" /\ seen'[r] = wallets'[WalletOf(r)]
      BY <1>1, <1>3, MovedSeeing DEF Labels
    <2>4. wallets'[WalletOf(r)] = [status |-> "PENDING", at |-> clock]
      BY <1>3, <2>1 DEF IInv, TablesOK, Domains
    <2>5. Record(r)' = Mine(r)
      BY <1>1, <1>3, <2>1 DEF Record, Mine, IInv, TablesOK, Domains
    <2>6. [status |-> "PENDING", at |-> clock] \in Row /\ [status |-> "PENDING", at |-> clock] # NoWallet
      BY DEF IInv, TablesOK, Domains, Row, NoWallet
    <2>7. Holds(r)'
      BY <1>1, <2>3, <2>4, <2>5, <2>6 DEF Holds, Mine, WalletOf
    <2>8. RequestOK(r)'
      BY <1>1, <2>3, <2>7 DEF RequestOK, ReplyOK
    <2> QED
      BY <2>2, <2>3, <2>8, RequestStep
  <1> QED
    BY <1>2, <1>3 DEF InsertWallet

\* The wallet of a record that was read is there.
LEMMA FindWalletInv ==
  ASSUME IInv, NEW r \in Request, FindWallet(r)
  PROVE  IInv'
  <1> DEFINE row == wallets[WalletOf(r)]
  <1>1. /\ LocalTypes /\ RequestOK(r) /\ pc[r] = "findWallet" /\ cmd[r] \in Command
        /\ cmd[r].op \in {"reconcile", "validate"} /\ reply[r] = "none"
        /\ UNCHANGED <<clock, tables, provisioned, audit, cmd, faults>>
    BY DEF IInv, RequestOK, FindWallet
  <1>2. WalletOf(r) \in Wallet
    BY <1>1, CommandFacts
  <1>3. /\ row # NoWallet => row \in Row
        /\ row.status = "ACTIVE" => WalletOf(r) \in provisioned
    BY <1>2 DEF IInv, TablesOK, Domains
  <1>4. CASE Answer(r, "WALLET_NOT_FOUND") /\ UNCHANGED seen
    BY <1>1, <1>4, RefusedInv
  <1>5. CASE /\ row # NoWallet /\ See(r, row) /\ cmd[r].op = "reconcile"
             /\ Go(r, "provision") /\ UNCHANGED reply
    <2>1. OnlyMoves(r) /\ pc'[r] = "provision" /\ seen'[r] = row
      BY <1>1, <1>5, MovedSeeing DEF Labels
    <2>2. Holds(r)'
      BY <1>1, <1>3, <1>5, <2>1 DEF Holds, WalletOf, tables
    <2>3. RequestOK(r)'
      BY <1>1, <1>5, <2>1, <2>2 DEF RequestOK, ReplyOK
    <2> QED
      BY <1>1, <2>1, <2>3, NoFault, LocalStep
  <1>6. CASE row # NoWallet /\ See(r, row) /\ cmd[r].op # "reconcile" /\ Answer(r, row.status)
    <2>1. /\ pc' \in [Request -> Labels] /\ pc'[r] = "done"
          /\ \A q \in Request \ {r} : pc'[q] = pc[q] /\ reply'[q] = reply[q]
          /\ DOMAIN reply' = Request /\ reply'[r] = row.status
      BY <1>1, <1>6, AnswerFacts
    <2>2. OnlyMoves(r)
      BY <1>1, <1>6, <2>1, SeeFacts DEF OnlyMoves, LocalTypes
    <2>3. ReplyOK(r)'
      BY <1>1, <1>3, <1>6, <2>1 DEF ReplyOK, WalletOf
    <2>4. RequestOK(r)'
      BY <1>1, <2>1, <2>3 DEF RequestOK
    <2> QED
      BY <1>1, <2>2, <2>4, NoFault, LocalStep
  <1> QED
    BY <1>4, <1>5, <1>6 DEF FindWallet

\* Another account in the Ledger disturbs nothing.
LEMMA ProvisionTables ==
  ASSUME IInv, provisioned \subseteq provisioned', provisioned' \subseteq Wallet,
         UNCHANGED <<clock, tables, audit>>, faults' \in 0..MaxFaults, faults <= faults'
  PROVE  TablesOK' /\ Grows
  BY DEF IInv, TablesOK, Domains, RecordsMatch, Grows, tables

\* The Ledger has the account before the request hears of it.
LEMMA ProvisionInv ==
  ASSUME IInv, NEW r \in Request, Provision(r)
  PROVE  IInv'
  <1>1. /\ RequestOK(r) /\ pc[r] = "provision" /\ cmd[r] \in Command
        /\ cmd[r].op \in {"create", "reconcile"} /\ reply[r] = "none" /\ Holds(r)
        /\ provisioned' = provisioned \cup {WalletOf(r)}
        /\ UNCHANGED <<clock, tables, audit, cmd, seen, reply, faults>>
    BY DEF IInv, RequestOK, Provision
  <1>2. WalletOf(r) \in Wallet
    BY <1>1, CommandFacts
  <1>3. TablesOK' /\ Grows
    BY <1>1, <1>2, NoFault, ProvisionTables DEF IInv, TablesOK, Domains
  <1>4. OnlyMoves(r) /\ pc'[r] = "activate"
    BY <1>1, Moved DEF Provision, Labels
  <1>5. Holds(r)' /\ WalletOf(r)' \in provisioned'
    BY <1>1 DEF Holds, Record, Mine, WalletOf, tables
  <1>6. RequestOK(r)'
    BY <1>1, <1>4, <1>5 DEF RequestOK, ReplyOK
  <1> QED
    BY <1>3, <1>4, <1>6, RequestStep

\* Without an answer the account may exist and the wallet is not activated.
LEMMA ProvisionFailsInv ==
  ASSUME IInv, NEW r \in Request, ProvisionFails(r)
  PROVE  IInv'
  <1>1. /\ RequestOK(r) /\ pc[r] = "provision" /\ cmd[r] \in Command
        /\ cmd[r].op \in {"create", "reconcile"} /\ Fault
        /\ provisioned' \in {provisioned, provisioned \cup {WalletOf(r)}}
        /\ UNCHANGED <<clock, tables, audit, cmd, seen>> /\ Answer(r, "LEDGER_UNAVAILABLE")
    BY DEF IInv, RequestOK, ProvisionFails
  <1>2. WalletOf(r) \in Wallet
    BY <1>1, CommandFacts
  <1>3. TablesOK' /\ Grows
    BY <1>1, <1>2, FaultFacts, ProvisionTables DEF IInv, TablesOK, Domains
  <1>4. /\ OnlyMoves(r) /\ pc'[r] = "done" /\ reply'[r] = "LEDGER_UNAVAILABLE"
        /\ (ReplyOK(r)' => RequestOK(r)')
    BY <1>1, Answered
  <1>5. ReplyOK(r)'
    BY <1>1, <1>4 DEF ReplyOK
  <1> QED
    BY <1>3, <1>4, <1>5, RequestStep

\* A wallet that has its account is written as active.
LEMMA ActivateTables ==
  ASSUME IInv, NEW w \in Wallet, wallets[w] # NoWallet, w \in provisioned,
         wallets' = [wallets EXCEPT ![w] = [status |-> "ACTIVE", at |-> clock]],
         UNCHANGED <<clock, users, records, provisioned, audit, faults>>
  PROVE  /\ TablesOK' /\ Grows
         /\ wallets'[w] = [status |-> "ACTIVE", at |-> clock] /\ wallets'[w] \in Row
  <1>1. [status |-> "ACTIVE", at |-> clock] \in Row /\ [status |-> "ACTIVE", at |-> clock] # NoWallet
    BY DEF IInv, TablesOK, Domains, Row, NoWallet
  <1>2. /\ wallets' \in [Wallet -> Row \cup {NoWallet}]
        /\ wallets'[w] = [status |-> "ACTIVE", at |-> clock]
        /\ \A x \in Wallet \ {w} : wallets'[x] = wallets[x]
    BY <1>1 DEF IInv, TablesOK, Domains
  <1>3. \A x \in Wallet : wallets'[x] # NoWallet <=> wallets[x] # NoWallet
    BY <1>1, <1>2
  <1>4. Domains'
    BY <1>2 DEF IInv, TablesOK, Domains
  <1>5. RecordsMatch'
    <2>1. \A u \in User, k \in Key :
            records[<<u, k>>] # NoRecord => <<u, records[<<u, k>>].currency>> \in Wallet
      BY DEF IInv, TablesOK, Domains, Wallet
    <2>2. \A u \in User, c \in Currency : <<u, c>> \in Wallet
      BY DEF Wallet
    <2> QED
      BY <1>3, <2>1, <2>2 DEF IInv, TablesOK, RecordsMatch
  <1>6. \A x \in Wallet : wallets'[x].status = "ACTIVE" => x \in provisioned'
    BY <1>2 DEF IInv, TablesOK
  <1>7. Grows
    BY <1>2, <1>3, NoFault DEF Grows
  <1> QED
    BY <1>1, <1>2, <1>4, <1>5, <1>6, <1>7 DEF TablesOK

\* A wallet becomes active after its account was provisioned.
LEMMA ActivateInv ==
  ASSUME IInv, NEW r \in Request, Activate(r)
  PROVE  IInv'
  <1>1. /\ LocalTypes /\ RequestOK(r) /\ pc[r] = "activate" /\ cmd[r] \in Command
        /\ cmd[r].op \in {"create", "reconcile"} /\ reply[r] = "none" /\ Holds(r)
        /\ WalletOf(r) \in provisioned
        /\ UNCHANGED <<clock, users, records, provisioned, audit, cmd, faults>>
    BY DEF IInv, RequestOK, Activate
  <1>2. WalletOf(r) \in Wallet
    BY <1>1, CommandFacts
  <1>3. /\ TablesOK' /\ Grows /\ DOMAIN seen' = Request
        /\ \A q \in Request \ {r} : seen'[q] = seen[q]
        /\ seen'[r] \in Row /\ wallets'[WalletOf(r)] # NoWallet
        /\ wallets'[WalletOf(r)].status = "ACTIVE"
    <2>1. CASE seen[r].status = "ACTIVE" /\ UNCHANGED <<wallets, seen>>
      <3>1. TablesOK' /\ Grows
        BY <1>1, <2>1, NoFault, ProvisionTables DEF tables, IInv, TablesOK, Domains
      <3> QED
        BY <1>1, <2>1, <3>1 DEF Holds, LocalTypes
    <2>2. CASE /\ wallets' = [wallets EXCEPT ![WalletOf(r)] = [status |-> "ACTIVE", at |-> clock]]
               /\ See(r, wallets'[WalletOf(r)])
      <3>1. /\ TablesOK' /\ Grows /\ wallets'[WalletOf(r)] \in Row
            /\ wallets'[WalletOf(r)] = [status |-> "ACTIVE", at |-> clock]
        BY <1>1, <1>2, <2>2, ActivateTables DEF Holds
      <3>2. /\ DOMAIN seen' = Request /\ seen'[r] = wallets'[WalletOf(r)]
            /\ \A q \in Request \ {r} : seen'[q] = seen[q]
        BY <1>1, <2>2, SeeFacts
      <3> QED
        BY <3>1, <3>2 DEF NoWallet
    <2> QED
      BY <2>1, <2>2 DEF Activate
  <1>4. CASE cmd[r].op = "create" /\ Go(r, "audit") /\ UNCHANGED reply
    <2>1. /\ pc' \in [Request -> Labels] /\ pc'[r] = "audit"
          /\ \A q \in Request \ {r} : pc'[q] = pc[q]
      BY <1>1, <1>4, GoFacts DEF Labels
    <2>2. OnlyMoves(r)
      BY <1>1, <1>3, <1>4, <2>1 DEF OnlyMoves, LocalTypes
    <2>3. Holds(r)'
      BY <1>1, <1>3, <1>4 DEF Holds, Record, Mine, WalletOf
    <2>4. RequestOK(r)'
      BY <1>1, <1>3, <1>4, <2>1, <2>3 DEF RequestOK, ReplyOK, WalletOf
    <2> QED
      BY <1>3, <2>2, <2>4, RequestStep
  <1>5. CASE cmd[r].op # "create" /\ Answer(r, "OK")
    <2>1. /\ pc' \in [Request -> Labels] /\ pc'[r] = "done"
          /\ \A q \in Request \ {r} : pc'[q] = pc[q] /\ reply'[q] = reply[q]
          /\ DOMAIN reply' = Request /\ reply'[r] = "OK"
      BY <1>1, <1>5, AnswerFacts
    <2>2. OnlyMoves(r)
      BY <1>1, <1>3, <2>1 DEF OnlyMoves, LocalTypes
    <2>3. RequestOK(r)'
      BY <1>1, <1>5, <2>1 DEF RequestOK, ReplyOK
    <2> QED
      BY <1>3, <2>2, <2>3, RequestStep
  <1> QED
    BY <1>4, <1>5 DEF Activate

\* A listing reads the wallets as they are.
LEMMA FindWalletsInv ==
  ASSUME IInv, NEW r \in Request, FindWallets(r)
  PROVE  IInv'
  <1> DEFINE Own == IF cmd[r].op = "list" THEN {w \in Wallet : w[1] = cmd[r].user} ELSE {WalletOf(r)}
             Linked == {w \in Own : wallets[w].status = "ACTIVE"}
  <1>1. /\ RequestOK(r) /\ pc[r] = "findWallets" /\ cmd[r] \in Command
        /\ cmd[r].op \in {"list", "balance"} /\ reply[r] = "none"
        /\ UNCHANGED <<clock, tables, provisioned, audit, cmd, faults>>
    BY DEF IInv, RequestOK, FindWallets
  <1>2. Own \subseteq Wallet
    BY <1>1, CommandFacts
  <1>3. Linked \subseteq provisioned
    BY <1>2 DEF IInv, TablesOK
  <1>4. /\ \/ Go(r, "balances") /\ See(r, [linked |-> Linked]) /\ UNCHANGED reply
           \/ Answer(r, "OK") /\ UNCHANGED seen
           \/ Answer(r, "WALLET_NOT_FOUND") /\ UNCHANGED seen
    BY DEF FindWallets
  <1> HIDE DEF Linked
  <1>5. CASE Go(r, "balances") /\ See(r, [linked |-> Linked]) /\ UNCHANGED reply
    <2>1. OnlyMoves(r) /\ pc'[r] = "balances" /\ seen'[r] = [linked |-> Linked]
      BY <1>1, <1>5, MovedSeeing DEF Labels
    <2>2. seen'[r].linked \subseteq provisioned'
      BY <1>1, <1>3, <2>1
    <2>3. RequestOK(r)'
      BY <1>1, <1>5, <2>1, <2>2 DEF RequestOK, ReplyOK
    <2> QED
      BY <1>1, <2>1, <2>3, NoFault, LocalStep
  <1>6. CASE Answer(r, "OK") /\ UNCHANGED seen
    <2>1. /\ OnlyMoves(r) /\ pc'[r] = "done" /\ reply'[r] = "OK"
          /\ (ReplyOK(r)' => RequestOK(r)')
      BY <1>1, <1>6, Answered
    <2>2. ReplyOK(r)'
      BY <1>1, <2>1 DEF ReplyOK
    <2> QED
      BY <1>1, <2>1, <2>2, NoFault, LocalStep
  <1>7. CASE Answer(r, "WALLET_NOT_FOUND") /\ UNCHANGED seen
    BY <1>1, <1>7, RefusedInv
  <1> QED
    BY <1>4, <1>5, <1>6, <1>7

\* Reading balances changes nothing that others rely on.
LEMMA BalancesInv ==
  ASSUME IInv, NEW r \in Request, ReadBalances(r) \/ BalancesFail(r)
  PROVE  IInv'
  <1>1. /\ RequestOK(r) /\ pc[r] = "balances" /\ cmd[r] \in Command
        /\ cmd[r].op \in {"list", "balance"} /\ seen[r].linked \subseteq provisioned
        /\ UNCHANGED <<clock, tables, provisioned, audit, cmd, seen>>
    BY DEF IInv, RequestOK, ReadBalances, BalancesFail
  <1>2. CASE Answer(r, "OK") /\ UNCHANGED faults
    <2>1. /\ OnlyMoves(r) /\ pc'[r] = "done" /\ reply'[r] = "OK"
          /\ (ReplyOK(r)' => RequestOK(r)')
      BY <1>1, <1>2, Answered
    <2>2. ReplyOK(r)'
      BY <1>1, <2>1 DEF ReplyOK
    <2> QED
      BY <1>1, <1>2, <2>1, <2>2, NoFault, LocalStep
  <1>3. CASE Answer(r, "LEDGER_UNAVAILABLE") /\ Fault
    <2>1. /\ OnlyMoves(r) /\ pc'[r] = "done" /\ reply'[r] = "LEDGER_UNAVAILABLE"
          /\ (ReplyOK(r)' => RequestOK(r)')
      BY <1>1, <1>3, Answered
    <2>2. ReplyOK(r)'
      BY <1>1, <1>3, <2>1, FaultFacts DEF ReplyOK
    <2> QED
      BY <1>1, <1>3, <2>1, <2>2, FaultFacts, LocalStep
  <1> QED
    BY <1>1, <1>2, <1>3 DEF ReadBalances, BalancesFail

\* An event in the audit trail disturbs nothing.
LEMMA AuditTables ==
  ASSUME IInv, audit' \in [Wallet -> Nat \cup {-1}],
         \A w \in Wallet : audit[w] # -1 => audit'[w] # -1,
         UNCHANGED <<clock, tables, provisioned>>, faults' \in 0..MaxFaults, faults <= faults'
  PROVE  TablesOK' /\ Grows
  BY DEF IInv, TablesOK, Domains, RecordsMatch, Grows, tables

\* The event of a wallet is stored once, under the time of the row that was read.
LEMMA AppendEventInv ==
  ASSUME IInv, NEW r \in Request, AppendEvent(r)
  PROVE  IInv'
  <1>1. /\ RequestOK(r) /\ pc[r] = "audit" /\ cmd[r] \in Command /\ cmd[r].op = "create"
        /\ Holds(r) /\ wallets[WalletOf(r)].status = "ACTIVE"
        /\ UNCHANGED <<clock, tables, provisioned, cmd, seen, faults>>
    BY DEF IInv, RequestOK, AppendEvent
  <1>2. WalletOf(r) \in Wallet /\ seen[r].at \in Nat /\ seen[r].at # -1
    <2>1. WalletOf(r) \in Wallet
      BY <1>1, CommandFacts
    <2>2. seen[r].at \in Nat
      BY <1>1 DEF Holds, Row
    <2> QED
      BY <2>1, <2>2
  <1>3. audit \in [Wallet -> Nat \cup {-1}]
    BY DEF IInv, TablesOK, Domains
  <1>4. PICK code \in {"OK", "AUDIT_UNAVAILABLE"} : Answer(r, code)
    BY DEF AppendEvent
  <1>5. /\ audit' \in [Wallet -> Nat \cup {-1}] /\ audit'[WalletOf(r)] # -1
        /\ \A w \in Wallet : audit[w] # -1 => audit'[w] # -1
    <2>1. CASE audit' = [audit EXCEPT ![WalletOf(r)] = seen[r].at]
      BY <1>2, <1>3, <2>1
    <2>2. CASE audit[WalletOf(r)] \notin {-1, seen[r].at} /\ UNCHANGED audit
      BY <1>2, <1>3, <2>2
    <2> QED
      BY <2>1, <2>2 DEF AppendEvent
  <1>6. TablesOK' /\ Grows
    BY <1>1, <1>5, NoFault, AuditTables
  <1>7. /\ OnlyMoves(r) /\ pc'[r] = "done" /\ reply'[r] = code
        /\ (ReplyOK(r)' => RequestOK(r)')
    BY <1>1, <1>4, Answered
  <1>8. ReplyOK(r)'
    BY <1>1, <1>5, <1>7 DEF ReplyOK, Holds, Record, Mine, WalletOf, tables
  <1> QED
    BY <1>6, <1>7, <1>8, RequestStep

\* An event that is not stored leaves the tables as they were.
LEMMA AppendFailsInv ==
  ASSUME IInv, NEW r \in Request, AppendFails(r)
  PROVE  IInv'
  <1>1. /\ RequestOK(r) /\ pc[r] = "audit" /\ cmd[r] \in Command /\ cmd[r].op = "create"
        /\ Holds(r) /\ Fault /\ Answer(r, "AUDIT_UNAVAILABLE")
        /\ UNCHANGED <<clock, tables, provisioned, cmd, seen>>
    BY DEF IInv, RequestOK, AppendFails
  <1>2. WalletOf(r) \in Wallet /\ seen[r].at \in Nat /\ seen[r].at # -1
    <2>1. WalletOf(r) \in Wallet
      BY <1>1, CommandFacts
    <2>2. seen[r].at \in Nat
      BY <1>1 DEF Holds, Row
    <2> QED
      BY <2>1, <2>2
  <1>3. audit \in [Wallet -> Nat \cup {-1}]
    BY DEF IInv, TablesOK, Domains
  <1>4. /\ audit' \in [Wallet -> Nat \cup {-1}]
        /\ \A w \in Wallet : audit[w] # -1 => audit'[w] # -1
    BY <1>2, <1>3 DEF AppendFails
  <1>5. TablesOK' /\ Grows
    BY <1>1, <1>4, FaultFacts, AuditTables
  <1>6. /\ OnlyMoves(r) /\ pc'[r] = "done" /\ reply'[r] = "AUDIT_UNAVAILABLE"
        /\ (ReplyOK(r)' => RequestOK(r)')
    BY <1>1, Answered
  <1>7. ReplyOK(r)'
    BY <1>1, <1>6, FaultFacts DEF ReplyOK
  <1> QED
    BY <1>5, <1>6, <1>7, RequestStep

\* Every step preserves the invariant.
LEMMA NextInv ==
  ASSUME IInv, [Next]_vars
  PROVE  IInv'
  <1>1. ASSUME clock' \in 0..MaxTime,
               UNCHANGED <<tables, provisioned, audit, pc, cmd, seen, reply, faults>>
        PROVE  IInv'
    <2>1. TablesOK' /\ LocalTypes'
      BY <1>1 DEF IInv, TablesOK, Domains, RecordsMatch, LocalTypes, tables
    <2>2. Grows
      BY <1>1, NoFault DEF Grows, tables
    <2>3. faults' \in Nat
      BY <2>1 DEF TablesOK, Domains
    <2>4. \A q \in Request : RequestOK(q)'
      BY <1>1, <2>2, <2>3, OthersKeep
    <2> QED
      BY <2>1, <2>4 DEF IInv
  <1>2. CASE Tick \/ UNCHANGED vars
    <2>1. clock' \in 0..MaxTime
      BY <1>2, BoundsAssumption DEF Tick, IInv, TablesOK, Domains, vars
    <2> QED
      BY <1>1, <1>2, <2>1 DEF Tick, vars, tables
  <1> QED
    BY <1>2, ReceiveInv, EnsureUserInv, FindRecordInv, FindSameCurrencyInv, InsertWalletInv,
       FindWinnerInv, FindWalletInv, ProvisionInv, ProvisionFailsInv, ActivateInv, FindWalletsInv,
       BalancesInv, AppendEventInv, AppendFailsInv
    DEF Next, Step, Finished

-----------------------------------------------------------------------------
\* The invariant holds in every behaviour.
THEOREM Inductive == Spec => []IInv
  BY InitInv, NextInv, PTL DEF Spec

\* Type correctness of the tables and of the bounds.
THEOREM TypeCorrect == Spec => []TypeOK
  <1>1. IInv => TypeOK
    BY DEF IInv, TablesOK, Domains, TypeOK, Row, NoWallet
  <1> QED
    BY <1>1, Inductive, PTL

\* However creations race, each wallet was created under exactly one key of its
\* user and each used key names a wallet: the insert checks both unique indexes.
THEOREM WalletsHaveKeysTheorem == Spec => []WalletsHaveKeys
  <1>1. ASSUME IInv PROVE WalletsHaveKeys
    <2> SUFFICES ASSUME NEW u \in User, NEW c \in Currency, wallets[<<u, c>>] # NoWallet
                 PROVE  Cardinality({k \in Key : records[<<u, k>>].currency = c}) = 1
      BY <1>1 DEF WalletsHaveKeys, IInv, TablesOK, RecordsMatch
    <2>1. PICK k \in Key : records[<<u, k>>].currency = c
      BY <1>1 DEF IInv, TablesOK, RecordsMatch
    <2>2. \A l \in Key : records[<<u, l>>].currency = c => records[<<u, l>>] # NoRecord
      BY CurrencyAssumption DEF NoRecord
    <2>3. {l \in Key : records[<<u, l>>].currency = c} = {k}
      BY <1>1, <2>1, <2>2 DEF IInv, TablesOK, RecordsMatch
    <2> QED
      BY <2>3, FS_Singleton
  <1> QED
    BY <1>1, Inductive, PTL

\* An active wallet has its Ledger account whichever calls failed, so a list of
\* wallets is refused only when its own call fails.
THEOREM ActiveMeansProvisionedTheorem == Spec => []ActiveMeansProvisioned
  <1>1. IInv => ActiveMeansProvisioned
    BY DEF IInv, TablesOK, RequestOK, ReplyOK, ActiveMeansProvisioned
  <1> QED
    BY <1>1, Inductive, PTL

\* A client that is told its wallet is there has an active, audited wallet that
\* was created under its key.
THEOREM CreatedMeansActiveTheorem == Spec => []CreatedMeansActive
  <1>1. IInv => CreatedMeansActive
    BY DEF IInv, RequestOK, ReplyOK, Mine, CreatedMeansActive
  <1> QED
    BY <1>1, Inductive, PTL
=============================================================================
