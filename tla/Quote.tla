-------------------------------- MODULE Quote -------------------------------
(***************************************************************************)
(* The FX service: QuoteService.create, get and consume, run by concurrent *)
(* requests.  Every operation reads the database clock once, at the start  *)
(* of its transaction, and acts on that reading however late its next      *)
(* statement runs.  The transactions are READ COMMITTED, so that a row may *)
(* change between the read and the update; a transaction that throws is    *)
(* rolled back with the update it made.                                    *)
(***************************************************************************)
EXTENDS Integers

CONSTANTS
  Request,    \* requests; a quote is named after the one that created it
  Transfer,   \* transfers that consume quotes
  NoTransfer, \* a quote that nobody consumed
  Client,     \* owners of quotes
  Term,       \* source currency, target currency and source amount
  Rate,       \* the provider's rate of each currency pair, as a fraction
  TTL,        \* life of a quote: 60 seconds in the code
  MaxTime     \* bound on the clock

ASSUME TimeAssumption == TTL \in Nat \ {0} /\ MaxTime \in Nat
ASSUME TransferAssumption == NoTransfer \notin Transfer

\* What CreateQuoteDto lets through: an amount without a sign, zero included.
ValidTerm(term) == term.amount \in Nat

ASSUME TermAssumption == \A term \in Term : ValidTerm(term)

VARIABLES
  clock,      \* the clock of the database
  quotes,     \* fx_quotes
  pc,         \* where each request is
  cmd,        \* the operation it was sent
  now,        \* CURRENT_TIMESTAMP of its transaction
  reply       \* what it was answered

vars == <<clock, quotes, pc, cmd, now, reply>>

NoQuote == [status |-> "NONE", client |-> "none", term |-> <<>>, target |-> 0,
            issued |-> 0, expires |-> 0, consumedAt |-> -1, by |-> NoTransfer]
NoOperation == [op |-> "none", quote |-> "none", client |-> "none"]

Go(r, label) == pc' = [pc EXCEPT ![r] = label]
Answer(r, code) == Go(r, "done") /\ reply' = [reply EXCEPT ![r] = code]
Start(r, operation, label) ==
  /\ pc[r] = "idle"
  /\ cmd' = [cmd EXCEPT ![r] = operation]
  /\ Go(r, label)

\* Mutant: a quote is still good at the instant of its expiry.
ExpiredMutant(q, t) == quotes[q].expires < t

Expired(q, t) == quotes[q].expires <= t

-----------------------------------------------------------------------------
(* Creating a quote *)

ReceiveCreate(r, client, term) ==
  /\ Start(r, [op |-> "create", quote |-> r, client |-> client, term |-> term], "provider")
  /\ UNCHANGED <<clock, quotes, now, reply>>

\* A pair of one currency is refused before the provider is asked; the
\* provider knows the pair or not, or is down.
CallProvider(r) ==
  LET pair == <<cmd[r].term.source, cmd[r].term.target>> IN
  /\ pc[r] = "provider"
  /\ \/ pair[1] = pair[2] /\ Answer(r, "SAME_CURRENCY_QUOTE")
     \/ pair[1] # pair[2] /\ Answer(r, "FX_PROVIDER_UNAVAILABLE")
     \/ /\ pair[1] # pair[2] /\ pair \notin DOMAIN Rate
        /\ Answer(r, "UNSUPPORTED_CURRENCY_PAIR")
     \/ /\ pair[1] # pair[2] /\ pair \in DOMAIN Rate
        /\ Go(r, "insert") /\ UNCHANGED reply
  /\ UNCHANGED <<clock, quotes, cmd, now>>

\* The amount in the target currency, rounded half up to the smallest unit.
Converted(amount, rate) == (2 * amount * rate.num + rate.den) \div (2 * rate.den)

\* The quote lives from the time of its transaction; the table refuses one that
\* rounds to nothing.
Insert(r) ==
  LET term == cmd[r].term
      target == Converted(term.amount, Rate[<<term.source, term.target>>])
  IN
  /\ pc[r] = "insert"
  /\ IF target > 0
     THEN /\ quotes' = [quotes EXCEPT ![r] =
               [status |-> "ACTIVE", client |-> cmd[r].client, term |-> term,
                target |-> target, issued |-> clock, expires |-> clock + TTL,
                consumedAt |-> -1, by |-> NoTransfer]]
          /\ Answer(r, "ACTIVE")
     ELSE UNCHANGED quotes /\ Answer(r, "INTERNAL_SERVER_ERROR")
  /\ now' = [now EXCEPT ![r] = clock]
  /\ UNCHANGED <<clock, cmd>>

-----------------------------------------------------------------------------
(* Reading and consuming a quote *)

\* The first statement of both transactions reads the clock.
ReceiveGet(r, client, q) ==
  /\ Start(r, [op |-> "get", quote |-> q, client |-> client], "read")
  /\ now' = [now EXCEPT ![r] = clock]
  /\ UNCHANGED <<clock, quotes, reply>>

ReceiveConsume(r, client, q, term, t) ==
  /\ Start(r, [op |-> "consume", quote |-> q, client |-> client, term |-> term,
               transfer |-> t], "read")
  /\ now' = [now EXCEPT ![r] = clock]
  /\ UNCHANGED <<clock, quotes, reply>>

\* get returns the quote as it is, or goes on to expire it.
ReadForGet(r, q) ==
  /\ cmd[r].op = "get"
  /\ IF quotes[q].status = "ACTIVE" /\ Expired(q, now[r])
     THEN Go(r, "expire") /\ UNCHANGED reply
     ELSE Answer(r, quotes[q].status)

\* Mutant: the amount of the transfer is not compared.
ReadForConsumeMutant(r, q) ==
  /\ cmd[r].op = "consume"
  /\ IF quotes[q].status = "CONSUMED"
     THEN Answer(r, IF quotes[q].by = cmd[r].transfer THEN "CONSUMED" ELSE "QUOTE_ALREADY_USED")
     ELSE IF quotes[q].status = "EXPIRED" THEN Answer(r, "QUOTE_EXPIRED")
     ELSE Go(r, IF Expired(q, now[r]) THEN "expire" ELSE "claim") /\ UNCHANGED reply

\* consume checks the terms, what became of the quote, and then its age.
ReadForConsume(r, q) ==
  /\ cmd[r].op = "consume"
  /\ IF quotes[q].term # cmd[r].term THEN Answer(r, "QUOTE_DETAILS_MISMATCH")
     ELSE IF quotes[q].status = "CONSUMED"
     THEN Answer(r, IF quotes[q].by = cmd[r].transfer THEN "CONSUMED" ELSE "QUOTE_ALREADY_USED")
     ELSE IF quotes[q].status = "EXPIRED" THEN Answer(r, "QUOTE_EXPIRED")
     ELSE Go(r, IF Expired(q, now[r]) THEN "expire" ELSE "claim") /\ UNCHANGED reply

Read(r) ==
  LET q == cmd[r].quote IN
  /\ pc[r] = "read"
  /\ IF quotes[q] = NoQuote THEN Answer(r, "QUOTE_NOT_FOUND")
     ELSE IF quotes[q].client # cmd[r].client THEN Answer(r, "QUOTE_ACCESS_DENIED")
     ELSE ReadForGet(r, q) \/ ReadForConsume(r, q)
  /\ UNCHANGED <<clock, quotes, cmd, now>>

\* Mutant: the trigger on status transitions is missing.
TransitionAllowedMutant(q) == TRUE

\* fx_quotes_update_guard: only an active quote changes its status.
TransitionAllowed(q) == quotes[q].status \in {"ACTIVE", "EXPIRED"}

\* The update that expires a quote has no condition of its own.  get commits it;
\* consume throws after it, which rolls it back.
Expire(r) ==
  LET q == cmd[r].quote IN
  /\ pc[r] = "expire"
  /\ IF ~TransitionAllowed(q)
     THEN UNCHANGED quotes /\ Answer(r, "INTERNAL_SERVER_ERROR")
     ELSE IF cmd[r].op = "get"
     THEN quotes' = [quotes EXCEPT ![q].status = "EXPIRED"] /\ Answer(r, "EXPIRED")
     ELSE UNCHANGED quotes /\ Answer(r, "QUOTE_EXPIRED")
  /\ UNCHANGED <<clock, cmd, now>>

\* Mutant: the condition of the update is only the id.
ClaimableMutant(r, q) == TRUE

\* The condition of the one update that consumes a quote.
Claimable(r, q) == /\ quotes[q].status = "ACTIVE"
                   /\ ~Expired(q, now[r])
                   /\ quotes[q].by = NoTransfer

\* fx_quotes_consumed_by_transfer_id_key.
TransferFree(t) == \A q \in Request : quotes[q].by # t

Claim(r) ==
  LET q == cmd[r].quote
      t == cmd[r].transfer
  IN
  /\ pc[r] = "claim"
  /\ IF Claimable(r, q) /\ TransferFree(t)
     THEN /\ quotes' = [quotes EXCEPT ![q].status = "CONSUMED", ![q].by = t,
                                      ![q].consumedAt = now[r]]
          /\ Answer(r, "CONSUMED")
     ELSE /\ UNCHANGED quotes
          /\ Answer(r, IF Claimable(r, q) THEN "INTERNAL_SERVER_ERROR"
                       ELSE IF quotes[q].by = t THEN "CONSUMED"
                       ELSE "QUOTE_ALREADY_USED")
  /\ UNCHANGED <<clock, cmd, now>>

-----------------------------------------------------------------------------
Tick == clock < MaxTime /\ clock' = clock + 1 /\ UNCHANGED <<quotes, pc, cmd, now, reply>>

Init ==
  /\ clock = 0
  /\ quotes = [q \in Request |-> NoQuote]
  /\ pc = [r \in Request |-> "idle"]
  /\ cmd = [r \in Request |-> NoOperation]
  /\ now = [r \in Request |-> 0]
  /\ reply = [r \in Request |-> "none"]

Step(r) == CallProvider(r) \/ Insert(r) \/ Read(r) \/ Expire(r) \/ Claim(r)

\* A caller names a quote that was created, or none at all.
Known(r) == {q \in Request : q = r \/ quotes[q] # NoQuote}

Receive(r) ==
  \E client \in Client :
    \/ \E term \in Term : ReceiveCreate(r, client, term)
    \/ \E q \in Known(r) : ReceiveGet(r, client, q)
    \/ \E q \in Known(r), term \in Term, t \in Transfer : ReceiveConsume(r, client, q, term, t)

\* All requests are answered.
Finished == (\A r \in Request : pc[r] = "done") /\ UNCHANGED vars

Next == (\E r \in Request : Receive(r) \/ Step(r)) \/ Tick \/ Finished

Spec == Init /\ [][Next]_vars
-----------------------------------------------------------------------------
(* Properties *)

\* A quote is only consumed within its life, as the clock of the consuming
\* transaction tells it, although the update may run after the expiry.
ConsumedInTime ==
  \A q \in Request : quotes[q].status = "CONSUMED" =>
    quotes[q].issued <= quotes[q].consumedAt /\ quotes[q].consumedAt < quotes[q].expires

\* All callers that were told they consumed a quote are the transfer it is
\* bound to: simultaneous consumers have one winner, and retries of the winner
\* are told the same.
OneConsumer ==
  /\ \A r \in Request : cmd[r].op = "consume" /\ reply[r] = "CONSUMED" =>
       quotes[cmd[r].quote].by = cmd[r].transfer
  /\ \A q \in Request : (quotes[q].status = "CONSUMED") = (quotes[q].by # NoTransfer)

\* Whoever is told that it consumed a quote owns it, and the quote pays what the
\* amount that was asked for is worth, and never nothing.
PriceHonoured ==
  \A r \in Request : cmd[r].op = "consume" /\ reply[r] = "CONSUMED" =>
    LET quote == quotes[cmd[r].quote]
        term == cmd[r].term
    IN  /\ quote.client = cmd[r].client
        /\ <<term.source, term.target>> \in DOMAIN Rate
        /\ quote.target = Converted(term.amount, Rate[<<term.source, term.target>>])
        /\ quote.target > 0

\* A consumed quote is never released, expired or given to another transfer, and
\* an expired one never consumed, although get and consume act on a status and a
\* time that they read earlier.
SettledIsFinal ==
  [][\A q \in Request :
       /\ quotes[q].status = "CONSUMED" => quotes'[q] = quotes[q]
       /\ quotes[q].status = "EXPIRED" => quotes'[q].status = "EXPIRED"]_vars

-----------------------------------------------------------------------------
(* Stronger than what the code does; the README tells how it fails *)

\* README: another consumer receives QUOTE_ALREADY_USED, an expired quote
\* receives QUOTE_EXPIRED.  So a quote reported as used was consumed.
UsedMeansConsumed ==
  \A r \in Request : reply[r] = "QUOTE_ALREADY_USED" =>
    quotes[cmd[r].quote].status = "CONSUMED"
=============================================================================
