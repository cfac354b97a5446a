----------------------------- MODULE QuoteProofs ----------------------------
(***************************************************************************)
(* Theorems about the FX quotes, for any requests, transfers, clients,     *)
(* rates, life times and clocks.                                           *)
(*                                                                         *)
(* A request acts on a time and a quote that it read earlier.  The         *)
(* inductive invariant says what of that is still true when it acts: the   *)
(* quote it named existed at its time or never will, the terms it compared *)
(* are still the terms, and a quote is bound exactly when it is consumed.  *)
(***************************************************************************)
EXTENDS Quote, TLAPS

Price(term) == Converted(term.amount, Rate[<<term.source, term.target>>])

Prices == {Price(term) : term \in Term}

\* The rows of fx_quotes, and NoQuote.
Row == [status : {"NONE", "ACTIVE", "EXPIRED", "CONSUMED"}, client : Client \cup {"none"},
        term : Term \cup {<<>>}, target : Prices \cup {0},
        issued : Nat, expires : Nat, consumedAt : Int, by : Transfer \cup {NoTransfer}]

Labels == {"idle", "provider", "insert", "read", "expire", "claim", "done"}

Types ==
  /\ clock \in Nat
  /\ quotes \in [Request -> Row]
  /\ pc \in [Request -> Labels]
  /\ now \in [Request -> Nat]
  /\ DOMAIN cmd = Request /\ DOMAIN reply = Request

\* A stored quote was priced by the rate of its pair, lives as long as it should,
\* and is bound to a transfer, in time, exactly when it is consumed.
SoundRow(row) ==
  /\ row.status # "NONE"
  /\ row.expires = row.issued + TTL
  /\ <<row.term.source, row.term.target>> \in DOMAIN Rate
  /\ row.target = Price(row.term) /\ row.target > 0
  /\ row.status = "CONSUMED" <=> row.by # NoTransfer
  /\ row.status = "CONSUMED" => row.issued <= row.consumedAt /\ row.consumedAt < row.expires

\* A quote is stored by the last step of its creator.
RowsAreSound ==
  \A q \in Request : quotes[q] # NoQuote =>
    SoundRow(quotes[q]) /\ quotes[q].issued <= clock /\ pc[q] = "done"

\* What a creator knows once the provider has answered.
CreatorsHaveRates ==
  \A r \in Request :
    /\ pc[r] \in {"provider", "insert"} =>
         cmd[r].op = "create" /\ cmd[r].client \in Client /\ cmd[r].term \in Term
    /\ pc[r] = "insert" => <<cmd[r].term.source, cmd[r].term.target>> \in DOMAIN Rate

\* The quote that a reader names was there when it read the clock; or it is the
\* reader's own, which is never stored.
ReadersAreLate ==
  \A r \in Request : pc[r] \in {"read", "expire", "claim"} =>
    /\ cmd[r].op \in {"get", "consume"} /\ cmd[r].quote \in Request
    /\ cmd[r].op = "consume" => cmd[r].transfer \in Transfer
    /\ \/ cmd[r].quote = r
       \/ quotes[cmd[r].quote] # NoQuote /\ quotes[cmd[r].quote].issued <= now[r]

\* A reader goes on to an update only for the owner's quote and, if it consumes
\* it, with the terms of the quote.
Agreed(r) ==
  /\ quotes[cmd[r].quote] # NoQuote
  /\ quotes[cmd[r].quote].client = cmd[r].client
  /\ cmd[r].op = "consume" => quotes[cmd[r].quote].term = cmd[r].term

WritersAgreed ==
  \A r \in Request :
    /\ pc[r] \in {"expire", "claim"} => Agreed(r)
    /\ pc[r] = "claim" => cmd[r].op = "consume"

\* Whoever is told that it consumed the quote has it.
ConsumersAgreed ==
  \A r \in Request : cmd[r].op = "consume" /\ reply[r] = "CONSUMED" =>
    /\ pc[r] = "done" /\ cmd[r].quote \in Request /\ cmd[r].transfer \in Transfer
    /\ Agreed(r) /\ quotes[cmd[r].quote].by = cmd[r].transfer

Unanswered == \A r \in Request : pc[r] # "done" => reply[r] = "none"

IInv ==
  /\ Types
  /\ RowsAreSound
  /\ CreatorsHaveRates
  /\ ReadersAreLate
  /\ WritersAgreed
  /\ ConsumersAgreed
  /\ Unanswered

-----------------------------------------------------------------------------
\* The row that stands for no quote has no consumer.
LEMMA NoQuoteIsFree == NoQuote.status = "NONE" /\ NoQuote.by = NoTransfer
  BY DEF NoQuote

\* A row that is consumed is still a row, under the same terms.
LEMMA ConsumedRow ==
  ASSUME NEW row \in Row, NEW t \in Transfer, NEW n \in Nat
  PROVE  [row EXCEPT !.status = "CONSUMED", !.by = t, !.consumedAt = n] \in Row
  <1>1. \A x \in Row : [x EXCEPT !.status = "CONSUMED"] \in Row
    BY DEF Row
  <1>2. \A x \in Row : [x EXCEPT !.by = t] \in Row
    BY DEF Row
  <1>3. \A x \in Row : [x EXCEPT !.consumedAt = n] \in Row
    BY DEF Row
  <1>4. [row EXCEPT !.status = "CONSUMED", !.by = t, !.consumedAt = n]
          = [[[row EXCEPT !.status = "CONSUMED"] EXCEPT !.by = t] EXCEPT !.consumedAt = n]
    OBVIOUS
  <1> QED
    BY <1>1, <1>2, <1>3, <1>4

\* There is no quote yet.
LEMMA InitInv == Init => IInv
  <1> SUFFICES ASSUME Init PROVE IInv
    OBVIOUS
  <1>1. NoQuote \in Row
    BY DEF NoQuote, Row
  <1> QED
    BY <1>1 DEF Init, IInv, Types, RowsAreSound, CreatorsHaveRates, ReadersAreLate,
                WritersAgreed, ConsumersAgreed, Unanswered, NoOperation, Labels

\* What Go and Answer do to the request that takes the step and to the others.
LEMMA GoFacts ==
  ASSUME Types, NEW r \in Request, NEW label \in Labels, Go(r, label)
  PROVE  /\ pc' \in [Request -> Labels] /\ pc'[r] = label
         /\ \A p \in Request \ {r} : pc'[p] = pc[p]
  BY DEF Types, Go

\* A request is answered, and no other.
LEMMA AnswerFacts ==
  ASSUME Types, NEW r \in Request, NEW code, Answer(r, code)
  PROVE  /\ pc' \in [Request -> Labels] /\ pc'[r] = "done"
         /\ DOMAIN reply' = Request /\ reply'[r] = code
         /\ \A p \in Request \ {r} : pc'[p] = pc[p] /\ reply'[p] = reply[p]
  BY DEF Types, Answer, Go, Labels

\* A step of one request that leaves the quotes alone.
LEMMA LocalStep ==
  ASSUME IInv, NEW r \in Request, UNCHANGED <<clock, quotes>>, pc[r] # "done",
         Types',
         \A p \in Request \ {r} : /\ pc'[p] = pc[p] /\ cmd'[p] = cmd[p]
                                  /\ now'[p] = now[p] /\ reply'[p] = reply[p],
         pc'[r] \in {"provider", "insert"} =>
           cmd'[r].op = "create" /\ cmd'[r].client \in Client /\ cmd'[r].term \in Term,
         pc'[r] = "insert" => <<cmd'[r].term.source, cmd'[r].term.target>> \in DOMAIN Rate,
         pc'[r] \in {"read", "expire", "claim"} =>
           /\ cmd'[r].op \in {"get", "consume"} /\ cmd'[r].quote \in Request
           /\ cmd'[r].op = "consume" => cmd'[r].transfer \in Transfer
           /\ \/ cmd'[r].quote = r
              \/ quotes[cmd'[r].quote] # NoQuote /\ quotes[cmd'[r].quote].issued <= now'[r],
         pc'[r] \in {"expire", "claim"} => Agreed(r)',
         pc'[r] = "claim" => cmd'[r].op = "consume",
         pc'[r] # "done" => reply'[r] = "none",
         cmd'[r].op = "consume" /\ reply'[r] = "CONSUMED" =>
           /\ cmd'[r].quote \in Request /\ cmd'[r].transfer \in Transfer
           /\ Agreed(r)' /\ quotes[cmd'[r].quote].by = cmd'[r].transfer
  PROVE  IInv'
  <1>1. RowsAreSound'
    BY DEF IInv, RowsAreSound, Types
  <1>2. CreatorsHaveRates' /\ ReadersAreLate'
    BY DEF IInv, CreatorsHaveRates, ReadersAreLate
  <1>3. WritersAgreed' /\ Unanswered'
    BY DEF IInv, WritersAgreed, Unanswered, Agreed
  <1>4. ConsumersAgreed'
    BY DEF IInv, ConsumersAgreed, Agreed, Unanswered
  <1> QED
    BY <1>1, <1>2, <1>3, <1>4 DEF IInv

\* An operation arrives; the two that read take the time of the clock.
LEMMA ReceiveStep ==
  ASSUME IInv, NEW r \in Request, Receive(r)
  PROVE  IInv'
  <1>1. PICK client \in Client :
          \/ \E term \in Term : ReceiveCreate(r, client, term)
          \/ \E q \in Known(r) : ReceiveGet(r, client, q)
          \/ \E q \in Known(r), term \in Term, t \in Transfer :
               ReceiveConsume(r, client, q, term, t)
    BY DEF Receive
  <1>2. /\ pc[r] = "idle" /\ reply[r] = "none" /\ UNCHANGED <<clock, quotes, reply>>
        /\ DOMAIN cmd' = Request /\ \A p \in Request \ {r} : cmd'[p] = cmd[p]
    BY <1>1 DEF ReceiveCreate, ReceiveGet, ReceiveConsume, Start, IInv, Unanswered, Types
  <1>3. CASE \E term \in Term : ReceiveCreate(r, client, term)
    <2>1. /\ pc' = [pc EXCEPT ![r] = "provider"] /\ UNCHANGED now
          /\ cmd'[r].op = "create" /\ cmd'[r].client \in Client /\ cmd'[r].term \in Term
      BY <1>3 DEF ReceiveCreate, Start, Go, IInv, Types
    <2>2. Types' /\ pc'[r] = "provider" /\ \A p \in Request \ {r} : pc'[p] = pc[p]
      BY <1>2, <2>1 DEF IInv, Types, Labels
    <2> QED
      BY <1>2, <2>1, <2>2, LocalStep
  <1>4. CASE \/ \E q \in Known(r) : ReceiveGet(r, client, q)
             \/ \E q \in Known(r), term \in Term, t \in Transfer :
                  ReceiveConsume(r, client, q, term, t)
    <2>1. /\ pc' = [pc EXCEPT ![r] = "read"] /\ now' = [now EXCEPT ![r] = clock]
          /\ cmd'[r].op \in {"get", "consume"} /\ cmd'[r].quote \in Known(r)
          /\ cmd'[r].op = "consume" => cmd'[r].transfer \in Transfer
      BY <1>4 DEF ReceiveGet, ReceiveConsume, Start, Go, IInv, Types
    <2>2. /\ Types' /\ pc'[r] = "read" /\ now'[r] = clock
          /\ \A p \in Request \ {r} : pc'[p] = pc[p] /\ now'[p] = now[p]
      BY <1>2, <2>1 DEF IInv, Types, Labels
    <2>3. /\ cmd'[r].quote \in Request
          /\ \/ cmd'[r].quote = r
             \/ quotes[cmd'[r].quote] # NoQuote /\ quotes[cmd'[r].quote].issued <= clock
      BY <2>1 DEF Known, IInv, RowsAreSound
    <2> QED
      BY <1>2, <2>1, <2>2, <2>3, LocalStep
  <1> QED
    BY <1>1, <1>3, <1>4

\* The provider answers.
LEMMA ProviderStep ==
  ASSUME IInv, NEW r \in Request, CallProvider(r)
  PROVE  IInv'
  <1>1. /\ pc[r] = "provider" /\ reply[r] = "none" /\ UNCHANGED <<clock, quotes, cmd, now>>
        /\ cmd[r].op = "create" /\ cmd[r].client \in Client /\ cmd[r].term \in Term
    BY DEF CallProvider, IInv, Unanswered, CreatorsHaveRates
  <1>2. /\ Types' /\ \A p \in Request \ {r} : pc'[p] = pc[p] /\ reply'[p] = reply[p]
        /\ pc'[r] \in {"done", "insert"}
        /\ pc'[r] = "insert" => /\ <<cmd[r].term.source, cmd[r].term.target>> \in DOMAIN Rate
                                /\ reply'[r] = "none"
    <2>1. CASE \E code : Answer(r, code)
      BY <1>1, <2>1, AnswerFacts DEF IInv, Types
    <2>2. CASE /\ <<cmd[r].term.source, cmd[r].term.target>> \in DOMAIN Rate
               /\ Go(r, "insert") /\ UNCHANGED reply
      BY <1>1, <2>2, GoFacts DEF IInv, Types, Labels
    <2> QED
      BY <2>1, <2>2 DEF CallProvider
  <1> QED
    BY <1>1, <1>2, LocalStep

\* A quote is read and judged.
LEMMA ReadStep ==
  ASSUME IInv, NEW r \in Request, Read(r)
  PROVE  IInv'
  <1> DEFINE q == cmd[r].quote
  <1>1. /\ pc[r] = "read" /\ reply[r] = "none" /\ UNCHANGED <<clock, quotes, cmd, now>>
        /\ cmd[r].op \in {"get", "consume"} /\ q \in Request
        /\ cmd[r].op = "consume" => cmd[r].transfer \in Transfer
        /\ q = r \/ (quotes[q] # NoQuote /\ quotes[q].issued <= now[r])
    BY DEF Read, IInv, Unanswered, ReadersAreLate
  <1>2. /\ Types' /\ \A p \in Request \ {r} : pc'[p] = pc[p] /\ reply'[p] = reply[p]
        /\ pc'[r] \in {"done", "expire", "claim"}
        /\ pc'[r] # "done" => reply'[r] = "none" /\ Agreed(r)
        /\ pc'[r] = "claim" => cmd[r].op = "consume"
        /\ cmd[r].op = "consume" /\ reply'[r] = "CONSUMED" =>
             Agreed(r) /\ quotes[q].by = cmd[r].transfer
    <2>1. CASE \E code : /\ Answer(r, code)
                         /\ cmd[r].op = "consume" /\ code = "CONSUMED" =>
                              Agreed(r) /\ quotes[q].by = cmd[r].transfer
      BY <1>1, <2>1, AnswerFacts DEF IInv, Types
    <2>2. CASE \E label \in {"expire", "claim"} :
                 /\ Go(r, label) /\ UNCHANGED reply /\ Agreed(r)
                 /\ label = "claim" => cmd[r].op = "consume"
      BY <1>1, <2>2, GoFacts DEF IInv, Types, Labels
    <2> QED
      BY <2>1, <2>2 DEF Read, ReadForGet, ReadForConsume, Agreed
  <1>3. Agreed(r)' <=> Agreed(r)
    BY <1>1 DEF Agreed
  <1> QED
    BY <1>1, <1>2, <1>3, LocalStep

\* A step that writes one quote: the rows of the other quotes stay, the quote
\* keeps its terms, and the request is answered.
LEMMA WriteStep ==
  ASSUME IInv, NEW r \in Request, NEW q \in Request, UNCHANGED <<clock, cmd>>,
         pc[r] # "done", Types', pc'[r] = "done",
         \A p \in Request \ {r} : /\ pc'[p] = pc[p] /\ reply'[p] = reply[p]
                                  /\ now'[p] = now[p],
         \A p \in Request \ {q} : quotes'[p] = quotes[p],
         quotes'[q] # NoQuote => /\ SoundRow(quotes'[q]) /\ quotes'[q].issued <= clock
                                 /\ pc'[q] = "done",
         quotes[q] # NoQuote => /\ quotes'[q] # NoQuote
                                /\ quotes'[q].issued = quotes[q].issued
                                /\ quotes'[q].client = quotes[q].client
                                /\ quotes'[q].term = quotes[q].term
                                /\ quotes[q].by # NoTransfer => quotes'[q].by = quotes[q].by,
         cmd[r].op = "consume" /\ reply'[r] = "CONSUMED" =>
           /\ cmd[r].quote \in Request /\ cmd[r].transfer \in Transfer
           /\ Agreed(r)' /\ quotes'[cmd[r].quote].by = cmd[r].transfer
  PROVE  IInv'
  <1>1. RowsAreSound'
    BY DEF IInv, RowsAreSound
  <1>2. CreatorsHaveRates' /\ Unanswered'
    BY DEF IInv, CreatorsHaveRates, Unanswered
  <1>3. ReadersAreLate'
    BY DEF IInv, ReadersAreLate
  <1>4. \A p \in Request : cmd[p].quote \in Request /\ Agreed(p) => Agreed(p)'
    BY DEF Agreed
  <1>5. WritersAgreed'
    BY <1>4 DEF IInv, WritersAgreed, ReadersAreLate
  <1>6. ConsumersAgreed'
    BY <1>4, TransferAssumption DEF IInv, ConsumersAgreed, Agreed
  <1> QED
    BY <1>1, <1>2, <1>3, <1>5, <1>6 DEF IInv

\* The new quote is priced, lives from now on and belongs to nobody.
LEMMA InsertStep ==
  ASSUME IInv, NEW r \in Request, Insert(r)
  PROVE  IInv'
  <1> DEFINE term == cmd[r].term
  <1> DEFINE row == [status |-> "ACTIVE", client |-> cmd[r].client, term |-> term,
                     target |-> Price(term), issued |-> clock, expires |-> clock + TTL,
                     consumedAt |-> -1, by |-> NoTransfer]
  <1>1. /\ pc[r] = "insert" /\ UNCHANGED <<clock, cmd>> /\ now' = [now EXCEPT ![r] = clock]
        /\ cmd[r].op = "create" /\ cmd[r].client \in Client /\ term \in Term
        /\ <<term.source, term.target>> \in DOMAIN Rate
        /\ quotes[r] = NoQuote
    BY DEF Insert, IInv, CreatorsHaveRates, RowsAreSound
  <1>2. /\ now' \in [Request -> Nat] /\ clock \in Nat
        /\ \A p \in Request \ {r} : now'[p] = now[p]
    BY <1>1 DEF IInv, Types
  <1>3. CASE Price(term) > 0 /\ quotes' = [quotes EXCEPT ![r] = row] /\ Answer(r, "ACTIVE")
    <2>1. row \in Row /\ SoundRow(row)
      BY <1>1, <1>2, <1>3, TimeAssumption, TransferAssumption DEF Row, SoundRow, Prices
    <2>2. /\ quotes' \in [Request -> Row] /\ quotes'[r] = row
          /\ \A p \in Request \ {r} : quotes'[p] = quotes[p]
      BY <1>3, <2>1 DEF IInv, Types
    <2>3. Types' /\ pc'[r] = "done" /\ \A p \in Request \ {r} : pc'[p] = pc[p] /\ reply'[p] = reply[p]
      BY <1>1, <1>2, <1>3, <2>2, AnswerFacts DEF IInv, Types
    <2> QED
      BY <1>1, <1>2, <2>1, <2>2, <2>3, WriteStep
  <1>4. CASE UNCHANGED quotes /\ Answer(r, "INTERNAL_SERVER_ERROR")
    <2>1. Types' /\ pc'[r] = "done" /\ \A p \in Request \ {r} : pc'[p] = pc[p] /\ reply'[p] = reply[p]
      BY <1>1, <1>2, <1>4, AnswerFacts DEF IInv, Types
    <2> QED
      BY <1>1, <1>2, <1>4, <2>1, WriteStep
  <1> QED
    BY <1>3, <1>4 DEF Insert, Price

\* get expires a quote that nobody has consumed; consume changes nothing.
LEMMA ExpireStep ==
  ASSUME IInv, NEW r \in Request, Expire(r)
  PROVE  IInv'
  <1> DEFINE q == cmd[r].quote
  <1>1. /\ pc[r] = "expire" /\ UNCHANGED <<clock, cmd, now>> /\ q \in Request
        /\ quotes[q] # NoQuote /\ quotes[q] \in Row /\ SoundRow(quotes[q])
        /\ quotes[q].issued <= clock /\ pc[q] = "done"
    BY DEF Expire, IInv, ReadersAreLate, WritersAgreed, Agreed, RowsAreSound, Types
  <1>2. /\ \E code : Answer(r, code) /\ (code = "CONSUMED" => cmd[r].op = "get")
        /\ \/ UNCHANGED quotes
           \/ quotes[q].status # "CONSUMED" /\ quotes' = [quotes EXCEPT ![q].status = "EXPIRED"]
    BY DEF Expire, TransitionAllowed
  <1>3. /\ pc' \in [Request -> Labels] /\ pc'[r] = "done" /\ DOMAIN reply' = Request
        /\ \A p \in Request \ {r} : pc'[p] = pc[p] /\ reply'[p] = reply[p]
        /\ reply'[r] = "CONSUMED" => cmd[r].op = "get"
    BY <1>2, AnswerFacts DEF IInv
  <1>4. CASE UNCHANGED quotes
    <2>1. Types'
      BY <1>1, <1>3, <1>4 DEF IInv, Types
    <2> QED
      BY <1>1, <1>3, <1>4, <2>1, WriteStep
  <1>5. CASE quotes[q].status # "CONSUMED" /\ quotes' = [quotes EXCEPT ![q].status = "EXPIRED"]
    <2>1. /\ quotes'[q] = [quotes[q] EXCEPT !.status = "EXPIRED"]
          /\ \A p \in Request \ {q} : quotes'[p] = quotes[p]
          /\ DOMAIN quotes' = Request /\ quotes' = [p \in Request |-> quotes'[p]]
      BY <1>1, <1>5 DEF IInv, Types
    <2>2. quotes'[q] \in Row /\ SoundRow(quotes'[q]) /\ quotes'[q] # NoQuote
      BY <1>1, <1>5, <2>1 DEF Row, SoundRow, NoQuote
    <2>3. /\ quotes'[q].issued = quotes[q].issued /\ quotes'[q].client = quotes[q].client
          /\ quotes'[q].term = quotes[q].term /\ quotes'[q].by = quotes[q].by
      BY <1>1, <2>1 DEF Row
    <2>4. Types'
      BY <1>1, <1>3, <2>1, <2>2 DEF IInv, Types
    <2>5. pc'[q] = "done"
      BY <1>1, <1>3
    <2> QED
      BY <1>1, <1>3, <2>1, <2>2, <2>3, <2>4, <2>5, WriteStep
  <1> QED
    BY <1>2, <1>4, <1>5

\* The one update that consumes a quote takes it for a transfer that has none, in
\* time; a request that loses learns whose it is.
LEMMA ClaimStep ==
  ASSUME IInv, NEW r \in Request, Claim(r)
  PROVE  IInv'
  <1> DEFINE q == cmd[r].quote
  <1> DEFINE t == cmd[r].transfer
  <1>1. /\ pc[r] = "claim" /\ UNCHANGED <<clock, cmd, now>> /\ q \in Request
        /\ quotes[q] # NoQuote /\ quotes[q] \in Row /\ SoundRow(quotes[q])
        /\ quotes[q].issued <= clock /\ pc[q] = "done" /\ now[r] \in Nat
        /\ cmd[r].op = "consume" /\ t \in Transfer /\ Agreed(r)
        /\ quotes[q].issued <= now[r]
    BY DEF Claim, IInv, ReadersAreLate, WritersAgreed, Agreed, RowsAreSound, Types
  <1>2. CASE Claimable(r, q) /\ TransferFree(t)
    <2>1. /\ quotes' = [quotes EXCEPT ![q].status = "CONSUMED", ![q].by = t,
                                      ![q].consumedAt = now[r]]
          /\ Answer(r, "CONSUMED")
      BY <1>2 DEF Claim
    <2>2. /\ pc' \in [Request -> Labels] /\ pc'[r] = "done" /\ DOMAIN reply' = Request
          /\ \A p \in Request \ {r} : pc'[p] = pc[p] /\ reply'[p] = reply[p]
      BY <2>1, AnswerFacts DEF IInv
    <2>3. /\ quotes'[q] = [quotes[q] EXCEPT !.status = "CONSUMED", !.by = t,
                                            !.consumedAt = now[r]]
          /\ \A p \in Request \ {q} : quotes'[p] = quotes[p]
          /\ DOMAIN quotes' = Request /\ quotes' = [p \in Request |-> quotes'[p]]
      BY <1>1, <2>1 DEF IInv, Types
    <2>4. /\ quotes'[q].status = "CONSUMED" /\ quotes'[q].by = t /\ quotes'[q].consumedAt = now[r]
          /\ quotes'[q].issued = quotes[q].issued /\ quotes'[q].expires = quotes[q].expires
          /\ quotes'[q].client = quotes[q].client /\ quotes'[q].term = quotes[q].term
          /\ quotes'[q].target = quotes[q].target
      BY <1>1, <2>3 DEF Row
    <2>9. quotes'[q] \in Row
      <3>1. quotes[q] \in Row /\ t \in Transfer /\ now[r] \in Nat
        BY <1>1
      <3>2. [quotes[q] EXCEPT !.status = "CONSUMED", !.by = t, !.consumedAt = now[r]] \in Row
        BY <3>1, ConsumedRow
      <3> QED
        BY <2>3, <3>2
    <2>5. quotes[q].by = NoTransfer /\ now[r] < quotes[q].expires
      BY <1>1, <1>2 DEF Claimable, Expired, Row
    <2>6. SoundRow(quotes'[q]) /\ quotes'[q] # NoQuote
      BY <1>1, <2>4, <2>5, TransferAssumption DEF SoundRow, NoQuote
    <2>7. Types'
      BY <1>1, <2>2, <2>3, <2>9 DEF IInv, Types
    <2>8. Agreed(r)' /\ pc'[q] = "done"
      BY <1>1, <2>2, <2>4, <2>6 DEF Agreed
    <2> QED
      <3>1. /\ \A p \in Request \ {r} : /\ pc'[p] = pc[p] /\ reply'[p] = reply[p]
                                        /\ now'[p] = now[p]
            /\ quotes'[q].issued <= clock
        BY <1>1, <2>2, <2>4
      <3> QED
        BY <1>1, <2>2, <2>3, <2>4, <2>5, <2>6, <2>7, <2>8, <3>1, WriteStep
  <1>3. CASE ~(Claimable(r, q) /\ TransferFree(t))
    <2>1. /\ UNCHANGED quotes
          /\ \E code : Answer(r, code) /\ (code = "CONSUMED" => quotes[q].by = t)
      BY <1>3 DEF Claim
    <2>2. /\ pc' \in [Request -> Labels] /\ pc'[r] = "done" /\ DOMAIN reply' = Request
          /\ \A p \in Request \ {r} : pc'[p] = pc[p] /\ reply'[p] = reply[p]
          /\ reply'[r] = "CONSUMED" => quotes[q].by = t
      BY <2>1, AnswerFacts DEF IInv
    <2>3. Types' /\ Agreed(r)'
      BY <1>1, <2>1, <2>2 DEF IInv, Types, Agreed
    <2> QED
      BY <1>1, <2>1, <2>2, <2>3, WriteStep
  <1> QED
    BY <1>2, <1>3

\* Every step keeps the invariant.
LEMMA NextInv ==
  ASSUME IInv, [Next]_vars
  PROVE  IInv'
  <1>1. CASE Tick
    <2>1. clock' \in Nat /\ clock <= clock' /\ UNCHANGED <<quotes, pc, cmd, now, reply>>
      BY <1>1 DEF Tick, IInv, Types
    <2>2. Types' /\ RowsAreSound'
      BY <2>1 DEF IInv, Types, RowsAreSound, Row
    <2> QED
      BY <2>1, <2>2 DEF IInv, CreatorsHaveRates, ReadersAreLate, WritersAgreed, Agreed,
                        ConsumersAgreed, Unanswered
  <1>2. CASE UNCHANGED vars
    BY <1>2 DEF vars, IInv, Types, RowsAreSound, CreatorsHaveRates, ReadersAreLate,
                WritersAgreed, Agreed, ConsumersAgreed, Unanswered
  <1> QED
    BY <1>1, <1>2, ReceiveStep, ProviderStep, InsertStep, ReadStep, ExpireStep, ClaimStep
       DEF Next, Step, Finished
-----------------------------------------------------------------------------
\* The invariant holds in every behaviour.
THEOREM Inductive == Spec => []IInv
  BY InitInv, NextInv, PTL DEF Spec

\* A quote is only consumed within its life, as the clock of the consuming
\* transaction tells it.
THEOREM ConsumedInTimeTheorem == Spec => []ConsumedInTime
  <1>1. IInv => ConsumedInTime
    BY NoQuoteIsFree DEF IInv, RowsAreSound, SoundRow, ConsumedInTime
  <1> QED
    BY <1>1, Inductive, PTL

\* All callers that were told they consumed a quote are the transfer it is bound
\* to, and exactly the consumed quotes are bound.
THEOREM OneConsumerTheorem == Spec => []OneConsumer
  <1>1. IInv => OneConsumer
    BY NoQuoteIsFree DEF IInv, RowsAreSound, SoundRow, ConsumersAgreed, OneConsumer
  <1> QED
    BY <1>1, Inductive, PTL

\* Whoever consumed a quote owns it and gets what the amount it asked for is
\* worth at the rate of the pair, and never nothing.
THEOREM PriceHonouredTheorem == Spec => []PriceHonoured
  <1>1. IInv => PriceHonoured
    BY DEF IInv, RowsAreSound, SoundRow, ConsumersAgreed, Agreed, PriceHonoured, Price
  <1> QED
    BY <1>1, Inductive, PTL

\* No step releases, expires or rebinds a consumed quote, or consumes an expired
\* one.
THEOREM SettledIsFinalTheorem == Spec => SettledIsFinal
  <1> DEFINE Final == \A q \in Request :
                        /\ quotes[q].status = "CONSUMED" => quotes'[q] = quotes[q]
                        /\ quotes[q].status = "EXPIRED" => quotes'[q].status = "EXPIRED"
  <1>1. ASSUME IInv, NEW r \in Request, Insert(r) PROVE Final
    <2>1. quotes[r].status = "NONE"
      BY <1>1 DEF Insert, IInv, RowsAreSound, NoQuote
    <2>2. \A q \in Request \ {r} : quotes'[q] = quotes[q]
      BY <1>1 DEF Insert, IInv, Types
    <2> QED
      BY <2>1, <2>2
  <1>2. ASSUME IInv, NEW r \in Request, Expire(r) PROVE Final
    <2>1. CASE UNCHANGED quotes
      BY <2>1
    <2>2. CASE /\ quotes[cmd[r].quote].status # "CONSUMED"
               /\ quotes' = [quotes EXCEPT ![cmd[r].quote].status = "EXPIRED"]
      BY <1>2, <2>2 DEF IInv, Types, Row
    <2> QED
      BY <1>2, <2>1, <2>2 DEF Expire, TransitionAllowed
  <1>3. ASSUME IInv, NEW r \in Request, Claim(r) PROVE Final
    <2>1. CASE UNCHANGED quotes
      BY <2>1
    <2>2. CASE /\ quotes[cmd[r].quote].status = "ACTIVE"
               /\ \A q \in Request : q # cmd[r].quote => quotes'[q] = quotes[q]
      BY <2>2
    <2> QED
      BY <1>3, <2>1, <2>2 DEF Claim, Claimable, IInv, Types
  <1>4. ASSUME [Next]_vars, \A r \in Request : ~(Insert(r) \/ Expire(r) \/ Claim(r))
        PROVE  Final
    BY <1>4 DEF Next, Receive, Step, Tick, Finished, ReceiveCreate, ReceiveGet, ReceiveConsume,
                CallProvider, Read, vars
  <1>5. IInv /\ [Next]_vars => Final
    BY <1>1, <1>2, <1>3, <1>4
  <1> QED
    BY <1>5, Inductive, PTL DEF Spec, SettledIsFinal
=============================================================================
