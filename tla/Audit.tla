-------------------------------- MODULE Audit -------------------------------
(***************************************************************************)
(* The audit chain of the Admin service: AuditService.append, verify and   *)
(* records, with the operator event that the controller appends after the  *)
(* last two.  Appends are READ COMMITTED transactions that lock the row of *)
(* their stream; verify and records read the stream and its records in two *)
(* separate statements.                                                    *)
(*                                                                         *)
(* A hash is modelled without collisions: it is the sequence of everything *)
(* it covers, the hash of the previous record included.                    *)
(***************************************************************************)
EXTENDS Integers, Sequences, FiniteSets, SequencesExt, Ordering

CONSTANTS
  Request,     \* requests to the service
  NoRequest,   \* nobody
  Stream,      \* the streams that services append to
  Operators,   \* the stream of operator actions
  Event,       \* service events: event id, stream, canonical data, time
  Key,         \* idempotency keys of verifications
  MaxTampers   \* bound on changes made behind the back of the service

ASSUME StreamAssumption == Operators \notin Stream /\ NoRequest \notin Request

VARIABLES
  records,   \* audit_records of each stream, by sequence
  head,      \* audit_streams: does the row exist, last sequence and hash
  locked,    \* the transaction that holds the row of the stream
  pc,        \* where each request is
  event,     \* the event each request appends
  check,     \* what each request has read: the head it appends to, and the
             \* stream, head and records of a verification
  reply,     \* what each request was answered
  genuine,   \* everything ever appended to each stream
  tampers    \* changes made to the stored records

chain == <<records, head, genuine>>
vars == <<records, head, locked, pc, event, check, reply, genuine, tampers>>

Streams == Stream \cup {Operators}
ASSUME EventAssumption == \A e \in Event : e.stream \in Streams

Genesis == <<>>
Forged == <<"forged">>   \* data that no event has
NoHead == [exists |-> FALSE, sequence |-> 0, hash |-> Genesis]
NoEvent == [id |-> <<>>, stream |-> Operators, data |-> <<>>, at |-> 0, operator |-> FALSE]
NoCheck == [stream |-> Operators, base |-> NoHead, head |-> NoHead, read |-> <<>>, op |-> "none", key |-> "none"]

\* computeAuditHash covers the previous hash, the stream, the sequence, the
\* canonical data and the time.
Hash(previous, s, sequence, data, at) == Append(previous, <<s, sequence, data, at>>)

Record(e, h) ==
  [id |-> e.id, sequence |-> h.sequence + 1, data |-> e.data, at |-> e.at,
   previous |-> h.hash, hash |-> Hash(h.hash, e.stream, h.sequence + 1, e.data, e.at)]

\* The record with an event id, in whichever stream.
StoredIn(s, id) == {i \in DOMAIN records[s] : records[s][i].id = id}
Stored(id) == \E s \in Streams : StoredIn(s, id) # {}

Go(r, label) == pc' = [pc EXCEPT ![r] = label]
Answer(r, code) == Go(r, "done") /\ reply' = [reply EXCEPT ![r] = code]

-----------------------------------------------------------------------------
(* Appending *)

ReceiveAppend(r, e) ==
  /\ pc[r] = "idle"
  /\ event' = [event EXCEPT ![r] = e]
  /\ Go(r, "prior")
  /\ UNCHANGED <<chain, locked, check, reply, tampers>>

\* Mutant: the stored record is returned whatever it says.
IdenticalMutant(r, s, record) == TRUE

\* resolveExisting: the stored record must be the event that was sent; only an
\* operator's retry may come at another time.
Identical(r, s, record) ==
  /\ s = event[r].stream
  /\ record.data = event[r].data
  /\ event[r].operator \/ record.at = event[r].at

\* A request ends with the record of its event; verify returns its own result.
Resolve(r) ==
  \E s \in Streams : \E i \in StoredIn(s, event[r].id) :
    IF ~Identical(r, s, records[s][i]) THEN Answer(r, "AUDIT_EVENT_ID_REUSED")
    ELSE Go(r, "done") /\ reply' = [reply EXCEPT ![r] = IF @ = "none" THEN "RECORDED" ELSE @]

\* appendNormalized looks for the event before it opens the transaction.
FindPrior(r) ==
  /\ pc[r] = "prior"
  /\ IF Stored(event[r].id) THEN Resolve(r) ELSE Go(r, "lock") /\ UNCHANGED reply
  /\ UNCHANGED <<chain, locked, event, check, tampers>>

\* Mutant: the head is read without FOR UPDATE.
LockFreeMutant(s) == TRUE

\* The row of the stream is free for SELECT ... FOR UPDATE.
LockFree(s) == locked[s] = NoRequest

\* The stream is created unless it exists, its row locked and read.  Another
\* transaction that creates or holds it is waited for.
LockHead(r) ==
  LET s == event[r].stream IN
  /\ pc[r] = "lock"
  /\ LockFree(s)
  /\ locked' = [locked EXCEPT ![s] = r]
  /\ check' = [check EXCEPT ![r].base = head[s]]
  /\ Go(r, "existing")
  /\ UNCHANGED <<chain, event, reply, tampers>>

Unlock(r) == locked' = [s \in Streams |-> IF locked[s] = r THEN NoRequest ELSE locked[s]]

\* The event is looked for again under the lock; if it is there, the
\* transaction commits with the stream it may have created, and the record is
\* judged afterwards.
FindExisting(r) ==
  /\ pc[r] = "existing"
  /\ IF Stored(event[r].id)
     THEN /\ Resolve(r) /\ Unlock(r)
          /\ head' = [head EXCEPT ![event[r].stream].exists = TRUE]
     ELSE Go(r, "insert") /\ UNCHANGED <<head, locked, reply>>
  /\ UNCHANGED <<records, genuine, event, check, tampers>>

\* The unique indexes on the event id and on stream and sequence.
UniqueViolation(r) ==
  \/ Stored(event[r].id)
  \/ \E i \in DOMAIN records[event[r].stream] :
       records[event[r].stream][i].sequence = check[r].base.sequence + 1

NewHead(h, record) == [exists |-> TRUE, sequence |-> record.sequence, hash |-> record.hash]

Insert(r) ==
  LET s == event[r].stream
      record == Record(event[r], check[r].base)
  IN
  /\ pc[r] = "insert"
  /\ ~UniqueViolation(r)
  /\ records' = [records EXCEPT ![s] = Append(@, record)]
  /\ genuine' = [genuine EXCEPT ![s] = Append(@, record)]
  /\ head' = [head EXCEPT ![s] = NewHead(check[r].base, record)]
  /\ Unlock(r)
  /\ Go(r, "done") /\ reply' = [reply EXCEPT ![r] = IF @ = "none" THEN "RECORDED" ELSE @]
  /\ UNCHANGED <<event, check, tampers>>

\* A unique violation rolls back and returns the winner, if the event has one.
InsertConflict(r) ==
  /\ pc[r] = "insert"
  /\ UniqueViolation(r)
  /\ Unlock(r)
  /\ Go(r, "conflict")
  /\ UNCHANGED <<chain, event, check, reply, tampers>>

ResolveConflict(r) ==
  /\ pc[r] = "conflict"
  /\ IF Stored(event[r].id) THEN Resolve(r) ELSE Answer(r, "INTERNAL_SERVER_ERROR")
  /\ UNCHANGED <<chain, locked, event, check, tampers>>

-----------------------------------------------------------------------------
(* Verifying and reading *)

ReceiveCheck(r, op, s, key) ==
  /\ pc[r] = "idle"
  /\ check' = [check EXCEPT ![r] = [NoCheck EXCEPT !.stream = s, !.op = op, !.key = key]]
  /\ Go(r, "readHead")
  /\ UNCHANGED <<chain, locked, event, reply, tampers>>

ReadHead(r) ==
  LET s == check[r].stream IN
  /\ pc[r] = "readHead"
  /\ IF head[s].exists
     THEN check' = [check EXCEPT ![r].head = head[s]] /\ Go(r, "readRecords") /\ UNCHANGED reply
     ELSE Answer(r, "AUDIT_STREAM_NOT_FOUND") /\ UNCHANGED check
  /\ UNCHANGED <<chain, locked, event, tampers>>

\* A record continues the chain of the records read before it.
Links(s, read, i) ==
  LET previous == IF i = 1 THEN Genesis ELSE read[i - 1].hash IN
  /\ read[i].sequence = i
  /\ read[i].previous = previous
  /\ read[i].hash = Hash(previous, s, i, read[i].data, read[i].at)

\* Mutant: the head of the stream is not compared with the last record.
HeadMatchesMutant(h, read) == TRUE

HeadMatches(h, read) ==
  /\ h.sequence = Len(read)
  /\ h.hash = IF read = <<>> THEN Genesis ELSE Last(read).hash

Valid(s, h, read) == (\A i \in DOMAIN read : Links(s, read, i)) /\ HeadMatches(h, read)

\* How many records the loop looked at: all, or up to the first bad one.
Checked(s, read) ==
  LET bad == {i \in DOMAIN read : ~Links(s, read, i)}
  IN  IF bad = {} THEN Len(read) ELSE CHOOSE i \in bad : \A j \in bad : i <= j

\* ORDER BY sequence.
BySequence(rows) == {pair \in rows \X rows : pair[1].sequence < pair[2].sequence}

\* The records are read in order of their sequence and judged, and the operator
\* event is prepared; its id comes from the key of a verification and from the
\* request of a read.
ReadRecords(r) ==
  LET s == check[r].stream
      read == InOrder(Range(records[s]), BySequence(Range(records[s])))
      verify == check[r].op = "verify"
      valid == Valid(s, check[r].head, read)
  IN
  /\ pc[r] = "readRecords"
  /\ check' = [check EXCEPT ![r].read = read]
  /\ reply' = [reply EXCEPT ![r] = IF ~verify THEN "READ" ELSE IF valid THEN "VALID" ELSE "INVALID"]
  /\ event' = [event EXCEPT ![r] =
       [id |-> IF verify THEN <<"verify", check[r].key>> ELSE <<"read", r>>,
        stream |-> Operators, operator |-> TRUE, at |-> 0,
        data |-> IF verify THEN <<s, valid, Checked(s, read)>> ELSE <<s, Len(read)>>]]
  /\ Go(r, "prior")
  /\ UNCHANGED <<chain, locked, tampers>>

\* What someone with access to the database may make of a record of a stream: its
\* event id (another one, as they are unique), its data, or its data with a hash
\* that fits.
Changed(s, x) ==
  { [x EXCEPT !.id = <<"forged", tampers>>], [x EXCEPT !.data = Forged],
    [x EXCEPT !.data = Forged, !.hash = Hash(x.previous, s, x.sequence, Forged, x.at)] }

\* A record is changed or removed, or two are swapped, behind the back of the
\* service; the head of the stream is not.
Tamper(s) ==
  /\ tampers < MaxTampers /\ tampers' = tampers + 1
  /\ \E i \in DOMAIN records[s] :
       \/ \E x \in Changed(s, records[s][i]) : records' = [records EXCEPT ![s][i] = x]
       \/ records' = [records EXCEPT ![s] = RemoveAt(@, i)]
       \/ \E j \in DOMAIN records[s] \ {i} :
            records' = [records EXCEPT ![s][i].sequence = records[s][j].sequence,
                                       ![s][j].sequence = records[s][i].sequence]
  /\ UNCHANGED <<head, genuine, locked, pc, event, check, reply>>

-----------------------------------------------------------------------------
Init ==
  /\ records = [s \in Streams |-> <<>>]
  /\ genuine = [s \in Streams |-> <<>>]
  /\ head = [s \in Streams |-> NoHead]
  /\ locked = [s \in Streams |-> NoRequest]
  /\ pc = [r \in Request |-> "idle"]
  /\ event = [r \in Request |-> NoEvent]
  /\ check = [r \in Request |-> NoCheck]
  /\ reply = [r \in Request |-> "none"]
  /\ tampers = 0

Step(r) ==
  \/ FindPrior(r) \/ LockHead(r) \/ FindExisting(r) \/ Insert(r) \/ InsertConflict(r)
  \/ ResolveConflict(r) \/ ReadHead(r) \/ ReadRecords(r)

Receive(r) ==
  \/ \E e \in Event : ReceiveAppend(r, e)
  \/ \E s \in Stream, op \in {"verify", "read"}, key \in Key : ReceiveCheck(r, op, s, key)

\* All requests are answered.
Finished == (\A r \in Request : pc[r] = "done") /\ UNCHANGED vars

Next ==
  \/ \E r \in Request : Receive(r) \/ Step(r)
  \/ \E s \in Stream : Tamper(s)
  \/ Finished

Spec == Init /\ [][Next]_vars
-----------------------------------------------------------------------------
(* Properties *)

\* Types, and that a row lock is held by a request inside its transaction.
TypeOK ==
  /\ tampers \in 0..MaxTampers
  /\ \A s \in Streams :
       /\ head[s].sequence \in Nat
       /\ locked[s] \in Request \cup {NoRequest}
       /\ locked[s] # NoRequest =>
            pc[locked[s]] \in {"existing", "insert"} /\ event[locked[s]].stream = s

\* Whatever appends race, every stream is one unbroken chain from the genesis
\* hash to its head, verification of it would succeed, and no append dies of a
\* sequence number that another one took.
ChainIntact ==
  tampers = 0 =>
    /\ \A s \in Streams : Valid(s, head[s], records[s])
    /\ \A r \in Request : reply[r] # "INTERNAL_SERVER_ERROR"

\* An event is in the audit trail at most once, and whoever is told that it was
\* recorded finds exactly what it sent.
RecordedOnce ==
  tampers = 0 =>
    /\ \A s, t \in Streams : \A i \in DOMAIN records[s], j \in DOMAIN records[t] :
         records[s][i].id = records[t][j].id => s = t /\ i = j
    /\ \A r \in Request : reply[r] = "RECORDED" =>
         \E i \in StoredIn(event[r].stream, event[r].id) :
           records[event[r].stream][i].data = event[r].data

\* Records without their event ids, which no hash covers.
WithoutIds(read) == [i \in DOMAIN read |-> [read[i] EXCEPT !.id = <<>>]]

\* The records that were appended up to the head that r has read.
AppendedUpTo(r) == SubSeq(genuine[check[r].stream], 1, check[r].head.sequence)

\* A verification that reports a valid chain has read every record up to the
\* head, in order and as it was appended but for the event id: changes of data,
\* with a hash that fits or without, deletions (the last record included) and
\* swaps never pass.
ValidMeansGenuine ==
  \A r \in Request : reply[r] = "VALID" => WithoutIds(check[r].read) = WithoutIds(AppendedUpTo(r))

-----------------------------------------------------------------------------
(* Stronger than what the code does; the README tells how it fails *)

\* README: hash verification detects modification, deletion, or reordering; each
\* record hash covers the canonical identifiers.  So the event ids that a valid
\* chain was read with are the ones that were appended.
ValidMeansUnchanged == \A r \in Request : reply[r] = "VALID" => check[r].read = AppendedUpTo(r)

\* And a chain that nobody touched is not reported as broken.
InvalidMeansTampered == \A r \in Request : reply[r] = "INVALID" => tampers > 0
=============================================================================
