------------------------ MODULE AuditedIdentityProofs ------------------------
(***************************************************************************)
(* Proofs about the encrypted identities, the audit chain, and the two     *)
(* together, for any requests, users, commands and events.  Those about    *)
(* identities are for the Account service with an Admin service that may   *)
(* answer anything, I!Spec; the composition implements it.                 *)
(***************************************************************************)
EXTENDS AuditedIdentity, DataLemmas

-----------------------------------------------------------------------------
(* Rows of users *)

\* The columns of a row.
IsRow(row) ==
  row = [ciphertext |-> row.ciphertext, wrapped |-> row.wrapped, keyVersion |-> row.keyVersion,
         digest |-> row.digest, at |-> row.at]

\* A row that was encrypted can be decrypted.
LEMMA EncryptFacts ==
  ASSUME NEW u, NEW identity, NEW version \in I!KeyRing, NEW dek, NEW row,
         row = I!encrypt(u, identity, version, dek)
  PROVE  /\ IsRow(row) /\ ~I!IsLegacy(row) /\ row # I!NoUser /\ I!Decrypts(u, row)
         /\ I!Plaintext(row) = identity /\ row.digest = identity.email /\ row.keyVersion = version
  <1>1. <<"user-identity", u>> # <<>>
    OBVIOUS
  <1>2. /\ row.ciphertext = [key |-> dek, text |-> identity, aad |-> <<"user-identity", u>>]
        /\ row.wrapped = [key |-> version, text |-> dek, aad |-> <<"user-dek", u, version>>]
        /\ row.keyVersion = version /\ row.digest = identity.email /\ row.at = clock
        /\ IsRow(row)
    BY DEF I!encrypt, I!encryptAesGcm, I!identityAad, I!dekAad, IsRow
  <1>3. ~I!IsLegacy(row)
    <2>1. I!LegacyRow.ciphertext.aad = <<>>
      BY DEF I!LegacyRow, I!encryptAesGcm
    <2>2. row.ciphertext.aad = <<"user-identity", u>>
      BY <1>2
    <2> QED
      BY <1>1, <2>1, <2>2 DEF I!IsLegacy
  <1>4. I!NoUser.ciphertext = I!LegacyRow.ciphertext
    BY DEF I!NoUser, I!LegacyRow
  <1>5. I!Decrypts(u, row) /\ I!Plaintext(row) = identity
    BY <1>2 DEF I!Decrypts, I!Unwraps, I!Opens, I!dekAad, I!identityAad, I!Plaintext
  <1> QED
    BY <1>2, <1>3, <1>4, <1>5 DEF I!IsLegacy

\* The row that rewrap leaves, when it has read old.
Rewrapped(u, row, old) ==
  [row EXCEPT !.wrapped = I!rewrapDek(u, old).wrapped,
              !.keyVersion = I!rewrapDek(u, old).keyVersion, !.at = clock]

\* So can a row whose data key was sealed again.
LEMMA RewrapFacts ==
  ASSUME NEW u, NEW row, IsRow(row), ~I!IsLegacy(row), NEW old, NEW new,
         new = Rewrapped(u, row, old)
  PROVE  /\ IsRow(new) /\ ~I!IsLegacy(new) /\ new # I!NoUser /\ new.keyVersion = NewKey
         /\ new.ciphertext = row.ciphertext /\ new.digest = row.digest
         /\ old = row /\ I!Decrypts(u, row) => I!Decrypts(u, new)
  <1>1. /\ IsRow(new) /\ new.ciphertext = row.ciphertext /\ new.digest = row.digest
        /\ new.keyVersion = NewKey
        /\ new.wrapped = [key |-> NewKey, text |-> old.wrapped.text, aad |-> <<"user-dek", u, NewKey>>]
    BY DEF IsRow, Rewrapped, I!rewrapDek, I!encryptAesGcm, I!dekAad
  <1>2. ~I!IsLegacy(new)
    BY <1>1 DEF I!IsLegacy
  <1>3. new # I!NoUser
    BY <1>2 DEF I!NoUser, I!LegacyRow, I!IsLegacy
  <1>4. ASSUME old = row, I!Decrypts(u, row) PROVE I!Decrypts(u, new)
    <2>1. I!Opens(row.wrapped.text, row.ciphertext, I!identityAad(u))
      BY <1>4 DEF I!Decrypts
    <2>2. I!Opens(new.wrapped.text, new.ciphertext, I!identityAad(u))
      BY <1>1, <1>4, <2>1
    <2>3. I!Unwraps(u, new)
      BY <1>1 DEF I!Unwraps, I!KeyRing, I!Opens, I!dekAad
    <2> QED
      BY <2>2, <2>3 DEF I!Decrypts
  <1> QED
    BY <1>1, <1>2, <1>3, <1>4

-----------------------------------------------------------------------------
(***************************************************************************)
(* The inductive invariant of the identities                               *)
(***************************************************************************)

ILabels == {"idle", "find", "create", "backfill", "winner", "update", "audit", "get", "lookup", "done"}

\* Types; the command of a request is the one it was sent.
IdentityTypes ==
  /\ DOMAIN users = User /\ \A u \in User : IsRow(users[u])
  /\ identityPc \in [Caller -> ILabels] /\ active \in [Caller -> I!KeyRing]
  /\ DOMAIN cmd = Caller /\ DOMAIN seen = Caller /\ DOMAIN identityReply = Caller
  /\ deployed \in BOOLEAN /\ rewrap \in {"idle", "early", "late", "rotated"}
  /\ DOMAIN pending \subseteq User /\ faults \in Nat
  /\ \A r \in Caller : IF identityPc[r] = "idle" THEN cmd[r] = I!NoCommand ELSE cmd[r] \in Command

\* The rows: a user whose row was not encrypted between rewrap's read and write is
\* readable, and rewrap writes what it has read.  Only legacy users have rows that
\* are not encrypted, and an email belongs to one user.
RowsOK ==
  /\ \A u \in User \ raced :
       users[u] # I!NoUser => I!Decrypts(u, users[u]) /\ users[u].digest = I!Plaintext(users[u]).email
  /\ \A u \in User : users[u] # I!NoUser /\ I!IsLegacy(users[u]) => u \in Legacy
  /\ \A u \in DOMAIN pending : ~I!IsLegacy(users[u]) /\ (u \notin raced => pending[u] = users[u])
  /\ \A u, v \in User : u # v /\ users[u].digest # "null" => users[u].digest # users[v].digest

\* Keys: after the deployment no request encrypts with the old key, and a rewrap
\* that began after it has left the old key only where it has yet to write.
KeysOK ==
  /\ deployed => \A r \in Caller : identityPc[r] \in {"idle", "done"} \/ active[r] = NewKey
  /\ rewrap \in {"idle", "rotated"} => DOMAIN pending = {}
  /\ rewrap \in {"late", "rotated"} =>
       /\ deployed
       /\ \A u \in User \ DOMAIN pending : I!IsLegacy(users[u]) \/ users[u].keyVersion = NewKey

\* Another request may have replaced an identity of the user of r.
Excused(r, identity) ==
  \E q \in Caller \ {r} :
    /\ cmd[q].op \in {"update", "ensure"} /\ cmd[q].user = cmd[r].user
    /\ \/ cmd[q].op = "update" /\ I!normalizeIdentity(cmd[q].input) # identity
       \/ cmd[r].user \in Legacy

Keeps(r, identity) == I!Plaintext(users[cmd[r].user]) = identity \/ Excused(r, identity)

\* A request: what each label says of its command, its reply and the row that it
\* has seen.
RequestOK(r) ==
  /\ identityPc[r] \in {"find", "create", "backfill", "winner"} => cmd[r].op \in {"update", "ensure"}
  /\ identityPc[r] \in {"update", "audit"} => cmd[r].op = "update"
  /\ identityPc[r] = "get" => cmd[r].op = "get"
  /\ identityPc[r] = "lookup" => cmd[r].op = "lookup"
  /\ identityPc[r] # "done" => identityReply[r] = "none"
  /\ identityReply[r] = "AUDIT_UNAVAILABLE" => cmd[r].op = "update"
  /\ identityPc[r] = "backfill" => cmd[r].user \in Legacy
  /\ identityReply[r] = "IDENTITY_DECRYPTION_FAILED" => cmd[r].user \in raced
  /\ identityPc[r] = "winner" => users[cmd[r].user] # I!NoUser
  /\ identityPc[r] = "update" =>
       /\ users[cmd[r].user] # I!NoUser
       /\ cmd[r].user \in raced \/ I!Decrypts(cmd[r].user, seen[r])
       /\ Keeps(r, I!Plaintext(seen[r]))
  /\ (identityPc[r] = "audit"
      \/ (cmd[r].op = "update" /\ identityReply[r] \in {"OK", "AUDIT_UNAVAILABLE"})) =>
       /\ users[cmd[r].user] # I!NoUser
       /\ Keeps(r, I!normalizeIdentity(cmd[r].input))

IdentityInv == IdentityTypes /\ RowsOK /\ KeysOK /\ \A r \in Caller : RequestOK(r)

\* A request that encrypts or updates has a user.
LEMMA HasUser ==
  ASSUME IdentityTypes, NEW r \in Caller, identityPc[r] # "idle"
  PROVE  /\ cmd[r].op \in {"update", "ensure", "get", "lookup"}
         /\ cmd[r].op # "lookup" => cmd[r].user \in User
  BY CommandAssumption DEF IdentityTypes

\* No request but r moves.
OnlyRequest(r) ==
  /\ identityPc' \in [Caller -> ILabels] /\ active' \in [Caller -> I!KeyRing]
  /\ DOMAIN cmd' = Caller /\ DOMAIN seen' = Caller /\ DOMAIN identityReply' = Caller
  /\ \A q \in Caller \ {r} : /\ identityPc'[q] = identityPc[q] /\ cmd'[q] = cmd[q]
                             /\ active'[q] = active[q] /\ seen'[q] = seen[q]
                             /\ identityReply'[q] = identityReply[q]

\* A command stays once it is sent, so an excuse does.
LEMMA ExcusedStays ==
  ASSUME IdentityTypes, NEW r \in Caller, NEW identity, Excused(r, identity),
         \A q \in Caller : identityPc[q] # "idle" => cmd'[q] = cmd[q], identityPc[r] # "idle"
  PROVE  Excused(r, identity)'
  <1>1. PICK q \in Caller \ {r} :
          /\ cmd[q].op \in {"update", "ensure"} /\ cmd[q].user = cmd[r].user
          /\ \/ cmd[q].op = "update" /\ I!normalizeIdentity(cmd[q].input) # identity
             \/ cmd[r].user \in Legacy
    BY DEF Excused
  <1>2. identityPc[q] # "idle"
    BY <1>1 DEF IdentityTypes, I!NoCommand
  <1>3. cmd'[q] = cmd[q] /\ cmd'[r] = cmd[r]
    BY <1>2
  <1> QED
    BY <1>1, <1>3 DEF Excused

\* What a request that does not move keeps, when rows stay or are written by
\* others.
LEMMA OthersKept ==
  ASSUME IdentityInv, NEW q \in Caller,
         identityPc'[q] = identityPc[q], seen'[q] = seen[q], identityReply'[q] = identityReply[q],
         \A p \in Caller : identityPc[p] # "idle" => cmd'[p] = cmd[p], cmd'[q] = cmd[q],
         raced \subseteq raced', \A u \in User : users[u] # I!NoUser => users'[u] # I!NoUser,
         \A identity : users[cmd[q].user] # I!NoUser /\ cmd[q].user \in User
                         /\ identityPc[q] # "idle" /\ Keeps(q, identity) => Keeps(q, identity)'
  PROVE  RequestOK(q)'
  <1>1. identityPc[q] = "idle" => identityReply[q] = "none"
    BY DEF IdentityInv, RequestOK
  <1>2. cmd[q].op \in {"update", "ensure"} => identityPc[q] # "idle" /\ cmd[q].user \in User
    BY HasUser DEF IdentityInv, IdentityTypes, I!NoCommand
  <1>3. RequestOK(q)
    BY DEF IdentityInv
  <1> QED
    BY <1>1, <1>2, <1>3 DEF RequestOK

\* A step of r that writes no row.
LEMMA PlainStep ==
  ASSUME IdentityInv, NEW r \in Caller, OnlyRequest(r), faults' \in Nat,
         UNCHANGED <<users, deployed, rewrap, pending, raced>>,
         identityPc[r] # "idle" => cmd'[r] = cmd[r],
         identityPc'[r] # "idle", cmd'[r] \in Command,
         deployed => identityPc'[r] = "done" \/ active'[r] = NewKey,
         RequestOK(r)'
  PROVE  IdentityInv'
  <1>1. \A p \in Caller : identityPc[p] # "idle" => cmd'[p] = cmd[p]
    BY DEF OnlyRequest
  <1>2. IdentityTypes'
    BY DEF IdentityInv, IdentityTypes, OnlyRequest
  <1>3. RowsOK'
    BY DEF IdentityInv, RowsOK, I!IsLegacy, I!Decrypts, I!Unwraps, I!Plaintext
  <1>4. KeysOK'
    BY DEF IdentityInv, KeysOK, OnlyRequest, I!IsLegacy
  <1>5. ASSUME NEW q \in Caller \ {r} PROVE RequestOK(q)'
    <2>1. /\ identityPc'[q] = identityPc[q] /\ seen'[q] = seen[q]
          /\ identityReply'[q] = identityReply[q] /\ cmd'[q] = cmd[q]
      BY DEF OnlyRequest
    <2>2. ASSUME NEW identity, identityPc[q] # "idle", Keeps(q, identity) PROVE Keeps(q, identity)'
      BY <1>1, <2>1, <2>2, ExcusedStays DEF Keeps, I!Plaintext, IdentityInv
    <2> QED
      BY <1>1, <2>1, <2>2, OthersKept
  <1> QED
    BY <1>2, <1>3, <1>4, <1>5 DEF IdentityInv

\* A step of r that encrypts its user again.
LEMMA StoreStep ==
  ASSUME IdentityInv, NEW r \in Caller, OnlyRequest(r), faults' \in Nat,
         NEW identity, NEW use, I!Store(r, identity, use), UNCHANGED <<deployed, rewrap, pending, cmd, active>>,
         identityPc[r] \in {"create", "backfill", "update"},
         identity.email = "null" \/ ~I!EmailTaken(cmd[r].user, identity.email),
         identityPc[r] = "create" => users[cmd[r].user] = I!NoUser,
         identityPc[r] # "update" => identity = I!NoIdentity,
         identityPc[r] = "update" => identity = I!normalizeIdentity(cmd[r].input),
         \/ identityPc'[r] = "audit" /\ identityPc[r] = "update" /\ identityReply'[r] = "none"
         \/ identityPc'[r] = "update" /\ cmd[r].op = "update" /\ identityReply'[r] = "none"
         \/ identityPc'[r] = "done" /\ cmd[r].op = "ensure" /\ identityReply'[r] = "OK"
  PROVE  IdentityInv'
  <1> DEFINE u == cmd[r].user
             new == I!encrypt(u, identity, active[r], <<r, use>>)
  <1>1. u \in User /\ active[r] \in I!KeyRing /\ cmd[r].op \in {"update", "ensure"} /\ cmd[r] \in Command
    BY HasUser DEF IdentityInv, RequestOK, IdentityTypes
  <1>2. /\ users' = [users EXCEPT ![u] = new] /\ users'[u] = new /\ seen'[r] = new
        /\ raced' = IF u \in DOMAIN pending THEN raced \cup {u} ELSE raced
        /\ \A v \in User \ {u} : users'[v] = users[v]
    BY <1>1 DEF I!Store, I!See, IdentityInv, IdentityTypes
  <1>3. /\ IsRow(new) /\ ~I!IsLegacy(new) /\ new # I!NoUser /\ I!Decrypts(u, new)
        /\ I!Plaintext(new) = identity /\ new.digest = identity.email /\ new.keyVersion = active[r]
    BY <1>1, EncryptFacts
  <1> HIDE DEF new
  <1>4. IdentityTypes'
    BY <1>1, <1>2, <1>3 DEF IdentityInv, IdentityTypes, OnlyRequest, ILabels
  <1>5. RowsOK'
    <2>1. \A v \in User \ raced' : users'[v] # I!NoUser =>
            I!Decrypts(v, users'[v]) /\ users'[v].digest = I!Plaintext(users'[v]).email
      BY <1>2, <1>3 DEF IdentityInv, RowsOK
    <2>2. \A v \in User : users'[v] # I!NoUser /\ I!IsLegacy(users'[v]) => v \in Legacy
      BY <1>2, <1>3 DEF IdentityInv, RowsOK
    <2>3. \A v \in DOMAIN pending : ~I!IsLegacy(users'[v]) /\ (v \notin raced' => pending[v] = users'[v])
      BY <1>2, <1>3 DEF IdentityInv, RowsOK, IdentityTypes
    <2>4. \A v \in User \ {u} : identity.email # "null" => users[v].digest # identity.email
      BY DEF I!EmailTaken
    <2>5. ASSUME NEW v \in User, NEW w \in User, v # w, users'[v].digest # "null"
          PROVE  users'[v].digest # users'[w].digest
      <3>1. CASE v = u
        BY <1>2, <1>3, <2>4, <2>5, <3>1
      <3>2. CASE w = u
        BY <1>2, <1>3, <2>4, <2>5, <3>2
      <3>3. CASE v # u /\ w # u
        BY <1>2, <2>5, <3>3 DEF IdentityInv, RowsOK
      <3> QED
        BY <3>1, <3>2, <3>3
    <2> QED
      BY <2>1, <2>2, <2>3, <2>5 DEF RowsOK, I!IsLegacy, I!Decrypts, I!Unwraps, I!Plaintext
  <1>6. KeysOK'
    <2>1. deployed => active[r] = NewKey
      BY DEF IdentityInv, KeysOK
    <2>2. rewrap \in {"late", "rotated"} =>
            \A v \in User \ DOMAIN pending : I!IsLegacy(users'[v]) \/ users'[v].keyVersion = NewKey
      BY <1>2, <1>3, <2>1 DEF IdentityInv, KeysOK
    <2> QED
      BY <2>1, <2>2 DEF IdentityInv, KeysOK, OnlyRequest, I!IsLegacy
  <1>7. ASSUME NEW q \in Caller \ {r} PROVE RequestOK(q)'
    <2>1. /\ identityPc'[q] = identityPc[q] /\ seen'[q] = seen[q]
          /\ identityReply'[q] = identityReply[q] /\ cmd' = cmd
      BY DEF OnlyRequest
    <2>2. ASSUME NEW was, identityPc[q] # "idle", users[cmd[q].user] # I!NoUser, cmd[q].user \in User,
                 Keeps(q, was)
          PROVE  Keeps(q, was)'
      <3>1. CASE cmd[q].user # u
        <4>1. I!Plaintext(users'[cmd[q].user]) = I!Plaintext(users[cmd[q].user])
          BY <1>2, <2>2, <3>1
        <4> QED
          BY <2>1, <2>2, <4>1, ExcusedStays DEF Keeps, I!Plaintext, IdentityInv
      <3>2. CASE cmd[q].user = u /\ identity = was
        BY <1>2, <1>3, <2>1, <3>2 DEF Keeps, I!Plaintext
      <3>3. CASE cmd[q].user = u /\ identity # was
        <4>1. identityPc[r] # "create"
          BY <2>2, <3>3
        <4>2. identityPc[r] = "update" =>
                cmd[r].op = "update" /\ I!normalizeIdentity(cmd[r].input) # was
          BY <3>3 DEF IdentityInv, RequestOK
        <4>3. identityPc[r] = "backfill" => u \in Legacy
          BY DEF IdentityInv, RequestOK
        <4>4. Excused(q, was)
          BY <1>1, <3>3, <4>1, <4>2, <4>3 DEF Excused
        <4> QED
          BY <2>1, <2>2, <4>4, ExcusedStays DEF Keeps, IdentityInv
      <3> QED
        BY <3>1, <3>2, <3>3
    <2>3. \A v \in User : users[v] # I!NoUser => users'[v] # I!NoUser
      BY <1>2, <1>3
    <2>4. raced \subseteq raced'
      BY <1>2
    <2> QED
      BY <2>1, <2>2, <2>3, <2>4, OthersKept
  <1>8. RequestOK(r)'
    <2>1. /\ cmd' = cmd /\ users'[u] = seen'[r] /\ users'[u] # I!NoUser /\ I!Decrypts(u, seen'[r])
          /\ I!Plaintext(users'[u]) = identity
      BY <1>2, <1>3
    <2>2. I!Decrypts(cmd[r].user, seen[r])' /\ I!Plaintext(users[cmd[r].user])' = identity
          /\ I!Plaintext(seen[r])' = identity
      BY <2>1 DEF I!Decrypts, I!Unwraps, I!Plaintext, I!IsLegacy
    <2>3. identityPc[r] = "update" => cmd[r].op = "update"
      BY DEF IdentityInv, RequestOK
    <2>4. Keeps(r, I!Plaintext(seen[r]))'
      BY <2>2 DEF Keeps
    <2>5. identityPc'[r] = "audit" => Keeps(r, I!normalizeIdentity(cmd[r].input))'
      <3>1. ASSUME identityPc'[r] = "audit" PROVE I!normalizeIdentity(cmd[r].input)' = identity
        BY <2>1, <3>1 DEF I!normalizeIdentity
      <3> QED
        BY <2>2, <3>1 DEF Keeps
    <2>6. users[cmd[r].user]' # I!NoUser
      BY <2>1 DEF I!NoUser
    <2> QED
      BY <1>1, <2>1, <2>2, <2>3, <2>4, <2>5, <2>6 DEF RequestOK
  <1> QED
    BY <1>4, <1>5, <1>6, <1>7, <1>8 DEF IdentityInv

\* What a request sees and is answered when ensureUser has its row.
LEMMA AfterUserFacts ==
  ASSUME IdentityTypes, NEW r \in Caller, I!AfterUser(r), UNCHANGED cmd
  PROVE  /\ identityPc' \in [Caller -> ILabels] /\ DOMAIN identityReply' = Caller
         /\ \A q \in Caller \ {r} : identityPc'[q] = identityPc[q] /\ identityReply'[q] = identityReply[q]
         /\ IF cmd[r].op = "update" THEN identityPc'[r] = "update" /\ identityReply'[r] = identityReply[r]
            ELSE identityPc'[r] = "done" /\ identityReply'[r] = "OK"
  BY DEF I!AfterUser, I!Go, I!Answer, IdentityTypes, ILabels

\* The steps of ensureUser.
LEMMA EnsureStep ==
  ASSUME IdentityInv, NEW r \in Caller, I!FindUser(r) \/ I!Backfill(r) \/ I!CreateUser(r) \/ I!FindWinner(r)
  PROVE  IdentityInv'
  <1>0. /\ cmd' = cmd /\ active' = active /\ faults' = faults /\ UNCHANGED <<deployed, rewrap, pending>>
        /\ identityPc[r] \in {"find", "backfill", "create", "winner"}
    BY DEF I!FindUser, I!Backfill, I!CreateUser, I!FindWinner, I!rotation
  <1>1. /\ cmd[r].op \in {"update", "ensure"} /\ cmd[r].user \in User /\ cmd[r] \in Command
        /\ identityReply[r] = "none" /\ faults' \in Nat /\ (deployed => active[r] = NewKey)
    BY <1>0, HasUser DEF IdentityInv, RequestOK, IdentityTypes, KeysOK
  <1>2. CASE I!FindUser(r)
    <2> DEFINE row == users[cmd[r].user]
    <2>1. OnlyRequest(r) /\ UNCHANGED <<users, raced>> /\ seen'[r] = row
      BY <1>0, <1>2, AfterUserFacts
         DEF I!FindUser, I!See, I!Go, I!rotation, OnlyRequest, IdentityInv, IdentityTypes, ILabels
    <2>2. \/ row = I!NoUser /\ identityPc'[r] = "create" /\ identityReply'[r] = "none"
          \/ row # I!NoUser /\ I!IsLegacy(row) /\ identityPc'[r] = "backfill" /\ identityReply'[r] = "none"
          \/ /\ ~I!IsLegacy(row)
             /\ \/ identityPc'[r] = "update" /\ cmd[r].op = "update" /\ identityReply'[r] = "none"
                \/ identityPc'[r] = "done" /\ cmd[r].op = "ensure" /\ identityReply'[r] = "OK"
      BY <1>0, <1>1, <1>2, AfterUserFacts DEF I!FindUser, I!Go, IdentityInv, IdentityTypes
    <2>3. I!IsLegacy(row) /\ row # I!NoUser => cmd[r].user \in Legacy
      BY <1>1 DEF IdentityInv, RowsOK
    <2>4. ~I!IsLegacy(row) =>
            row # I!NoUser /\ (cmd[r].user \in raced \/ I!Decrypts(cmd[r].user, row))
      BY <1>1 DEF IdentityInv, RowsOK, I!IsLegacy, I!NoUser, I!LegacyRow
    <2>5. RequestOK(r)'
      <3>1. ~I!IsLegacy(row) => I!Decrypts(cmd[r].user, seen[r])' \/ cmd[r].user \in raced
        BY <1>0, <2>1, <2>4 DEF I!Decrypts, I!Unwraps, I!IsLegacy
      <3>2. Keeps(r, I!Plaintext(seen[r]))'
        BY <1>0, <2>1 DEF Keeps, I!Plaintext
      <3>3. (users[cmd[r].user] # I!NoUser)' <=> row # I!NoUser
        BY <1>0, <2>1 DEF I!NoUser
      <3> QED
        BY <1>0, <1>1, <2>1, <2>2, <2>3, <2>4, <3>1, <3>2, <3>3 DEF RequestOK
    <2> QED
      BY <1>0, <1>1, <2>1, <2>2, <2>5, PlainStep
  <1>3. CASE I!Backfill(r)
    <2>1. OnlyRequest(r) /\ I!Store(r, I!NoIdentity, "backfill") /\ identityPc[r] = "backfill"
      BY <1>0, <1>3, AfterUserFacts
         DEF I!Backfill, I!Store, I!See, OnlyRequest, IdentityInv, IdentityTypes
    <2>2. \/ identityPc'[r] = "update" /\ cmd[r].op = "update" /\ identityReply'[r] = "none"
          \/ identityPc'[r] = "done" /\ cmd[r].op = "ensure" /\ identityReply'[r] = "OK"
      BY <1>0, <1>1, <1>3, AfterUserFacts DEF I!Backfill, IdentityInv
    <2>3. I!NoIdentity.email = "null"
      BY DEF I!NoIdentity
    <2> QED
      BY <1>0, <1>1, <2>1, <2>2, <2>3, StoreStep
  <1>4. CASE I!CreateUser(r) /\ users[cmd[r].user] = I!NoUser
    <2>1. OnlyRequest(r) /\ I!Store(r, I!NoIdentity, "create") /\ identityPc[r] = "create"
      BY <1>0, <1>4, AfterUserFacts
         DEF I!CreateUser, I!Store, I!See, OnlyRequest, IdentityInv, IdentityTypes
    <2>2. \/ identityPc'[r] = "update" /\ cmd[r].op = "update" /\ identityReply'[r] = "none"
          \/ identityPc'[r] = "done" /\ cmd[r].op = "ensure" /\ identityReply'[r] = "OK"
      BY <1>0, <1>1, <1>4, AfterUserFacts DEF I!CreateUser, IdentityInv
    <2>3. I!NoIdentity.email = "null"
      BY DEF I!NoIdentity
    <2> QED
      BY <1>0, <1>1, <1>4, <2>1, <2>2, <2>3, StoreStep
  <1>5. CASE I!CreateUser(r) /\ users[cmd[r].user] # I!NoUser
    <2>1. /\ OnlyRequest(r) /\ UNCHANGED <<users, raced>>
          /\ identityPc'[r] = "winner" /\ identityReply'[r] = "none"
      BY <1>0, <1>1, <1>5 DEF I!CreateUser, I!Go, OnlyRequest, IdentityInv, IdentityTypes, ILabels
    <2>2. RequestOK(r)'
      <3>1. (users[cmd[r].user] # I!NoUser)'
        BY <1>0, <1>5, <2>1 DEF I!NoUser
      <3> QED
        BY <1>0, <1>1, <2>1, <3>1 DEF RequestOK
    <2> QED
      BY <1>0, <1>1, <2>1, <2>2, PlainStep
  <1>6. CASE I!FindWinner(r)
    <2> DEFINE row == users[cmd[r].user]
    <2>1. OnlyRequest(r) /\ UNCHANGED <<users, raced>> /\ seen'[r] = row
      BY <1>0, <1>6, AfterUserFacts
         DEF I!FindWinner, I!See, I!rotation, OnlyRequest, IdentityInv, IdentityTypes
    <2>2. \/ identityPc'[r] = "update" /\ cmd[r].op = "update" /\ identityReply'[r] = "none"
          \/ identityPc'[r] = "done" /\ cmd[r].op = "ensure" /\ identityReply'[r] = "OK"
      BY <1>0, <1>1, <1>6, AfterUserFacts DEF I!FindWinner, IdentityInv
    <2>3. row # I!NoUser /\ (cmd[r].user \in raced \/ I!Decrypts(cmd[r].user, row))
      BY <1>1, <1>6 DEF IdentityInv, RowsOK, RequestOK, I!FindWinner
    <2>4. RequestOK(r)'
      <3>1. I!Decrypts(cmd[r].user, seen[r])' \/ cmd[r].user \in raced
        BY <1>0, <2>1, <2>3 DEF I!Decrypts, I!Unwraps, I!IsLegacy
      <3>2. Keeps(r, I!Plaintext(seen[r]))'
        BY <1>0, <2>1 DEF Keeps, I!Plaintext
      <3>3. (users[cmd[r].user] # I!NoUser)'
        BY <1>0, <2>1, <2>3 DEF I!NoUser
      <3> QED
        BY <1>0, <1>1, <2>1, <2>2, <3>1, <3>2, <3>3 DEF RequestOK
    <2> QED
      BY <1>0, <1>1, <2>1, <2>2, <2>4, PlainStep
  <1> QED
    BY <1>2, <1>3, <1>4, <1>5, <1>6

\* The step of update that decrypts, compares and stores.
LEMMA UpdateStep ==
  ASSUME IdentityInv, NEW r \in Caller, I!Update(r)
  PROVE  IdentityInv'
  <1> DEFINE u == cmd[r].user
             identity == I!normalizeIdentity(cmd[r].input)
  <1>0. /\ cmd' = cmd /\ active' = active /\ faults' = faults /\ UNCHANGED <<deployed, rewrap, pending>>
        /\ identityPc[r] = "update"
    BY DEF I!Update
  <1>1. /\ cmd[r].op = "update" /\ u \in User /\ cmd[r] \in Command /\ identityReply[r] = "none"
        /\ faults' \in Nat /\ (deployed => active[r] = NewKey)
        /\ u \in raced \/ I!Decrypts(u, seen[r])
        /\ users[u] # I!NoUser /\ Keeps(r, I!Plaintext(seen[r]))
    BY <1>0, HasUser DEF IdentityInv, RequestOK, IdentityTypes, KeysOK
  <1>2. CASE I!Store(r, identity, "update") /\ I!Go(r, "audit") /\ UNCHANGED identityReply
             /\ ~I!EmailTaken(u, identity.email)
    <2>1. OnlyRequest(r) /\ identityPc'[r] = "audit" /\ identityReply'[r] = "none"
      BY <1>0, <1>1, <1>2 DEF I!Store, I!See, I!Go, OnlyRequest, IdentityInv, IdentityTypes, ILabels
    <2> QED
      BY <1>0, <1>1, <1>2, <2>1, StoreStep
  <1>3. CASE /\ I!Plaintext(seen[r]) = identity /\ I!Go(r, "audit")
             /\ UNCHANGED <<users, seen, raced, identityReply>>
    <2>1. OnlyRequest(r) /\ identityPc'[r] = "audit" /\ identityReply'[r] = "none"
      BY <1>0, <1>1, <1>3 DEF I!Go, OnlyRequest, IdentityInv, IdentityTypes, ILabels
    <2>2. Keeps(r, identity) /\ Keeps(r, I!normalizeIdentity(cmd[r].input))'
      BY <1>0, <1>1, <1>3 DEF Keeps, Excused, I!Plaintext, I!normalizeIdentity
    <2>3. (users[cmd[r].user] # I!NoUser)'
      BY <1>0, <1>1, <1>3 DEF I!NoUser
    <2>4. RequestOK(r)'
      BY <1>0, <1>1, <2>1, <2>2, <2>3 DEF RequestOK
    <2> QED
      BY <1>0, <1>1, <1>3, <2>1, <2>4, PlainStep
  <1>4. ASSUME NEW code \in {"IDENTITY_DECRYPTION_FAILED", "EMAIL_ALREADY_EXISTS"},
               I!Answer(r, code), UNCHANGED <<users, seen, raced>>,
               code = "IDENTITY_DECRYPTION_FAILED" => ~I!Decrypts(u, seen[r])
        PROVE  IdentityInv'
    <2>1. OnlyRequest(r) /\ identityPc'[r] = "done" /\ identityReply'[r] = code
      BY <1>0, <1>4 DEF I!Go, I!Answer, OnlyRequest, IdentityInv, IdentityTypes, ILabels
    <2>2. RequestOK(r)'
      BY <1>0, <1>1, <1>4, <2>1 DEF RequestOK
    <2> QED
      BY <1>0, <1>1, <1>4, <2>1, <2>2, PlainStep
  <1> QED
    BY <1>2, <1>3, <1>4 DEF I!Update

\* The other steps of a request.
LEMMA OtherSteps ==
  ASSUME IdentityInv, NEW r \in Caller,
         \/ \E c \in Command : I!Receive(r, c)
         \/ I!Get(r) \/ I!Lookup(r)
         \/ \E recorded \in BOOLEAN : I!Audited(r, recorded) /\ (UNCHANGED faults \/ I!Fault)
  PROVE  IdentityInv'
  <1>0. /\ UNCHANGED <<users, deployed, rewrap, pending, raced>> /\ faults' \in Nat
    BY DEF I!Receive, I!Get, I!Lookup, I!Audited, I!Fault, I!rotation, IdentityInv, IdentityTypes
  <1>1. ASSUME NEW c \in Command, I!Receive(r, c) PROVE IdentityInv'
    <2>1. c.op \in {"update", "ensure", "get", "lookup"}
      BY CommandAssumption
    <2>2. /\ OnlyRequest(r) /\ identityPc[r] = "idle" /\ cmd'[r] = c
          /\ identityPc'[r] = IF c.op \in {"update", "ensure"} THEN "find" ELSE c.op
          /\ identityReply'[r] = "none" /\ (deployed => active'[r] = NewKey)
      BY <1>1, <2>1 DEF I!Receive, I!Go, OnlyRequest, IdentityInv, IdentityTypes, RequestOK, ILabels
    <2>3. RequestOK(r)'
      BY <2>1, <2>2 DEF RequestOK
    <2> QED
      BY <1>0, <2>1, <2>2, <2>3, PlainStep
  <1>2. CASE I!Get(r)
    <2> DEFINE u == cmd[r].user
    <2>1. /\ OnlyRequest(r) /\ identityPc'[r] = "done" /\ cmd' = cmd /\ identityPc[r] = "get"
          /\ identityReply'[r] \in {"USER_IDENTITY_NOT_FOUND", "OK", "IDENTITY_DECRYPTION_FAILED"}
          /\ identityReply'[r] = "IDENTITY_DECRYPTION_FAILED" => users[u] # I!NoUser /\ ~I!Decrypts(u, users[u])
      BY <1>2 DEF I!Get, I!Go, I!Answer, OnlyRequest, IdentityInv, IdentityTypes, ILabels
    <2>2. cmd[r].op = "get" /\ u \in User /\ cmd[r] \in Command
      BY <2>1, HasUser DEF IdentityInv, RequestOK, IdentityTypes
    <2>3. RequestOK(r)'
      BY <1>0, <2>1, <2>2 DEF RequestOK, IdentityInv, RowsOK
    <2> QED
      BY <1>0, <2>1, <2>2, <2>3, PlainStep
  <1>3. CASE I!Lookup(r)
    <2>1. /\ OnlyRequest(r) /\ identityPc'[r] = "done" /\ cmd' = cmd /\ identityPc[r] = "lookup"
          /\ identityReply'[r] \in {"USER_IDENTITY_NOT_FOUND", "OK"}
      BY <1>3 DEF I!Lookup, I!Go, I!See, I!Answer, OnlyRequest, IdentityInv, IdentityTypes, ILabels
    <2>2. cmd[r].op = "lookup" /\ cmd[r] \in Command
      BY <2>1 DEF IdentityInv, RequestOK, IdentityTypes
    <2>3. RequestOK(r)'
      BY <2>1, <2>2 DEF RequestOK
    <2> QED
      BY <1>0, <2>1, <2>2, <2>3, PlainStep
  <1>4. ASSUME NEW recorded \in BOOLEAN, I!Audited(r, recorded) PROVE IdentityInv'
    <2>1. /\ OnlyRequest(r) /\ identityPc'[r] = "done" /\ cmd' = cmd /\ identityPc[r] = "audit"
          /\ identityReply'[r] \in {"OK", "AUDIT_UNAVAILABLE"}
      BY <1>4 DEF I!Audited, I!Go, I!Answer, OnlyRequest, IdentityInv, IdentityTypes, ILabels
    <2>2. /\ cmd[r].op = "update" /\ cmd[r] \in Command /\ users[cmd[r].user] # I!NoUser
          /\ Keeps(r, I!normalizeIdentity(cmd[r].input))
      BY <2>1 DEF IdentityInv, RequestOK, IdentityTypes
    <2>3. Keeps(r, I!normalizeIdentity(cmd[r].input))' /\ (users[cmd[r].user] # I!NoUser)'
      BY <1>0, <2>1, <2>2 DEF Keeps, Excused, I!Plaintext, I!normalizeIdentity, I!NoUser
    <2>4. RequestOK(r)'
      BY <2>1, <2>2, <2>3 DEF RequestOK
    <2> QED
      BY <1>0, <2>1, <2>2, <2>4, PlainStep
  <1> QED
    BY <1>1, <1>2, <1>3, <1>4

\* The steps of the rotation.
LEMMA RotateStep ==
  ASSUME IdentityInv, I!Rotate
  PROVE  IdentityInv'
  <1>0. UNCHANGED <<identityPc, cmd, active, seen, identityReply, raced>> /\ faults' \in Nat
    <2>0. faults \in Nat /\ (I!Fault => faults' = faults + 1)
      BY DEF IdentityInv, IdentityTypes, I!Fault
    <2>1. CASE I!Deploy
      BY <2>0, <2>1 DEF I!Deploy, I!rotation
    <2>2. CASE I!StartRewrap
      BY <2>0, <2>2 DEF I!StartRewrap
    <2>3. CASE I!RewrapCrash
      BY <2>0, <2>3 DEF I!RewrapCrash
    <2>4. CASE \E u \in User : I!RewrapUser(u)
      BY <2>0, <2>4 DEF I!RewrapUser
    <2> QED
      BY <2>1, <2>2, <2>3, <2>4 DEF I!Rotate
  <1>1. ASSUME UNCHANGED users PROVE \A r \in Caller : RequestOK(r)'
    <2> TAKE r \in Caller
    <2>1. ASSUME NEW identity, Keeps(r, identity) PROVE Keeps(r, identity)'
      BY <1>0, <1>1, <2>1 DEF Keeps, Excused, I!Plaintext
    <2> QED
      BY <1>0, <1>1, <2>1, OthersKept
  <1>2. CASE I!Deploy
    <2>1. UNCHANGED <<users, rewrap, pending>> /\ deployed' = TRUE /\ ~deployed
          /\ \A r \in Caller : identityPc[r] \in {"idle", "done"} \/ active[r] = NewKey
      BY <1>2 DEF I!Deploy, I!rotation
    <2>2. IdentityTypes'
      BY <1>0, <2>1 DEF IdentityInv, IdentityTypes
    <2>3. RowsOK'
      BY <1>0, <2>1 DEF IdentityInv, RowsOK, I!IsLegacy, I!Decrypts, I!Unwraps, I!Plaintext
    <2>4. KeysOK'
      BY <1>0, <2>1 DEF IdentityInv, KeysOK, I!IsLegacy
    <2> QED
      BY <1>1, <2>1, <2>2, <2>3, <2>4 DEF IdentityInv
  <1>3. CASE I!RewrapCrash
    <2>1. UNCHANGED <<users, deployed>> /\ rewrap' = "idle" /\ DOMAIN pending' = {}
      BY <1>3 DEF I!RewrapCrash
    <2>2. IdentityTypes'
      BY <1>0, <2>1 DEF IdentityInv, IdentityTypes
    <2>3. RowsOK'
      BY <1>0, <2>1 DEF IdentityInv, RowsOK, I!IsLegacy, I!Decrypts, I!Unwraps, I!Plaintext
    <2>4. KeysOK'
      BY <1>0, <2>1 DEF IdentityInv, KeysOK, I!IsLegacy
    <2> QED
      BY <1>1, <2>1, <2>2, <2>3, <2>4 DEF IdentityInv
  <1>4. CASE I!StartRewrap
    <2> DEFINE Old == {u \in User : ~I!IsLegacy(users[u]) /\ users[u].keyVersion # NewKey}
    <2>1. /\ UNCHANGED <<users, deployed>> /\ rewrap = "idle"
          /\ pending' = [u \in Old |-> users[u]] /\ DOMAIN pending' = Old
      BY <1>4 DEF I!StartRewrap
    <2>2. /\ Old # {} => rewrap' = IF deployed THEN "late" ELSE "early"
          /\ Old = {} => rewrap' = IF deployed THEN "rotated" ELSE "idle"
      BY <1>4 DEF I!StartRewrap
    <2>3. IdentityTypes'
      BY <1>0, <2>1, <2>2 DEF IdentityInv, IdentityTypes
    <2>4. RowsOK'
      BY <1>0, <2>1 DEF IdentityInv, RowsOK, I!IsLegacy, I!Decrypts, I!Unwraps, I!Plaintext
    <2>5. KeysOK'
      BY <1>0, <2>1, <2>2 DEF IdentityInv, KeysOK, I!IsLegacy
    <2> QED
      BY <1>1, <2>1, <2>3, <2>4, <2>5 DEF IdentityInv
  <1>5. ASSUME NEW u \in User, I!RewrapUser(u) PROVE IdentityInv'
    <2>0. u \in DOMAIN pending /\ rewrap \in {"early", "late"} /\ deployed' = deployed
      BY <1>5 DEF I!RewrapUser
    <2>1. CASE ~I!Unwraps(u, pending[u])
      <3>1. UNCHANGED users /\ rewrap' = "idle" /\ DOMAIN pending' = {}
        BY <1>5, <2>1 DEF I!RewrapUser
      <3>2. IdentityTypes'
        BY <1>0, <2>0, <3>1 DEF IdentityInv, IdentityTypes
      <3>3. RowsOK'
        BY <1>0, <3>1 DEF IdentityInv, RowsOK, I!IsLegacy, I!Decrypts, I!Unwraps, I!Plaintext
      <3>4. KeysOK'
        BY <1>0, <2>0, <3>1 DEF IdentityInv, KeysOK, I!IsLegacy
      <3> QED
        BY <1>1, <3>1, <3>2, <3>3, <3>4 DEF IdentityInv
    <2>2. CASE I!Unwraps(u, pending[u])
      <3>1. PICK row, new : row = users[u] /\ new = users'[u]
        OBVIOUS
      <3>2. /\ new = Rewrapped(u, row, pending[u])
            /\ \A v \in User \ {u} : users'[v] = users[v]
            /\ DOMAIN users' = User
        BY <1>5, <2>2, <3>1 DEF I!RewrapUser, IdentityInv, IdentityTypes, Rewrapped
      <3>3. /\ DOMAIN pending' = DOMAIN pending \ {u} /\ \A v \in DOMAIN pending' : pending'[v] = pending[v]
            /\ rewrap' = IF DOMAIN pending' # {} THEN rewrap
                         ELSE IF rewrap = "late" THEN "rotated" ELSE "idle"
        BY <1>5, <2>2 DEF I!RewrapUser
      <3>4. IsRow(row) /\ ~I!IsLegacy(row) /\ (u \notin raced => pending[u] = row)
        BY <2>0, <3>1 DEF IdentityInv, IdentityTypes, RowsOK
      <3>5. /\ IsRow(new) /\ ~I!IsLegacy(new) /\ new # I!NoUser /\ new.keyVersion = NewKey
            /\ new.ciphertext = row.ciphertext /\ new.digest = row.digest
            /\ pending[u] = row /\ I!Decrypts(u, row) => I!Decrypts(u, new)
        <4>1. PICK old : old = pending[u]
          OBVIOUS
        <4>2. new = Rewrapped(u, row, old) /\ IsRow(row) /\ ~I!IsLegacy(row)
          BY <3>2, <3>4, <4>1
        <4>3. /\ IsRow(new) /\ ~I!IsLegacy(new) /\ new # I!NoUser /\ new.keyVersion = NewKey
              /\ new.ciphertext = row.ciphertext /\ new.digest = row.digest
              /\ old = row /\ I!Decrypts(u, row) => I!Decrypts(u, new)
          BY <4>2, RewrapFacts
        <4> QED
          BY <4>1, <4>3
      <3>6. IdentityTypes'
        <4>1. \A v \in User : IsRow(users'[v])
          BY <3>1, <3>2, <3>5 DEF IdentityInv, IdentityTypes
        <4> QED
          BY <1>0, <2>0, <3>2, <3>3, <4>1 DEF IdentityInv, IdentityTypes, IsRow
      <3>7. RowsOK'
        <4>0. row # I!NoUser
          BY <3>4 DEF I!IsLegacy, I!NoUser, I!LegacyRow
        <4>1. \A v \in User \ raced : users'[v] # I!NoUser =>
                I!Decrypts(v, users'[v]) /\ users'[v].digest = I!Plaintext(users'[v]).email
          <5> SUFFICES ASSUME NEW v \in User \ raced, users'[v] # I!NoUser
                       PROVE  I!Decrypts(v, users'[v]) /\ users'[v].digest = I!Plaintext(users'[v]).email
            OBVIOUS
          <5>1. CASE v # u
            BY <3>2, <5>1 DEF IdentityInv, RowsOK
          <5>2. CASE v = u
            <6>1. I!Decrypts(u, row) /\ row.digest = I!Plaintext(row).email /\ pending[u] = row
              BY <3>1, <3>4, <4>0, <5>2 DEF IdentityInv, RowsOK
            <6>2. I!Decrypts(u, new) /\ new.digest = I!Plaintext(new).email
              BY <3>5, <6>1 DEF I!Plaintext
            <6> QED
              BY <3>1, <5>2, <6>2
          <5> QED
            BY <5>1, <5>2
        <4>2. \A v \in User : users'[v] # I!NoUser /\ I!IsLegacy(users'[v]) => v \in Legacy
          BY <3>1, <3>2, <3>5 DEF IdentityInv, RowsOK
        <4>3. \A v \in DOMAIN pending' :
                ~I!IsLegacy(users'[v]) /\ (v \notin raced => pending'[v] = users'[v])
          BY <3>1, <3>2, <3>3 DEF IdentityInv, IdentityTypes, RowsOK
        <4>4. \A v \in User : users'[v].digest = users[v].digest
          BY <3>1, <3>2, <3>5
        <4> QED
          BY <1>0, <4>1, <4>2, <4>3, <4>4
             DEF IdentityInv, RowsOK, I!IsLegacy, I!Decrypts, I!Unwraps, I!Plaintext
      <3>8. KeysOK'
        <4>1. rewrap = "late" => deployed /\ \A v \in User \ DOMAIN pending' :
                I!IsLegacy(users'[v]) \/ users'[v].keyVersion = NewKey
          BY <3>1, <3>2, <3>3, <3>5 DEF IdentityInv, KeysOK
        <4> QED
          BY <1>0, <2>0, <3>3, <4>1 DEF IdentityInv, KeysOK, I!IsLegacy
      <3>9. ASSUME NEW r \in Caller PROVE RequestOK(r)'
        <4>1. \A v \in User : /\ I!Plaintext(users'[v]) = I!Plaintext(users[v])
                              /\ users[v] # I!NoUser => users'[v] # I!NoUser
          BY <3>1, <3>2, <3>5 DEF I!Plaintext
        <4>2. ASSUME NEW identity, cmd[r].user \in User, Keeps(r, identity) PROVE Keeps(r, identity)'
          BY <1>0, <4>1, <4>2 DEF Keeps, Excused, I!Plaintext
        <4> QED
          BY <1>0, <4>1, <4>2, OthersKept
      <3> QED
        BY <3>6, <3>7, <3>8, <3>9 DEF IdentityInv
    <2> QED
      BY <2>1, <2>2
  <1> QED
    BY <1>2, <1>3, <1>4, <1>5 DEF I!Rotate

\* The invariant holds of the Account service, whatever the Admin service answers.
LEMMA IdentityInductive == I!Spec => []IdentityInv
  <1>1. I!Init => IdentityInv
    <2> SUFFICES ASSUME I!Init PROVE IdentityInv
      OBVIOUS
    <2>1. IsRow(I!LegacyRow) /\ IsRow(I!NoUser) /\ I!LegacyRow.digest = "null" /\ I!NoUser.digest = "null"
      <3>1. PICK a, b, k, row, none :
              /\ a = I!encryptAesGcm(<<>>, I!NoIdentity, <<>>) /\ b = I!encryptAesGcm("", <<>>, <<>>)
              /\ k = -1 /\ row = I!LegacyRow /\ none = I!NoUser
        OBVIOUS
      <3>2. row = [ciphertext |-> a, wrapped |-> b, keyVersion |-> "", digest |-> "null", at |-> 0]
        BY <3>1 DEF I!LegacyRow
      <3>3. none = [row EXCEPT !.at = k]
        BY <3>1 DEF I!NoUser
      <3>4. none = [ciphertext |-> a, wrapped |-> b, keyVersion |-> "", digest |-> "null", at |-> k]
        BY <3>2, <3>3
      <3>5. IsRow(row) /\ IsRow(none) /\ row.digest = "null" /\ none.digest = "null"
        BY <3>2, <3>4 DEF IsRow
      <3> QED
        BY <3>1, <3>5
    <2>2. I!IsLegacy(I!LegacyRow) /\ I!LegacyRow.digest = I!Plaintext(I!LegacyRow).email
      BY DEF I!IsLegacy, I!LegacyRow, I!Plaintext, I!NoIdentity, I!encryptAesGcm
    <2>3. \A u \in User : users[u] = IF u \in Legacy THEN I!LegacyRow ELSE I!NoUser
      BY DEF I!Init
    <2>4. IdentityTypes
      <3>1. DOMAIN users = User /\ \A u \in User : IsRow(users[u])
        BY <2>1, <2>3 DEF I!Init
      <3>2. identityPc \in [Caller -> ILabels] /\ active \in [Caller -> I!KeyRing]
        BY DEF I!Init, ILabels, I!KeyRing
      <3>3. DOMAIN pending = {} /\ faults \in Nat
        BY DEF I!Init
      <3>4. /\ DOMAIN cmd = Caller /\ DOMAIN seen = Caller /\ DOMAIN identityReply = Caller
            /\ deployed = FALSE /\ rewrap = "idle"
            /\ \A r \in Caller : identityPc[r] = "idle" /\ cmd[r] = I!NoCommand
        BY DEF I!Init
      <3> QED
        BY <3>1, <3>2, <3>3, <3>4 DEF IdentityTypes
    <2>5. RowsOK
      BY <2>1, <2>2, <2>3 DEF I!Init, RowsOK, I!Decrypts
    <2>6. KeysOK
      BY DEF I!Init, KeysOK
    <2>7. \A r \in Caller : RequestOK(r)
      BY DEF I!Init, RequestOK, I!NoCommand
    <2> QED
      BY <2>4, <2>5, <2>6, <2>7 DEF IdentityInv
  <1>2. IdentityInv /\ [I!Next]_(I!vars) => IdentityInv'
    <2> SUFFICES ASSUME IdentityInv, [I!Next]_(I!vars) PROVE IdentityInv'
      OBVIOUS
    <2>1. CASE UNCHANGED <<users, deployed, identityPc, cmd, active, seen, identityReply, rewrap,
                           pending, raced, faults>>
      <3>1. IdentityTypes' /\ KeysOK'
        BY <2>1 DEF IdentityInv, IdentityTypes, KeysOK, I!IsLegacy
      <3>2. RowsOK'
        BY <2>1 DEF IdentityInv, RowsOK, I!IsLegacy, I!Decrypts, I!Unwraps, I!Plaintext
      <3>3. ASSUME NEW r \in Caller PROVE RequestOK(r)'
        <4>1. ASSUME NEW identity, Keeps(r, identity) PROVE Keeps(r, identity)'
          BY <2>1, <4>1 DEF Keeps, Excused, I!Plaintext
        <4> QED
          BY <2>1, <4>1, OthersKept
      <3> QED
        BY <3>1, <3>2, <3>3 DEF IdentityInv
    <2>2. I!Tick \/ UNCHANGED I!vars =>
            UNCHANGED <<users, deployed, identityPc, cmd, active, seen, identityReply, rewrap,
                        pending, raced, faults>>
      BY DEF I!Tick, I!vars, I!rotation
    <2> QED
      BY <2>1, <2>2, EnsureStep, UpdateStep, OtherSteps, RotateStep DEF I!Next, I!Step
  <1> QED
    BY <1>1, <1>2, PTL DEF I!Spec

\* Joined with the audit chain, the Account service behaves as it does with an
\* Admin service that may answer anything and calls that may be lost.
THEOREM ImplementsIdentity == AuditedSpec => I!Spec
  <1>1. AuditedInit => I!Init
    BY DEF AuditedInit
  <1>2. [AuditedNext]_<<vars, identityVars>> => [I!Next]_(I!vars)
    <2> SUFFICES ASSUME [AuditedNext]_<<vars, identityVars>> PROVE [I!Next]_(I!vars)
      OBVIOUS
    <2>1. UNCHANGED identityVars => UNCHANGED I!vars
      BY DEF identityVars, I!vars, I!rotation
    <2>2. ASSUME NEW r \in Caller, Answered(r) \/ TimesOut(r) PROVE I!Next
      <3>1. \E recorded \in BOOLEAN : I!Audited(r, recorded) /\ (UNCHANGED faults \/ I!Fault)
        BY <2>2 DEF Answered, TimesOut
      <3> QED
        BY <3>1 DEF I!Next
    <2> QED
      BY <2>1, <2>2 DEF AuditedNext, I!Next, Arrive, AllDone
  <1> QED
    BY <1>1, <1>2, PTL DEF AuditedSpec, I!Spec

\* Whatever updates, backfills and rewraps interleave, a stored identity can be
\* decrypted with the key its row names and is found by its email, unless it was
\* encrypted between rewrap's read of the row and its write.
THEOREM IdentitiesReadableTheorem == AuditedSpec => []IdentitiesReadable
  <1>1. IdentityInv => IdentitiesReadable
    BY DEF IdentityInv, RowsOK, RequestOK, IdentitiesReadable, I!IdentitiesReadable
  <1> QED
    BY <1>1, ImplementsIdentity, IdentityInductive, PTL

\* Once a rewrap that began after the deployment has finished, no row needs the
\* old key.
THEOREM RotationCompleteTheorem == AuditedSpec => []RotationComplete
  <1>1. IdentityInv => RotationComplete
    BY DEF IdentityInv, KeysOK, RotationComplete, I!RotationComplete
  <1> QED
    BY <1>1, ImplementsIdentity, IdentityInductive, PTL

\* An identity whose update was acknowledged is stored until another update of the
\* user; a backfill may undo it only for a legacy user.
THEOREM UpdatesKeptTheorem == AuditedSpec => []UpdatesKept
  <1>1. IdentityInv => UpdatesKept
    BY DEF IdentityInv, RequestOK, Keeps, Excused, UpdatesKept, I!UpdatesKept
  <1> QED
    BY <1>1, ImplementsIdentity, IdentityInductive, PTL

-----------------------------------------------------------------------------
(***************************************************************************)
(* The audit chain                                                         *)
(***************************************************************************)

ALabels == {"idle", "prior", "lock", "existing", "insert", "conflict", "readHead", "readRecords", "done"}

IsSeq(x) == x \in Seq(Range(x))
IsRecord(x) ==
  x = [id |-> x.id, sequence |-> x.sequence, data |-> x.data, at |-> x.at,
       previous |-> x.previous, hash |-> x.hash]
IsHead(h) == h = [exists |-> h.exists, sequence |-> h.sequence, hash |-> h.hash]
IsCheck(c) ==
  c = [stream |-> c.stream, base |-> c.base, head |-> c.head, read |-> c.read, op |-> c.op, key |-> c.key]

\* The hash after the first n records.
HashAt(g, n) == IF n = 0 THEN Genesis ELSE g[n].hash

AuditTypes ==
  /\ DOMAIN records = Streams /\ DOMAIN genuine = Streams /\ DOMAIN head = Streams
  /\ locked \in [Streams -> Request \cup {NoRequest}] /\ pc \in [Request -> ALabels]
  /\ DOMAIN event = Request /\ DOMAIN check = Request /\ DOMAIN reply = Request /\ tampers \in Nat
  /\ \A s \in Streams : IsHead(head[s]) /\ IsSeq(genuine[s]) /\ IsSeq(records[s])
  /\ \A r \in Request : event[r].stream \in Streams /\ check[r].stream \in Streams /\ IsCheck(check[r])

\* What was appended to a stream is one chain, and the head is its end.
GenuineOK(s, g, h) ==
  /\ \A i \in 1..Len(g) :
       /\ IsRecord(g[i]) /\ g[i].sequence = i /\ g[i].previous = HashAt(g, i - 1)
       /\ g[i].hash = Hash(HashAt(g, i - 1), s, i, g[i].data, g[i].at)
       /\ IsSeq(g[i].hash) /\ Len(g[i].hash) = i
  /\ h.sequence = Len(g) /\ h.hash = HashAt(g, Len(g))

\* A record of the table: its hashes are hashes, whoever made it.
IsStored(x) == IsRecord(x) /\ x.sequence \in Nat /\ IsSeq(x.previous) /\ IsSeq(x.hash)

\* Whatever was done to the stored records left no two of a stream with one sequence
\* number, and records that nobody has touched are what was appended.
RecordsOK(s) ==
  /\ \A i \in DOMAIN records[s] : IsStored(records[s][i])
  /\ \A i, j \in DOMAIN records[s] : records[s][i].sequence = records[s][j].sequence => i = j
  /\ tampers = 0 => records[s] = genuine[s]

\* An append that is past the lock holds it, and has read the head as it is.
LocksOK ==
  \A r \in Request : pc[r] \in {"existing", "insert"} =>
    locked[event[r].stream] = r /\ check[r].base = head[event[r].stream]

\* No event is stored twice.
IdsOnce ==
  tampers = 0 =>
    \A s, t \in Streams : \A i \in DOMAIN records[s], j \in DOMAIN records[t] :
      records[s][i].id = records[t][j].id => s = t /\ i = j

\* Records that are the first n of a chain, but for their ids.
Agrees(g, n, read) ==
  /\ DOMAIN read = 1..n
  /\ \A i \in 1..n : /\ IsRecord(read[i]) /\ IsRecord(g[i]) /\ read[i].sequence = g[i].sequence
                      /\ read[i].data = g[i].data /\ read[i].at = g[i].at
                      /\ read[i].previous = g[i].previous /\ read[i].hash = g[i].hash

\* The head that a verification has read was one of the heads of the stream, and
\* what it has found valid is what was appended up to it.
ReadOK(r) ==
  LET g == genuine[check[r].stream]
      n == check[r].head.sequence
  IN
  /\ n \in 0..Len(g) /\ check[r].head.hash = HashAt(g, n)
  /\ reply[r] = "VALID" => Agrees(g, n, check[r].read)

Held(s, id, data) == \E i \in StoredIn(s, id) : records[s][i].data = data

\* What a request has been told of its event.
ToldOK(r) ==
  tampers = 0 =>
    /\ pc[r] = "conflict" \/ reply[r] = "AUDIT_EVENT_ID_REUSED" => Stored(event[r].id)
    /\ reply[r] # "INTERNAL_SERVER_ERROR"
    /\ reply[r] = "RECORDED" => Held(event[r].stream, event[r].id, event[r].data)

ReplyOK(r) ==
  (pc[r] \in {"idle", "readHead", "readRecords"} => reply[r] = "none") /\ ReadOK(r) /\ ToldOK(r)

AuditInv ==
  /\ AuditTypes /\ LocksOK /\ IdsOnce
  /\ \A s \in Streams : GenuineOK(s, genuine[s], head[s]) /\ RecordsOK(s)
  /\ \A r \in Request : ReplyOK(r)

\* The empty hash is a sequence.
LEMMA GenesisSeq == IsSeq(Genesis) /\ Len(Genesis) = 0
  BY DEF IsSeq, Genesis

\* A hash tells what it covers.
LEMMA HashInjects ==
  ASSUME NEW p, IsSeq(p), NEW q, IsSeq(q), NEW s, NEW i, NEW d, NEW e, NEW a, NEW b,
         Hash(p, s, i, d, a) = Hash(q, s, i, e, b)
  PROVE  p = q /\ d = e /\ a = b
  <1>1. PICK x, y : x = <<s, i, d, a>> /\ y = <<s, i, e, b>>
    OBVIOUS
  <1>2. Append(p, x) = Append(q, y)
    BY <1>1 DEF Hash
  <1>3. p = q /\ x = y
    BY <1>2, AppendInjects DEF IsSeq
  <1> QED
    BY <1>1, <1>3

\* Records as they are read: in any order, made by anybody.
AreRecords(read) ==
  /\ DOMAIN read = 1..Len(read) /\ Len(read) \in Nat
  /\ \A i \in 1..Len(read) : IsRecord(read[i]) /\ IsSeq(read[i].hash)

\* What verify calls valid is what was appended up to the head that it has read, ids
\* aside: by the last place where the hashes differ.  It is not the last record,
\* whose hash is in the head, and the hash of the next one tells of it.
LEMMA ValidGenuine ==
  ASSUME NEW s, NEW g, IsSeq(g), NEW top, GenuineOK(s, g, top), NEW read, AreRecords(read),
         NEW h, h.sequence \in 0..Len(g), h.hash = HashAt(g, h.sequence), Valid(s, h, read)
  PROVE  Agrees(g, h.sequence, read)
  <1> DEFINE m == Len(read)
  <1>0. /\ m \in Nat /\ DOMAIN read = 1..m
        /\ \A i \in 1..m : IsRecord(read[i]) /\ IsSeq(read[i].hash)
    BY DEF AreRecords
  <1>1. /\ h.sequence = m /\ Len(g) \in Nat /\ m <= Len(g)
        /\ m # 0 => h.hash = read[m].hash
    <2>1. Len(g) \in Nat
      BY DEF IsSeq
    <2>2. m # 0 => read # <<>>
      OBVIOUS
    <2> QED
      BY <1>0, <2>1, <2>2 DEF Valid, HeadMatches, Last
  <1>2. \A i \in 1..m : /\ i \in 1..Len(g) /\ i - 1 \in Nat /\ (i - 1 # 0 => i - 1 \in 1..m)
    BY <1>1
  <1>3. \A i \in 1..m : /\ read[i].sequence = i /\ read[i].previous = HashAt(read, i - 1)
                        /\ read[i].hash = Hash(HashAt(read, i - 1), s, i, read[i].data, read[i].at)
    <2> TAKE i \in 1..m
    <2>1. Links(s, read, i)
      BY <1>0 DEF Valid
    <2>2. i = 1 <=> i - 1 = 0
      OBVIOUS
    <2> QED
      BY <2>1, <2>2 DEF Links, HashAt
  <1>4. \A i \in 1..m : /\ IsSeq(g[i].hash) /\ IsSeq(read[i].hash)
                        /\ IsRecord(g[i]) /\ g[i].sequence = i /\ g[i].previous = HashAt(g, i - 1)
                        /\ g[i].hash = Hash(HashAt(g, i - 1), s, i, g[i].data, g[i].at)
    BY <1>0, <1>2 DEF GenuineOK
  <1>5. \A i \in 1..m : IsSeq(HashAt(g, i - 1)) /\ IsSeq(HashAt(read, i - 1))
    BY <1>2, <1>4, GenesisSeq DEF HashAt
  <1>6. ASSUME NEW i \in 1..m, read[i].hash = g[i].hash
        PROVE  /\ HashAt(read, i - 1) = HashAt(g, i - 1)
               /\ read[i].data = g[i].data /\ read[i].at = g[i].at
    <2>1. PICK p, q, d, e, a, b : /\ p = HashAt(read, i - 1) /\ q = HashAt(g, i - 1)
                                  /\ d = read[i].data /\ e = g[i].data
                                  /\ a = read[i].at /\ b = g[i].at
      OBVIOUS
    <2>2. IsSeq(p) /\ IsSeq(q) /\ Hash(p, s, i, d, a) = Hash(q, s, i, e, b)
      BY <1>3, <1>4, <1>5, <1>6, <2>1
    <2> QED
      BY <2>1, <2>2, HashInjects
  <1>7. \A i \in 1..m : read[i].hash = g[i].hash
    <2> DEFINE Bad == {i \in 1..m : read[i].hash # g[i].hash}
    <2> SUFFICES ASSUME Bad # {} PROVE FALSE
      OBVIOUS
    <2>1. Bad \in SUBSET Nat /\ m \in Nat /\ \A i \in Bad : i <= m
      BY <1>0
    <2>2. PICK k \in Bad : \A i \in Bad : i <= k
      <3> HIDE DEF Bad
      <3> QED
        BY <2>1, GreatestNat
    <2>3. k \in 1..m /\ k # m
      <3>1. m # 0 => read[m].hash = g[m].hash
        BY <1>1 DEF HashAt
      <3> QED
        BY <3>1
    <2>4. k + 1 \in 1..m /\ (k + 1) - 1 = k /\ k # 0 /\ ~(k + 1 <= k)
      BY <2>3
    <2>5. read[k + 1].hash = g[k + 1].hash
      BY <2>2, <2>4
    <2>6. HashAt(read, k) = HashAt(g, k)
      BY <1>6, <2>4, <2>5
    <2> QED
      BY <2>4, <2>6 DEF HashAt
  <1>8. ASSUME NEW i \in 1..m
        PROVE  /\ IsRecord(read[i]) /\ IsRecord(g[i]) /\ read[i].sequence = g[i].sequence
               /\ read[i].data = g[i].data /\ read[i].at = g[i].at
               /\ read[i].previous = g[i].previous /\ read[i].hash = g[i].hash
    <2>1. /\ HashAt(read, i - 1) = HashAt(g, i - 1)
          /\ read[i].data = g[i].data /\ read[i].at = g[i].at /\ read[i].hash = g[i].hash
      BY <1>6, <1>7
    <2> QED
      BY <1>0, <1>3, <1>4, <2>1
  <1> QED
    BY <1>0, <1>1, <1>8 DEF Agrees

\* One sequence continues another.
Grows(x, y) == IsSeq(x) /\ IsSeq(y) /\ Len(x) <= Len(y) /\ \A i \in 1..Len(x) : y[i] = x[i]

\* Nothing that was appended is lost, and nothing stored when nobody tampers.
Growth ==
  /\ \A s \in Streams : Grows(genuine[s], genuine'[s])
  /\ tampers' = 0 => tampers = 0 /\ \A s \in Streams : Grows(records[s], records'[s])

\* No request but r moves.
OnlyAudit(r) ==
  /\ pc' \in [Request -> ALabels] /\ DOMAIN event' = Request /\ DOMAIN check' = Request
  /\ DOMAIN reply' = Request
  /\ \A q \in Request \ {r} : /\ pc'[q] = pc[q] /\ event'[q] = event[q]
                              /\ check'[q] = check[q] /\ reply'[q] = reply[q]

\* A sequence continues itself.
LEMMA GrowsSelf ==
  ASSUME NEW x, IsSeq(x) PROVE Grows(x, x) /\ Len(x) \in Nat /\ DOMAIN x = 1..Len(x)
  BY DEF Grows, IsSeq

\* What is stored stays stored.
LEMMA StoredStays ==
  ASSUME Growth, tampers' = 0
  PROVE  /\ \A id : Stored(id) => Stored(id)'
         /\ \A s \in Streams : \A id, data : Held(s, id, data) => Held(s, id, data)'
  <1>1. ASSUME NEW s \in Streams, NEW i \in DOMAIN records[s]
        PROVE  i \in DOMAIN records'[s] /\ records'[s][i] = records[s][i]
    <2>1. Grows(records[s], records'[s])
      BY DEF Growth
    <2>2. PICK x, y : x = records[s] /\ y = records'[s]
      OBVIOUS
    <2>3. Len(x) \in Nat /\ DOMAIN x = 1..Len(x) /\ Len(y) \in Nat /\ DOMAIN y = 1..Len(y)
      BY <2>1, <2>2, GrowsSelf DEF Grows
    <2>4. Len(x) <= Len(y) /\ \A k \in 1..Len(x) : y[k] = x[k]
      BY <2>1, <2>2 DEF Grows
    <2>5. i \in 1..Len(x)
      BY <2>2, <2>3
    <2>6. i \in 1..Len(y) /\ y[i] = x[i]
      BY <2>3, <2>4, <2>5
    <2> QED
      BY <2>2, <2>3, <2>6
  <1>2. \A s \in Streams : \A id : StoredIn(s, id) \subseteq StoredIn(s, id)'
    BY <1>1 DEF StoredIn
  <1> QED
    BY <1>1, <1>2 DEF Stored, Held, StoredIn

\* A request keeps what it has read.
LEMMA ReadStays ==
  ASSUME AuditInv, NEW q \in Request, Growth, check'[q].stream = check[q].stream,
         check'[q].head = check[q].head, check'[q].read = check[q].read,
         reply'[q] = "VALID" => reply[q] = "VALID"
  PROVE  ReadOK(q)'
  <1>1. ReadOK(q) /\ check[q].stream \in Streams
    BY DEF AuditInv, AuditTypes, ReplyOK
  <1>2. PICK g, h, n : /\ g = genuine[check[q].stream] /\ h = genuine'[check[q].stream]
                       /\ n = check[q].head.sequence
    OBVIOUS
  <1>3. Grows(g, h)
    BY <1>1, <1>2 DEF Growth
  <1>4. Len(g) \in Nat /\ Len(h) \in Nat /\ Len(g) <= Len(h) /\ \A i \in 1..Len(g) : h[i] = g[i]
    BY <1>3, GrowsSelf DEF Grows
  <1>5. n \in 0..Len(g) /\ check[q].head.hash = HashAt(g, n)
        /\ (reply[q] = "VALID" => Agrees(g, n, check[q].read))
    BY <1>1, <1>2 DEF ReadOK
  <1>6. n \in 0..Len(h) /\ (n # 0 => n \in 1..Len(g)) /\ \A i \in 1..n : h[i] = g[i]
    BY <1>4, <1>5
  <1>7. HashAt(h, n) = HashAt(g, n)
    BY <1>4, <1>6 DEF HashAt
  <1>8. Agrees(g, n, check[q].read) => Agrees(h, n, check[q].read)
    BY <1>6 DEF Agrees
  <1>9. /\ n \in 0..Len(h) /\ check[q].head.hash = HashAt(h, n)
        /\ reply'[q] = "VALID" => Agrees(h, n, check[q].read)
    BY <1>5, <1>6, <1>7, <1>8
  <1> QED
    BY <1>2, <1>9 DEF ReadOK

\* Requests that do not move keep what they were told.
LEMMA OthersTold ==
  ASSUME AuditInv, NEW q \in Request, Growth, pc'[q] = pc[q], event'[q] = event[q],
         check'[q] = check[q], reply'[q] = reply[q]
  PROVE  ReplyOK(q)'
  <1>1. ReplyOK(q) /\ event[q].stream \in Streams
    BY DEF AuditInv, AuditTypes
  <1>2. ReadOK(q)'
    BY ReadStays
  <1>3. ToldOK(q)'
    <2> SUFFICES ASSUME tampers' = 0
                 PROVE  /\ pc[q] = "conflict" \/ reply[q] = "AUDIT_EVENT_ID_REUSED" => Stored(event[q].id)'
                        /\ reply[q] # "INTERNAL_SERVER_ERROR"
                        /\ reply[q] = "RECORDED" => Held(event[q].stream, event[q].id, event[q].data)'
      BY DEF ToldOK, Stored, StoredIn, Held
    <2>1. tampers = 0 /\ ToldOK(q)
      BY <1>1 DEF Growth, ReplyOK
    <2> QED
      BY <1>1, <2>1, StoredStays DEF ToldOK
  <1> QED
    BY <1>1, <1>2, <1>3 DEF ReplyOK

\* A step that leaves streams, records and locks alone.
LEMMA QuietStep ==
  ASSUME AuditInv, NEW r \in Request, OnlyAudit(r), UNCHANGED <<chain, locked, tampers>>,
         pc'[r] \notin {"existing", "insert"}, event'[r].stream \in Streams,
         check'[r].stream \in Streams, IsCheck(check'[r]), ReplyOK(r)'
  PROVE  AuditInv'
  <1>1. UNCHANGED <<records, head, genuine, locked, tampers>>
    BY DEF chain
  <1>2. Growth
    BY <1>1, GrowsSelf DEF AuditInv, AuditTypes, Growth
  <1>3. AuditTypes'
    BY <1>1 DEF AuditInv, AuditTypes, OnlyAudit
  <1>4. LocksOK' /\ IdsOnce'
    BY <1>1 DEF AuditInv, LocksOK, IdsOnce, OnlyAudit
  <1>5. \A s \in Streams : GenuineOK(s, genuine[s], head[s])' /\ RecordsOK(s)'
    BY <1>1 DEF AuditInv, GenuineOK, RecordsOK
  <1>6. \A q \in Request : ReplyOK(q)'
    BY <1>2, OthersTold DEF OnlyAudit
  <1> QED
    BY <1>3, <1>4, <1>5, <1>6 DEF AuditInv

\* A request that is answered with the stored record of its event.
LEMMA ResolveStep ==
  ASSUME AuditInv, NEW r \in Request, Resolve(r), UNCHANGED <<records, genuine, event, check, tampers>>,
         pc[r] \notin {"idle", "readHead", "readRecords"}
  PROVE  OnlyAudit(r) /\ pc'[r] = "done" /\ ReplyOK(r)'
  <1>1. PICK s \in Streams : \E i \in StoredIn(s, event[r].id) :
          IF ~Identical(r, s, records[s][i]) THEN Answer(r, "AUDIT_EVENT_ID_REUSED")
          ELSE Go(r, "done") /\ reply' = [reply EXCEPT ![r] = IF @ = "none" THEN "RECORDED" ELSE @]
    BY DEF Resolve
  <1>2. PICK i \in StoredIn(s, event[r].id) :
          IF ~Identical(r, s, records[s][i]) THEN Answer(r, "AUDIT_EVENT_ID_REUSED")
          ELSE Go(r, "done") /\ reply' = [reply EXCEPT ![r] = IF @ = "none" THEN "RECORDED" ELSE @]
    BY <1>1
  <1>3. PICK answer : answer = IF Identical(r, s, records[s][i])
                               THEN IF reply[r] = "none" THEN "RECORDED" ELSE reply[r]
                               ELSE "AUDIT_EVENT_ID_REUSED"
    OBVIOUS
  <1>4. pc' = [pc EXCEPT ![r] = "done"] /\ reply' = [reply EXCEPT ![r] = answer]
    BY <1>2, <1>3 DEF Answer, Go
  <1>5. OnlyAudit(r) /\ pc'[r] = "done" /\ reply'[r] = answer
    BY <1>4 DEF AuditInv, AuditTypes, OnlyAudit, ALabels
  <1>6. Stored(event[r].id)
    BY <1>2 DEF Stored
  <1>7. ReplyOK(r)
    BY DEF AuditInv
  <1>8. Growth
    BY GrowsSelf DEF AuditInv, AuditTypes, Growth
  <1>9. answer = "RECORDED" => reply[r] = "RECORDED" \/ Held(event[r].stream, event[r].id, event[r].data)
    BY <1>2, <1>3 DEF Identical, Held
  <1>10. ReadOK(r)'
    <2>1. answer = "VALID" => reply[r] = "VALID"
      BY <1>3
    <2> QED
      BY <1>5, <1>8, <2>1, ReadStays
  <1>11. ToldOK(r)'
    <2>1. answer # "INTERNAL_SERVER_ERROR" \/ reply[r] = "INTERNAL_SERVER_ERROR"
      BY <1>3
    <2>2. tampers = 0 => answer # "INTERNAL_SERVER_ERROR"
      BY <1>7, <2>1 DEF ReplyOK, ToldOK
    <2>3. tampers = 0 /\ answer = "RECORDED" => Held(event[r].stream, event[r].id, event[r].data)
      BY <1>7, <1>9 DEF ReplyOK, ToldOK
    <2> QED
      BY <1>5, <1>6, <2>2, <2>3 DEF ToldOK, Stored, Held, StoredIn
  <1> QED
    BY <1>5, <1>10, <1>11 DEF ReplyOK

\* The transaction of r is over, and changed no stream but the one it held.
LEMMA UnlockKeeps ==
  ASSUME AuditInv, NEW r \in Request, OnlyAudit(r), pc[r] \in {"existing", "insert"}, Unlock(r),
         pc'[r] \notin {"existing", "insert"},
         \A s \in Streams \ {event[r].stream} : head'[s] = head[s]
  PROVE  LocksOK' /\ locked' \in [Streams -> Request \cup {NoRequest}]
  <1>1. locked' \in [Streams -> Request \cup {NoRequest}]
    BY DEF AuditInv, AuditTypes, Unlock
  <1>2. ASSUME NEW q \in Request, pc'[q] \in {"existing", "insert"}
        PROVE  locked'[event'[q].stream] = q /\ check'[q].base = head'[event'[q].stream]
    <2>1. q # r /\ pc'[q] = pc[q] /\ event'[q] = event[q] /\ check'[q] = check[q]
      BY <1>2 DEF OnlyAudit
    <2>2. /\ locked[event[q].stream] = q /\ check[q].base = head[event[q].stream]
          /\ locked[event[r].stream] = r /\ event[q].stream \in Streams
      BY <1>2, <2>1 DEF AuditInv, AuditTypes, LocksOK
    <2>3. event[q].stream # event[r].stream
      BY <2>1, <2>2
    <2>4. locked'[event[q].stream] = q
      BY <2>1, <2>2 DEF Unlock
    <2> QED
      BY <2>1, <2>2, <2>3, <2>4
  <1> QED
    BY <1>1, <1>2 DEF LocksOK

\* An append arrives.
LEMMA ReceiveAppendStep ==
  ASSUME AuditInv, NEW r \in Request, NEW e, e.stream \in Streams, ReceiveAppend(r, e)
  PROVE  AuditInv'
  <1>1. /\ pc' = [pc EXCEPT ![r] = "prior"] /\ event' = [event EXCEPT ![r] = e]
        /\ UNCHANGED <<records, head, genuine, locked, check, reply, tampers>> /\ pc[r] = "idle"
    BY DEF ReceiveAppend, Go, chain
  <1>2. OnlyAudit(r) /\ pc'[r] = "prior" /\ event'[r] = e
    BY <1>1 DEF AuditInv, AuditTypes, OnlyAudit, ALabels
  <1>3. ReplyOK(r) /\ reply[r] = "none"
    BY <1>1 DEF AuditInv, ReplyOK
  <1>4. ReplyOK(r)'
    BY <1>1, <1>2, <1>3 DEF ReplyOK, ReadOK, ToldOK
  <1>5. check'[r].stream \in Streams /\ IsCheck(check'[r])
    BY <1>1 DEF AuditInv, AuditTypes
  <1> QED
    BY <1>1, <1>2, <1>4, <1>5, QuietStep DEF chain

\* The event is looked for before the transaction, and after a conflict.
LEMMA ResolveSteps ==
  ASSUME AuditInv, NEW r \in Request, FindPrior(r) \/ ResolveConflict(r)
  PROVE  AuditInv'
  <1>1. /\ UNCHANGED <<records, head, genuine, locked, event, check, tampers>>
        /\ pc[r] \in {"prior", "conflict"}
    BY DEF FindPrior, ResolveConflict, chain
  <1>2. /\ event'[r].stream \in Streams /\ check'[r].stream \in Streams /\ IsCheck(check'[r])
    BY <1>1 DEF AuditInv, AuditTypes
  <1>3. ReplyOK(r) /\ Growth
    BY <1>1, GrowsSelf DEF AuditInv, AuditTypes, Growth
  <1>4. CASE Resolve(r)
    <2>1. OnlyAudit(r) /\ pc'[r] = "done" /\ ReplyOK(r)'
      BY <1>1, <1>4, ResolveStep
    <2> QED
      BY <1>1, <1>2, <2>1, QuietStep DEF chain
  <1>5. CASE FindPrior(r) /\ ~Resolve(r)
    <2>1. pc' = [pc EXCEPT ![r] = "lock"] /\ UNCHANGED reply
      BY <1>5 DEF FindPrior, Go
    <2>2. OnlyAudit(r) /\ pc'[r] = "lock"
      BY <1>1, <2>1 DEF AuditInv, AuditTypes, OnlyAudit, ALabels
    <2>3. ReadOK(r)'
      BY <1>1, <1>3, <2>1, ReadStays
    <2>4. ToldOK(r)'
      BY <1>1, <1>3, <2>1, <2>2 DEF ReplyOK, ToldOK, Stored, StoredIn, Held
    <2>5. ReplyOK(r)'
      BY <2>2, <2>3, <2>4 DEF ReplyOK
    <2> QED
      BY <1>1, <1>2, <2>2, <2>5, QuietStep DEF chain
  <1>6. CASE ResolveConflict(r) /\ ~Resolve(r)
    <2>1. /\ ~Stored(event[r].id) /\ pc[r] = "conflict"
          /\ pc' = [pc EXCEPT ![r] = "done"] /\ reply' = [reply EXCEPT ![r] = "INTERNAL_SERVER_ERROR"]
      BY <1>6 DEF ResolveConflict, Answer, Go
    <2>2. OnlyAudit(r) /\ pc'[r] = "done" /\ reply'[r] = "INTERNAL_SERVER_ERROR"
      BY <1>1, <2>1 DEF AuditInv, AuditTypes, OnlyAudit, ALabels
    <2>3. ReadOK(r)'
      BY <1>1, <1>3, <2>2, ReadStays
    <2>4. tampers # 0
      BY <1>3, <2>1 DEF ReplyOK, ToldOK
    <2>5. ReplyOK(r)'
      BY <1>1, <2>2, <2>3, <2>4 DEF ReplyOK, ToldOK
    <2> QED
      BY <1>1, <1>2, <2>2, <2>5, QuietStep DEF chain
  <1> QED
    BY <1>4, <1>5, <1>6

\* A verification or a read arrives and reads the head.
LEMMA HeadSteps ==
  ASSUME AuditInv, NEW r \in Request,
         ReadHead(r) \/ \E s \in Stream, op \in {"verify", "read"}, key \in Key : ReceiveCheck(r, op, s, key)
  PROVE  AuditInv'
  <1>1. /\ UNCHANGED <<records, head, genuine, locked, event, tampers>>
        /\ pc[r] \in {"idle", "readHead"}
    BY DEF ReadHead, ReceiveCheck, chain
  <1>2. event[r].stream \in Streams /\ check[r].stream \in Streams /\ IsCheck(check[r])
    BY DEF AuditInv, AuditTypes
  <1>3. ReplyOK(r) /\ Growth
    BY <1>1, GrowsSelf DEF AuditInv, AuditTypes, Growth
  <1>4. reply[r] = "none"
    BY <1>1, <1>3 DEF ReplyOK
  <1>5. ASSUME NEW s \in Stream, NEW op, NEW key, ReceiveCheck(r, op, s, key) PROVE AuditInv'
    <2>1. IsCheck(NoCheck) /\ NoCheck.head = NoHead
      BY DEF IsCheck, NoCheck
    <2>2. PICK a : a = [NoCheck EXCEPT !.stream = s]
      OBVIOUS
    <2>3. PICK b : b = [a EXCEPT !.op = op]
      OBVIOUS
    <2>4. PICK c : c = [b EXCEPT !.key = key]
      OBVIOUS
    <2>5. c = [NoCheck EXCEPT !.stream = s, !.op = op, !.key = key]
      BY <2>2, <2>3, <2>4
    <2>6. IsCheck(a) /\ a.stream = s /\ a.head = NoHead
      BY <2>1, <2>2 DEF IsCheck
    <2>7. IsCheck(b) /\ b.stream = s /\ b.head = NoHead
      BY <2>3, <2>6 DEF IsCheck
    <2>8. IsCheck(c) /\ c.stream = s /\ c.head = NoHead
      BY <2>4, <2>7 DEF IsCheck
    <2>9. /\ pc' = [pc EXCEPT ![r] = "readHead"] /\ check' = [check EXCEPT ![r] = c] /\ UNCHANGED reply
      BY <1>5, <2>5 DEF ReceiveCheck, Go
    <2>10. OnlyAudit(r) /\ pc'[r] = "readHead" /\ check'[r] = c
      BY <1>1, <2>9 DEF AuditInv, AuditTypes, OnlyAudit, ALabels
    <2>11. s \in Streams /\ c.stream = s /\ IsCheck(c) /\ c.head.sequence = 0 /\ c.head.hash = Genesis
      BY <2>8 DEF NoHead, Streams
    <2>12. Len(genuine[s]) \in Nat
      BY <2>11, GrowsSelf DEF AuditInv, AuditTypes
    <2>13. ReplyOK(r)'
      BY <1>1, <1>4, <2>9, <2>10, <2>11, <2>12 DEF ReplyOK, ReadOK, ToldOK, HashAt
    <2> QED
      BY <1>1, <1>2, <2>10, <2>11, <2>13, QuietStep DEF chain
  <1>6. CASE ReadHead(r) /\ head[check[r].stream].exists
    <2>1. PICK s, h : s = check[r].stream /\ h = head[s]
      OBVIOUS
    <2>2. PICK c : c = [check[r] EXCEPT !.head = h]
      OBVIOUS
    <2>3. /\ pc' = [pc EXCEPT ![r] = "readRecords"] /\ check' = [check EXCEPT ![r] = c] /\ UNCHANGED reply
      BY <1>6, <2>1, <2>2 DEF ReadHead, Go
    <2>4. OnlyAudit(r) /\ pc'[r] = "readRecords" /\ check'[r] = c
      BY <1>1, <2>3 DEF AuditInv, AuditTypes, OnlyAudit, ALabels
    <2>5. IsCheck(c) /\ c.stream = s /\ c.head = h
      BY <1>2, <2>1, <2>2 DEF IsCheck
    <2>6. s \in Streams /\ GenuineOK(s, genuine[s], h) /\ Len(genuine[s]) \in Nat
      BY <1>2, <2>1, GrowsSelf DEF AuditInv, AuditTypes
    <2>7. h.sequence \in 0..Len(genuine[s]) /\ h.hash = HashAt(genuine[s], h.sequence)
      BY <2>6 DEF GenuineOK
    <2>8. ReplyOK(r)'
      BY <1>1, <1>4, <2>3, <2>4, <2>5, <2>7 DEF ReplyOK, ReadOK, ToldOK
    <2> QED
      BY <1>1, <1>2, <2>1, <2>4, <2>5, <2>8, QuietStep DEF chain
  <1>7. CASE ReadHead(r) /\ ~head[check[r].stream].exists
    <2>1. /\ pc' = [pc EXCEPT ![r] = "done"] /\ reply' = [reply EXCEPT ![r] = "AUDIT_STREAM_NOT_FOUND"]
          /\ UNCHANGED check /\ pc[r] = "readHead"
      BY <1>7 DEF ReadHead, Answer, Go
    <2>2. OnlyAudit(r) /\ pc'[r] = "done" /\ reply'[r] = "AUDIT_STREAM_NOT_FOUND"
      BY <1>1, <2>1 DEF AuditInv, AuditTypes, OnlyAudit, ALabels
    <2>3. ReadOK(r)'
      BY <1>3, <2>1, <2>2, ReadStays
    <2>4. ReplyOK(r)'
      BY <2>2, <2>3 DEF ReplyOK, ToldOK
    <2> QED
      BY <1>1, <1>2, <2>1, <2>2, <2>4, QuietStep DEF chain
  <1> QED
    BY <1>5, <1>6, <1>7

\* A step that changes no record.
LEMMA SameRecords ==
  ASSUME AuditInv, NEW r \in Request, OnlyAudit(r), UNCHANGED <<records, genuine, event, tampers>>,
         locked' \in [Streams -> Request \cup {NoRequest}], LocksOK', DOMAIN head' = Streams,
         \A s \in Streams : /\ IsHead(head'[s]) /\ head'[s].sequence = head[s].sequence
                            /\ head'[s].hash = head[s].hash,
         check'[r].stream \in Streams, IsCheck(check'[r]), ReplyOK(r)'
  PROVE  AuditInv'
  <1>1. Growth
    BY GrowsSelf DEF AuditInv, AuditTypes, Growth
  <1>2. AuditTypes'
    BY DEF AuditInv, AuditTypes, OnlyAudit
  <1>3. IdsOnce'
    BY DEF AuditInv, IdsOnce
  <1>4. ASSUME NEW s \in Streams PROVE GenuineOK(s, genuine[s], head[s])' /\ RecordsOK(s)'
    <2>1. GenuineOK(s, genuine[s], head[s]) /\ RecordsOK(s)
      BY DEF AuditInv
    <2>2. GenuineOK(s, genuine[s], head'[s])
      <3>1. PICK g, h, k : g = genuine[s] /\ h = head[s] /\ k = head'[s]
        OBVIOUS
      <3>2. k.sequence = h.sequence /\ k.hash = h.hash
        BY <3>1
      <3>3. GenuineOK(s, g, h)
        BY <2>1, <3>1
      <3>4. GenuineOK(s, g, k)
        BY <3>2, <3>3 DEF GenuineOK
      <3> QED
        BY <3>1, <3>4
    <2> QED
      BY <2>1, <2>2 DEF RecordsOK
  <1>5. \A q \in Request : ReplyOK(q)'
    BY <1>1, OthersTold DEF OnlyAudit
  <1> QED
    BY <1>2, <1>3, <1>4, <1>5 DEF AuditInv

\* A transaction locks the stream and reads its head.
LEMMA LockHeadStep ==
  ASSUME AuditInv, NEW r \in Request, LockHead(r)
  PROVE  AuditInv'
  <1>1. PICK s, h : s = event[r].stream /\ h = head[s]
    OBVIOUS
  <1>2. s \in Streams /\ check[r].stream \in Streams /\ IsCheck(check[r]) /\ DOMAIN check = Request
    BY <1>1 DEF AuditInv, AuditTypes
  <1>3. PICK c : c = [check[r] EXCEPT !.base = h]
    OBVIOUS
  <1>4. /\ pc[r] = "lock" /\ locked[s] = NoRequest /\ locked' = [locked EXCEPT ![s] = r]
        /\ check' = [check EXCEPT ![r] = c] /\ pc' = [pc EXCEPT ![r] = "existing"]
        /\ UNCHANGED <<records, head, genuine, event, reply, tampers>>
    BY <1>1, <1>3 DEF LockHead, LockFree, Go, chain
  <1>5. OnlyAudit(r) /\ pc'[r] = "existing" /\ check'[r] = c
    BY <1>4 DEF AuditInv, AuditTypes, OnlyAudit, ALabels
  <1>6. IsCheck(c) /\ c.stream = check[r].stream /\ c.head = check[r].head /\ c.read = check[r].read /\ c.base = h
    BY <1>2, <1>3 DEF IsCheck
  <1>7. locked' \in [Streams -> Request \cup {NoRequest}] /\ locked'[s] = r
        /\ \A t \in Streams \ {s} : locked'[t] = locked[t]
    BY <1>2, <1>4 DEF AuditInv, AuditTypes
  <1>8. LocksOK'
    <2> SUFFICES ASSUME NEW q \in Request, pc'[q] \in {"existing", "insert"}
                 PROVE  locked'[event[q].stream] = q /\ check'[q].base = head[event[q].stream]
      BY <1>4 DEF LocksOK
    <2>1. CASE q = r
      BY <1>1, <1>5, <1>6, <1>7, <2>1
    <2>2. CASE q # r
      <3>1. pc'[q] = pc[q] /\ check'[q] = check[q]
        BY <1>5, <2>2 DEF OnlyAudit
      <3>2. /\ locked[event[q].stream] = q /\ check[q].base = head[event[q].stream]
            /\ event[q].stream \in Streams
        BY <3>1 DEF AuditInv, AuditTypes, LocksOK
      <3>3. event[q].stream # s
        BY <1>4, <3>2, StreamAssumption
      <3> QED
        BY <1>7, <3>1, <3>2, <3>3
    <2> QED
      BY <2>1, <2>2
  <1>9. ReplyOK(r)'
    <2>1. Growth /\ ReplyOK(r)
      BY <1>4, GrowsSelf DEF AuditInv, AuditTypes, Growth
    <2>2. ReadOK(r)'
      BY <1>4, <1>5, <1>6, <2>1, ReadStays
    <2>3. ToldOK(r)'
      BY <1>4, <1>5, <2>1 DEF ReplyOK, ToldOK, Stored, StoredIn, Held
    <2> QED
      BY <1>5, <2>2, <2>3 DEF ReplyOK
  <1>10. DOMAIN head' = Streams /\ \A t \in Streams : IsHead(head'[t])
    BY <1>4 DEF AuditInv, AuditTypes
  <1> QED
    BY <1>2, <1>4, <1>5, <1>6, <1>7, <1>8, <1>9, <1>10, SameRecords

\* The event is looked for under the lock.
LEMMA FindExistingStep ==
  ASSUME AuditInv, NEW r \in Request, FindExisting(r)
  PROVE  AuditInv'
  <1>1. /\ UNCHANGED <<records, genuine, event, check, tampers>> /\ pc[r] = "existing"
        /\ check'[r].stream \in Streams /\ IsCheck(check'[r]) /\ event[r].stream \in Streams
        /\ DOMAIN head = Streams
    BY DEF FindExisting, AuditInv, AuditTypes
  <1>2. CASE Stored(event[r].id)
    <2>1. Resolve(r) /\ Unlock(r) /\ head' = [head EXCEPT ![event[r].stream].exists = TRUE]
      BY <1>2 DEF FindExisting
    <2>2. OnlyAudit(r) /\ pc'[r] = "done" /\ ReplyOK(r)'
      BY <1>1, <2>1, ResolveStep
    <2>3. \A s \in Streams : IsHead(head[s])
      BY DEF AuditInv, AuditTypes
    <2>4. /\ DOMAIN head' = Streams /\ \A s \in Streams \ {event[r].stream} : head'[s] = head[s]
          /\ head'[event[r].stream] = [head[event[r].stream] EXCEPT !.exists = TRUE]
      BY <1>1, <2>1
    <2>5. \A s \in Streams : /\ IsHead(head'[s]) /\ head'[s].sequence = head[s].sequence
                             /\ head'[s].hash = head[s].hash
      <3>1. ASSUME NEW h, IsHead(h), NEW k, k = [h EXCEPT !.exists = TRUE]
            PROVE  IsHead(k) /\ k.sequence = h.sequence /\ k.hash = h.hash
        BY <3>1 DEF IsHead
      <3> QED
        BY <1>1, <2>3, <2>4, <3>1
    <2>6. LocksOK' /\ locked' \in [Streams -> Request \cup {NoRequest}]
      BY <1>1, <2>1, <2>2, <2>4, UnlockKeeps
    <2> QED
      BY <1>1, <2>2, <2>4, <2>5, <2>6, SameRecords
  <1>3. CASE ~Stored(event[r].id)
    <2>1. pc' = [pc EXCEPT ![r] = "insert"] /\ UNCHANGED <<head, locked, reply>>
      BY <1>3 DEF FindExisting, Go
    <2>2. OnlyAudit(r) /\ pc'[r] = "insert"
      BY <1>1, <2>1 DEF AuditInv, AuditTypes, OnlyAudit, ALabels
    <2>3. LocksOK' /\ locked' \in [Streams -> Request \cup {NoRequest}]
          /\ \A s \in Streams : IsHead(head'[s])
      BY <1>1, <2>1, <2>2 DEF AuditInv, AuditTypes, LocksOK, OnlyAudit
    <2>4. ReplyOK(r)'
      <3>1. Growth /\ ReplyOK(r)
        BY <1>1, GrowsSelf DEF AuditInv, AuditTypes, Growth
      <3>2. ReadOK(r)'
        BY <1>1, <2>1, <3>1, ReadStays
      <3>3. ToldOK(r)'
        BY <1>1, <2>1, <2>2, <3>1 DEF ReplyOK, ToldOK, Stored, StoredIn, Held
      <3> QED
        BY <2>2, <3>2, <3>3 DEF ReplyOK
    <2> QED
      BY <1>1, <2>1, <2>2, <2>3, <2>4, SameRecords
  <1> QED
    BY <1>2, <1>3

\* An insert that finds its event id or its sequence number taken: without tampering
\* the number is free, as the transaction has read the head of the whole chain.
LEMMA InsertConflictStep ==
  ASSUME AuditInv, NEW r \in Request, InsertConflict(r)
  PROVE  AuditInv'
  <1>1. /\ UNCHANGED <<records, head, genuine, event, check, reply, tampers>> /\ pc[r] = "insert"
        /\ UniqueViolation(r) /\ Unlock(r) /\ pc' = [pc EXCEPT ![r] = "conflict"]
    BY DEF InsertConflict, chain, Go
  <1>2. /\ check'[r].stream \in Streams /\ IsCheck(check'[r]) /\ event[r].stream \in Streams
        /\ DOMAIN head' = Streams /\ \A s \in Streams : IsHead(head'[s])
    BY <1>1 DEF AuditInv, AuditTypes
  <1>3. OnlyAudit(r) /\ pc'[r] = "conflict"
    BY <1>1 DEF AuditInv, AuditTypes, OnlyAudit, ALabels
  <1>4. LocksOK' /\ locked' \in [Streams -> Request \cup {NoRequest}]
    BY <1>1, <1>3, UnlockKeeps
  <1>5. ASSUME tampers = 0 PROVE Stored(event[r].id)
    <2>1. PICK s, g : s = event[r].stream /\ g = genuine[s]
      OBVIOUS
    <2>2. /\ check[r].base = head[s] /\ GenuineOK(s, g, head[s]) /\ records[s] = g
          /\ Len(g) \in Nat /\ DOMAIN g = 1..Len(g)
      BY <1>1, <1>2, <1>5, <2>1, GrowsSelf DEF AuditInv, AuditTypes, LocksOK, RecordsOK
    <2>3. \A i \in DOMAIN g : g[i].sequence # check[r].base.sequence + 1
      BY <2>2 DEF GenuineOK
    <2> QED
      BY <1>1, <2>1, <2>2, <2>3 DEF UniqueViolation
  <1>6. ReplyOK(r)'
    <2>1. Growth /\ ReplyOK(r)
      BY <1>1, GrowsSelf DEF AuditInv, AuditTypes, Growth
    <2>2. ReadOK(r)'
      BY <1>1, <2>1, ReadStays
    <2>3. ToldOK(r)'
      BY <1>1, <1>5, <2>1 DEF ReplyOK, ToldOK, Stored, StoredIn, Held
    <2> QED
      BY <1>3, <2>2, <2>3 DEF ReplyOK
  <1> QED
    BY <1>1, <1>2, <1>3, <1>4, <1>6, SameRecords

\* The record x of the event e continues the chain g.
Continues(s, g, h, e, x) ==
  /\ Grows(g, Append(g, x)) /\ Len(Append(g, x)) = Len(g) + 1 /\ Append(g, x)[Len(g) + 1] = x
  /\ IsStored(x) /\ x.sequence = Len(g) + 1 /\ x.id = e.id /\ x.data = e.data
  /\ IsHead(NewHead(h, x)) /\ GenuineOK(s, Append(g, x), NewHead(h, x))

\* A record appended with the head that was read does.
LEMMA GenuineGrows ==
  ASSUME NEW s, NEW g, IsSeq(g), NEW h, GenuineOK(s, g, h), NEW e, s = e.stream
  PROVE  Continues(s, g, h, e, Record(e, h))
  <1>0. PICK x : x = Record(e, h)
    OBVIOUS
  <1>1. PICK n, y : n = Len(g) /\ y = Append(g, x)
    OBVIOUS
  <1>2. /\ n \in Nat /\ DOMAIN g = 1..n /\ DOMAIN y = 1..(n + 1) /\ Len(y) = n + 1
        /\ y[n + 1] = x /\ (\A i \in 1..n : y[i] = g[i]) /\ IsSeq(y)
    BY <1>1, AppendFacts DEF IsSeq
  <1>3. h.sequence = n /\ h.hash = HashAt(g, n)
    BY <1>1 DEF GenuineOK
  <1>4. PICK p : p = h.hash
    OBVIOUS
  <1>5. IsSeq(p) /\ Len(p) = n
    BY <1>1, <1>2, <1>3, <1>4, GenesisSeq DEF GenuineOK, HashAt
  <1>6. /\ x.id = e.id /\ x.sequence = n + 1 /\ x.data = e.data /\ x.at = e.at /\ x.previous = p
        /\ x.hash = Hash(p, s, n + 1, x.data, x.at) /\ IsRecord(x)
    BY <1>0, <1>3, <1>4 DEF Record, IsRecord
  <1>7. IsSeq(x.hash) /\ Len(x.hash) = n + 1
    <2>1. PICK z : z = <<s, n + 1, x.data, x.at>>
      OBVIOUS
    <2>2. x.hash = Append(p, z)
      BY <1>6, <2>1 DEF Hash
    <2> QED
      BY <1>5, <2>2, AppendFacts DEF IsSeq
  <1>8. \A i \in 0..n : HashAt(y, i) = HashAt(g, i)
    BY <1>2 DEF HashAt
  <1>9. ASSUME NEW i \in 1..(n + 1)
        PROVE  /\ IsRecord(y[i]) /\ y[i].sequence = i /\ y[i].previous = HashAt(y, i - 1)
               /\ y[i].hash = Hash(HashAt(y, i - 1), s, i, y[i].data, y[i].at)
               /\ IsSeq(y[i].hash) /\ Len(y[i].hash) = i
    <2>1. CASE i = n + 1
      <3>1. HashAt(y, i - 1) = p
        BY <1>2, <1>3, <1>4, <1>8, <2>1
      <3> QED
        BY <1>2, <1>6, <1>7, <2>1, <3>1
    <2>2. CASE i # n + 1
      <3>1. i \in 1..n /\ i - 1 \in 0..n
        BY <1>2, <2>2
      <3>2. y[i] = g[i] /\ HashAt(y, i - 1) = HashAt(g, i - 1)
        BY <1>2, <1>8, <3>1
      <3>3. /\ IsRecord(g[i]) /\ g[i].sequence = i /\ g[i].previous = HashAt(g, i - 1)
            /\ g[i].hash = Hash(HashAt(g, i - 1), s, i, g[i].data, g[i].at)
            /\ IsSeq(g[i].hash) /\ Len(g[i].hash) = i
        BY <1>1, <3>1 DEF GenuineOK
      <3> QED
        BY <3>2, <3>3
    <2> QED
      BY <2>1, <2>2
  <1>10. PICK k : k = NewHead(h, x)
    OBVIOUS
  <1>11. IsHead(k) /\ k.sequence = n + 1 /\ k.hash = x.hash
    BY <1>6, <1>10 DEF IsHead, NewHead
  <1>12. HashAt(y, n + 1) = x.hash
    BY <1>2 DEF HashAt
  <1>13. GenuineOK(s, y, k)
    BY <1>2, <1>9, <1>11, <1>12 DEF GenuineOK
  <1>14. Grows(g, y)
    BY <1>1, <1>2 DEF Grows
  <1> QED
    BY <1>0, <1>1, <1>2, <1>5, <1>6, <1>7, <1>10, <1>11, <1>13, <1>14 DEF Continues, IsStored

\* The record is inserted.
LEMMA InsertStep ==
  ASSUME AuditInv, NEW r \in Request, Insert(r)
  PROVE  AuditInv'
  <1>1. PICK s, h : s = event[r].stream /\ h = head[s]
    OBVIOUS
  <1>2. PICK x : x = Record(event[r], h)
    OBVIOUS
  <1>3. pc[r] = "insert" /\ check[r].base = h /\ s \in Streams
    BY <1>1 DEF Insert, AuditInv, AuditTypes, LocksOK
  <1>4. PICK k, answer : k = NewHead(h, x) /\ answer = IF reply[r] = "none" THEN "RECORDED" ELSE reply[r]
    OBVIOUS
  <1>5. PICK g, w, g2, w2 : /\ g = genuine[s] /\ w = records[s]
                            /\ g2 = Append(g, x) /\ w2 = Append(w, x)
    OBVIOUS
  <1>6. /\ ~UniqueViolation(r) /\ Unlock(r)
        /\ records' = [records EXCEPT ![s] = w2] /\ genuine' = [genuine EXCEPT ![s] = g2]
        /\ head' = [head EXCEPT ![s] = k] /\ pc' = [pc EXCEPT ![r] = "done"]
        /\ reply' = [reply EXCEPT ![r] = answer] /\ UNCHANGED <<event, check, tampers>>
    BY <1>1, <1>2, <1>3, <1>4, <1>5 DEF Insert, Go
  <1>7. /\ OnlyAudit(r) /\ pc'[r] = "done" /\ reply'[r] = answer
        /\ DOMAIN records' = Streams /\ DOMAIN genuine' = Streams /\ DOMAIN head' = Streams
        /\ records'[s] = w2 /\ genuine'[s] = g2 /\ head'[s] = k
        /\ \A t \in Streams \ {s} : records'[t] = records[t] /\ genuine'[t] = genuine[t] /\ head'[t] = head[t]
    BY <1>3, <1>6 DEF AuditInv, AuditTypes, OnlyAudit, ALabels
  <1>8. IsSeq(g) /\ IsSeq(w) /\ GenuineOK(s, g, h) /\ RecordsOK(s)
    BY <1>1, <1>3, <1>5 DEF AuditInv, AuditTypes
  <1>9. /\ Grows(g, g2) /\ Len(g2) = Len(g) + 1 /\ g2[Len(g) + 1] = x
        /\ IsStored(x) /\ x.sequence = Len(g) + 1 /\ x.id = event[r].id /\ x.data = event[r].data
        /\ IsHead(k) /\ GenuineOK(s, g2, k)
    <2>1. PICK e : e = event[r]
      OBVIOUS
    <2>2. e.stream = s /\ x = Record(e, h)
      BY <1>1, <1>2, <2>1
    <2>3. Continues(s, g, h, e, Record(e, h))
      BY <1>8, <2>2, GenuineGrows
    <2> QED
      BY <1>4, <1>5, <2>1, <2>2, <2>3 DEF Continues
  <1>10. PICK n, m : n = Len(g) /\ m = Len(w)
    OBVIOUS
  <1>11. /\ n \in Nat /\ m \in Nat /\ DOMAIN w = 1..m /\ DOMAIN w2 = 1..(m + 1) /\ IsSeq(w2)
         /\ w2[m + 1] = x /\ (\A i \in 1..m : w2[i] = w[i]) /\ Grows(w, w2)
    <2>1. /\ m \in Nat /\ DOMAIN w = 1..m /\ DOMAIN w2 = 1..(m + 1) /\ IsSeq(w2) /\ Len(w2) = m + 1
          /\ w2[m + 1] = x /\ (\A i \in 1..m : w2[i] = w[i])
      BY <1>5, <1>8, <1>10, AppendFacts DEF IsSeq
    <2> QED
      BY <1>8, <1>10, <2>1, GrowsSelf DEF Grows
  <1>12. Growth
    <2>1. \A t \in Streams \ {s} : Grows(genuine[t], genuine'[t]) /\ Grows(records[t], records'[t])
      BY <1>7, GrowsSelf DEF AuditInv, AuditTypes
    <2> QED
      BY <1>5, <1>6, <1>7, <1>9, <1>11, <2>1 DEF Growth
  <1>13. LocksOK' /\ locked' \in [Streams -> Request \cup {NoRequest}]
    BY <1>1, <1>3, <1>6, <1>7, UnlockKeeps
  <1>14. AuditTypes'
    <2>1. \A t \in Streams : IsHead(head'[t]) /\ IsSeq(genuine'[t]) /\ IsSeq(records'[t])
      BY <1>7, <1>9, <1>11 DEF AuditInv, AuditTypes, Grows
    <2> QED
      BY <1>6, <1>7, <1>13, <2>1 DEF AuditInv, AuditTypes, OnlyAudit
  <1>15. ~Stored(event[r].id) /\ \A i \in 1..m : w[i].sequence # x.sequence
    <2>1. h.sequence + 1 = x.sequence
      BY <1>8, <1>9 DEF GenuineOK
    <2>2. ~Stored(event[r].id) /\ \A i \in DOMAIN w : w[i].sequence # h.sequence + 1
      BY <1>1, <1>3, <1>5, <1>6 DEF UniqueViolation
    <2> QED
      BY <1>11, <2>1, <2>2
  <1>16. RecordsOK(s)'
    <2>1. ASSUME NEW i \in 1..(m + 1) PROVE IsStored(w2[i])
      <3>1. CASE i = m + 1
        BY <1>9, <1>11, <3>1
      <3>2. CASE i # m + 1
        BY <1>5, <1>8, <1>11, <3>2 DEF RecordsOK
      <3> QED
        BY <3>1, <3>2
    <2>2. ASSUME NEW i \in 1..(m + 1), NEW j \in 1..(m + 1), w2[i].sequence = w2[j].sequence PROVE i = j
      <3>1. i \in 1..m /\ j \in 1..m => i = j
        BY <1>5, <1>8, <1>11, <2>2 DEF RecordsOK
      <3>2. i \in 1..m /\ j = m + 1 => FALSE
        BY <1>11, <1>15, <2>2
      <3>3. j \in 1..m /\ i = m + 1 => FALSE
        BY <1>11, <1>15, <2>2
      <3> QED
        BY <1>11, <3>1, <3>2, <3>3
    <2>3. tampers = 0 => w2 = g2
      BY <1>5, <1>8 DEF RecordsOK
    <2> QED
      <3>1. records'[s] = w2 /\ genuine'[s] = g2 /\ DOMAIN w2 = 1..(m + 1) /\ tampers' = tampers
        BY <1>6, <1>7, <1>11
      <3>2. \A i, j \in 1..(m + 1) : w2[i].sequence = w2[j].sequence => i = j
        BY <2>2
      <3>3. \A i \in 1..(m + 1) : IsStored(w2[i])
        BY <2>1
      <3> QED
        BY <2>3, <3>1, <3>2, <3>3 DEF RecordsOK
  <1>17. \A t \in Streams : GenuineOK(t, genuine[t], head[t])' /\ RecordsOK(t)'
    <2>1. ASSUME NEW t \in Streams \ {s} PROVE GenuineOK(t, genuine[t], head[t])' /\ RecordsOK(t)'
      <3>1. /\ records'[t] = records[t] /\ genuine'[t] = genuine[t] /\ head'[t] = head[t] /\ tampers' = tampers
            /\ GenuineOK(t, genuine[t], head[t]) /\ RecordsOK(t)
        BY <1>6, <1>7 DEF AuditInv
      <3> QED
        BY <3>1 DEF RecordsOK
    <2> QED
      BY <1>7, <1>9, <1>16, <2>1
  <1>18. IdsOnce'
    <2> SUFFICES ASSUME tampers = 0, NEW t \in Streams, NEW v \in Streams,
                        NEW i \in DOMAIN records'[t], NEW j \in DOMAIN records'[v],
                        records'[t][i].id = records'[v][j].id
                 PROVE  t = v /\ i = j
      BY <1>6 DEF IdsOnce
    <2>1. ASSUME NEW u \in Streams, NEW l \in DOMAIN records'[u]
          PROVE  \/ u = s /\ l = m + 1 /\ records'[u][l] = x
                 \/ l \in DOMAIN records[u] /\ records'[u][l] = records[u][l] /\ records[u][l].id # x.id
      <3>1. l \in DOMAIN records[u] => records[u][l].id # x.id
        BY <1>9, <1>15 DEF Stored, StoredIn
      <3>2. CASE u = s
        <4>1. l \in 1..(m + 1)
          BY <1>7, <1>11, <3>2
        <4>2. l = m + 1 \/ l \in 1..m
          BY <1>11, <4>1
        <4> QED
          BY <1>5, <1>7, <1>11, <3>1, <3>2, <4>2
      <3> QED
        BY <1>7, <3>1, <3>2
    <2>2. IdsOnce
      BY DEF AuditInv
    <2> QED
      BY <2>1, <2>2 DEF IdsOnce
  <1>19. ReplyOK(r)'
    <2>1. ReplyOK(r)
      BY DEF AuditInv
    <2>2. ReadOK(r)'
      <3>1. answer = "VALID" => reply[r] = "VALID"
        BY <1>4
      <3> QED
        BY <1>6, <1>7, <1>12, <3>1, ReadStays
    <2>3. ToldOK(r)'
      <3> SUFFICES ASSUME tampers' = 0
                   PROVE  /\ answer = "AUDIT_EVENT_ID_REUSED" => Stored(event[r].id)'
                          /\ answer # "INTERNAL_SERVER_ERROR"
                          /\ Held(event[r].stream, event[r].id, event[r].data)'
        BY <1>6, <1>7 DEF ToldOK
      <3>1. ToldOK(r) /\ tampers = 0
        BY <1>6, <2>1 DEF ReplyOK
      <3>2. answer = "RECORDED" \/ answer = reply[r]
        BY <1>4
      <3>3. m + 1 \in DOMAIN records'[s] /\ records'[s][m + 1] = x
        BY <1>7, <1>11
      <3>4. Held(event[r].stream, event[r].id, event[r].data)'
        BY <1>1, <1>6, <1>9, <3>3 DEF Held, StoredIn
      <3> QED
        BY <1>6, <1>12, <3>1, <3>2, <3>4, StoredStays DEF ToldOK
    <2> QED
      BY <1>7, <2>2, <2>3 DEF ReplyOK
  <1>20. \A q \in Request : ReplyOK(q)'
    BY <1>7, <1>12, <1>19, OthersTold DEF OnlyAudit
  <1> QED
    BY <1>13, <1>14, <1>17, <1>18, <1>20 DEF AuditInv

\* The rows of a table are finitely many.
LEMMA RowsFinite ==
  ASSUME NEW w, IsSeq(w) PROVE IsFiniteSet(Range(w))
  <1>1. PICK n, T : n = Len(w) /\ T = Range(w)
    OBVIOUS
  <1>2. n \in Nat /\ DOMAIN w = 1..n
    BY <1>1, GrowsSelf
  <1>3. IsFiniteSet(1..n)
    BY <1>2, FS_Interval
  <1>4. w \in Surjection(1..n, T)
    BY <1>1, <1>2 DEF IsSeq, Range, Surjection
  <1> QED
    BY <1>1, <1>3, <1>4, FS_Surjection

\* The records of a stream, as verify reads them, are records.
LEMMA ReadFacts ==
  ASSUME AuditInv, NEW s \in Streams, NEW read,
         read = InOrder(Range(records[s]), BySequence(Range(records[s])))
  PROVE  AreRecords(read)
  <1>1. PICK w, T : w = records[s] /\ T = Range(w)
    OBVIOUS
  <1>2. IsSeq(w) /\ RecordsOK(s)
    BY <1>1 DEF AuditInv, AuditTypes
  <1>3. /\ \A x \in T : \E i \in DOMAIN w : x = w[i]
        /\ \A x \in T : x.sequence \in Nat /\ IsRecord(x) /\ IsSeq(x.hash)
        /\ \A x, y \in T : x.sequence = y.sequence => x = y
    BY <1>1, <1>2 DEF Range, RecordsOK, IsStored
  <1>4. IsFiniteSet(T)
    BY <1>1, <1>2, RowsFinite
  <1>5. \A x, y \in T : <<x, y>> \in BySequence(T) <=> x.sequence < y.sequence
    BY DEF BySequence
  <1>6. TotalOrder(BySequence(T), T)
    <2>1. \A x \in T : <<x, x>> \notin BySequence(T)
      BY <1>3, <1>5
    <2>2. ASSUME NEW x \in T, NEW y \in T, NEW z \in T,
                 <<x, y>> \in BySequence(T), <<y, z>> \in BySequence(T)
          PROVE  <<x, z>> \in BySequence(T)
      <3>1. x.sequence < y.sequence /\ y.sequence < z.sequence
        BY <1>5, <2>2
      <3>2. x.sequence \in Nat /\ y.sequence \in Nat /\ z.sequence \in Nat
        BY <1>3
      <3>3. x.sequence < z.sequence
        BY <3>1, <3>2
      <3> QED
        BY <1>5, <3>3
    <2>3. ASSUME NEW x \in T, NEW y \in T
          PROVE  x = y \/ <<x, y>> \in BySequence(T) \/ <<y, x>> \in BySequence(T)
      <3>1. x.sequence \in Nat /\ y.sequence \in Nat
        BY <1>3
      <3>2. x.sequence = y.sequence \/ x.sequence < y.sequence \/ y.sequence < x.sequence
        BY <3>1
      <3> QED
        BY <1>3, <1>5, <3>2
    <2> QED
      BY <2>1, <2>2, <2>3 DEF TotalOrder
  <1>7. PICK m : m = Cardinality(T)
    OBVIOUS
  <1>8. m \in Nat /\ read \in [1..m -> T]
    <2>1. Cardinality(T) \in Nat /\ InOrder(T, BySequence(T)) \in [1..Cardinality(T) -> T]
      BY <1>4, <1>6, InOrderLists, Zenon
    <2> QED
      BY <1>1, <1>7, <2>1
  <1>9. DOMAIN read = 1..m /\ Len(read) = m /\ \A i \in 1..m : read[i] \in T
    BY <1>8
  <1> QED
    BY <1>3, <1>8, <1>9 DEF AreRecords

\* The records are read and judged.
LEMMA ReadRecordsStep ==
  ASSUME AuditInv, NEW r \in Request, ReadRecords(r)
  PROVE  AuditInv'
  <1>1. PICK s, h, read : /\ s = check[r].stream /\ h = check[r].head
                          /\ read = InOrder(Range(records[s]), BySequence(Range(records[s])))
    OBVIOUS
  <1>2. PICK c, e : /\ c = [check[r] EXCEPT !.read = read]
                    /\ e = [id |-> IF check[r].op = "verify" THEN <<"verify", check[r].key>> ELSE <<"read", r>>,
                            stream |-> Operators, operator |-> TRUE, at |-> 0,
                            data |-> IF check[r].op = "verify" THEN <<s, Valid(s, h, read), Checked(s, read)>>
                                     ELSE <<s, Len(read)>>]
    OBVIOUS
  <1>3. PICK answer : answer = IF ~(check[r].op = "verify") THEN "READ"
                               ELSE IF Valid(s, h, read) THEN "VALID" ELSE "INVALID"
    OBVIOUS
  <1>4. /\ pc[r] = "readRecords" /\ pc' = [pc EXCEPT ![r] = "prior"]
        /\ check' = [check EXCEPT ![r] = c] /\ event' = [event EXCEPT ![r] = e]
        /\ reply' = [reply EXCEPT ![r] = answer]
        /\ UNCHANGED <<records, head, genuine, locked, tampers>>
    BY <1>1, <1>2, <1>3, Zenon DEF ReadRecords, Go, chain
  <1>5. OnlyAudit(r) /\ pc'[r] = "prior" /\ check'[r] = c /\ event'[r] = e /\ reply'[r] = answer
    BY <1>4 DEF AuditInv, AuditTypes, OnlyAudit, ALabels
  <1>6. s \in Streams /\ IsCheck(check[r])
    BY <1>1 DEF AuditInv, AuditTypes
  <1>7. IsCheck(c) /\ c.stream = s /\ c.head = h /\ c.read = read
    BY <1>1, <1>2, <1>6 DEF IsCheck
  <1>8. e.stream \in Streams
    BY <1>2 DEF Streams
  <1>9. PICK g : g = genuine[s]
    OBVIOUS
  <1>10. h.sequence \in 0..Len(g) /\ h.hash = HashAt(g, h.sequence) /\ IsSeq(g) /\ GenuineOK(s, g, head[s])
    BY <1>1, <1>6, <1>9 DEF AuditInv, AuditTypes, ReplyOK, ReadOK
  <1>11. Valid(s, h, read) => Agrees(g, h.sequence, read)
    <2>1. AreRecords(read)
      BY <1>1, <1>6, ReadFacts
    <2> QED
      BY <1>10, <2>1, ValidGenuine
  <1>12. /\ answer = "VALID" => Valid(s, h, read)
         /\ answer \notin {"RECORDED", "AUDIT_EVENT_ID_REUSED", "INTERNAL_SERVER_ERROR"}
    BY <1>3
  <1>13. ReadOK(r)'
    BY <1>4, <1>5, <1>7, <1>9, <1>10, <1>11, <1>12 DEF ReadOK
  <1>14. ReplyOK(r)'
    BY <1>5, <1>12, <1>13 DEF ReplyOK, ToldOK
  <1> QED
    BY <1>4, <1>5, <1>6, <1>7, <1>8, <1>14, QuietStep DEF chain

\* Records, no two with one sequence number.
Rows(w) ==
  /\ IsSeq(w) /\ \A i \in DOMAIN w : IsStored(w[i])
  /\ \A i, j \in DOMAIN w : w[i].sequence = w[j].sequence => i = j

\* Functions on 1..n are sequences.
LEMMA IndexedSeq ==
  ASSUME NEW n \in Nat, NEW y, y = [k \in 1..n |-> y[k]]
  PROVE  IsSeq(y) /\ Len(y) = n /\ DOMAIN y = 1..n
  <1>1. DOMAIN y = 1..n
    OBVIOUS
  <1>2. PICK T : T = Range(y)
    OBVIOUS
  <1>3. \A k \in 1..n : y[k] \in T
    BY <1>1, <1>2 DEF Range
  <1>4. y \in [1..n -> T]
    BY <1>3
  <1>5. y \in Seq(T) /\ Len(y) = n
    BY <1>4
  <1> QED
    BY <1>1, <1>2, <1>5 DEF IsSeq

\* A list of records with different numbers.
Listed(n, y) ==
  /\ y = [k \in 1..n |-> y[k]] /\ \A k \in 1..n : IsStored(y[k])
  /\ \A k, l \in 1..n : y[k].sequence = y[l].sequence => k = l

\* They are rows.
LEMMA RowsFrom ==
  ASSUME NEW n \in Nat, NEW y, Listed(n, y)
  PROVE  Rows(y)
  <1>1. y = [k \in 1..n |-> y[k]]
    BY DEF Listed
  <1>2. IsSeq(y) /\ DOMAIN y = 1..n
    BY <1>1, IndexedSeq
  <1> QED
    BY <1>2 DEF Rows, Listed

\* A changed record is a record, of the same number.
LEMMA ChangedFacts ==
  ASSUME NEW s, NEW x, IsStored(x), NEW z \in Changed(s, x)
  PROVE  IsStored(z) /\ z.sequence = x.sequence
  <1>1. PICK h : h = Hash(x.previous, s, x.sequence, Forged, x.at)
    OBVIOUS
  <1>2. IsSeq(h)
    <2>1. PICK p, y : p = x.previous /\ y = <<s, x.sequence, Forged, x.at>>
      OBVIOUS
    <2>2. IsSeq(p) /\ h = Append(p, y)
      BY <1>1, <2>1 DEF IsStored, Hash
    <2> QED
      BY <2>2, AppendFacts DEF IsSeq
  <1>3. PICK id : id = <<"forged", tampers>>
    OBVIOUS
  <1>4. \/ z = [x EXCEPT !.id = id] \/ z = [x EXCEPT !.data = Forged]
        \/ z = [x EXCEPT !.data = Forged, !.hash = h]
    BY <1>1, <1>3 DEF Changed
  <1> QED
    BY <1>2, <1>4 DEF IsStored, IsRecord

\* A record is changed.
LEMMA ChangeRows ==
  ASSUME NEW s, NEW w, Rows(w), NEW i \in DOMAIN w, NEW z \in Changed(s, w[i]), NEW y,
         y = [w EXCEPT ![i] = z]
  PROVE  Rows(y)
  <1>1. PICK n : n = Len(w)
    OBVIOUS
  <1>2. n \in Nat /\ DOMAIN w = 1..n
    BY <1>1, GrowsSelf DEF Rows
  <1>3. y = [k \in 1..n |-> y[k]] /\ y[i] = z /\ \A k \in 1..n \ {i} : y[k] = w[k]
    BY <1>2
  <1>4. IsStored(z) /\ z.sequence = w[i].sequence
    BY ChangedFacts DEF Rows
  <1>5. \A k \in 1..n : IsStored(y[k]) /\ y[k].sequence = w[k].sequence
    BY <1>2, <1>3, <1>4 DEF Rows
  <1>6. \A k, l \in 1..n : y[k].sequence = y[l].sequence => k = l
    BY <1>2, <1>5 DEF Rows
  <1>7. Listed(n, y)
    BY <1>3, <1>5, <1>6 DEF Listed
  <1> QED
    BY <1>2, <1>7, RowsFrom

\* A record is removed.
LEMMA RemoveRows ==
  ASSUME NEW w, Rows(w), NEW i \in DOMAIN w, NEW y, y = RemoveAt(w, i)
  PROVE  Rows(y)
  <1>1. PICK n, T, a, b : n = Len(w) /\ T = Range(w) /\ a = SubSeq(w, 1, i - 1) /\ b = SubSeq(w, i + 1, n)
    OBVIOUS
  <1>2. n \in Nat /\ DOMAIN w = 1..n /\ i \in 1..n /\ \A k \in 1..n : w[k] \in T
    BY <1>1, GrowsSelf DEF Rows, Range
  <1>3. a \in Seq(T) /\ Len(a) = i - 1 /\ \A k \in 1..(i - 1) : a[k] = w[k]
    <2>1. i - 1 \in Nat /\ \A k \in 1..(i - 1) : w[k] \in T /\ 1 + k - 1 = k
      BY <1>2
    <2>2. /\ a \in Seq(T) /\ Len(a) = (IF 1 <= i - 1 THEN (i - 1) - 1 + 1 ELSE 0)
          /\ \A k \in 1..((i - 1) - 1 + 1) : a[k] = w[1 + k - 1]
      BY <1>1, <2>1, SubSeqProperties
    <2> QED
      BY <1>2, <2>1, <2>2
  <1>4. b \in Seq(T) /\ Len(b) = n - i /\ \A k \in 1..(n - i) : b[k] = w[i + k]
    <2>1. i + 1 \in Int /\ n \in Int /\ \A k \in (i + 1)..n : w[k] \in T
      BY <1>2
    <2>2. /\ b \in Seq(T) /\ Len(b) = (IF i + 1 <= n THEN n - (i + 1) + 1 ELSE 0)
          /\ \A k \in 1..(n - (i + 1) + 1) : b[k] = w[(i + 1) + k - 1]
      BY <1>1, <2>1, SubSeqProperties
    <2>3. n - (i + 1) + 1 = n - i /\ \A k \in 1..(n - i) : (i + 1) + k - 1 = i + k
      BY <1>2
    <2>4. (IF i + 1 <= n THEN n - (i + 1) + 1 ELSE 0) = n - i
      BY <1>2
    <2> QED
      BY <2>2, <2>3, <2>4
  <1>5. y = a \o b
    BY <1>1 DEF RemoveAt
  <1>6. /\ y \in Seq(T) /\ Len(y) = (i - 1) + (n - i)
        /\ \A k \in 1..((i - 1) + (n - i)) : y[k] = IF k <= i - 1 THEN a[k] ELSE b[k - (i - 1)]
    BY <1>3, <1>4, <1>5, ConcatProperties
  <1>7. (i - 1) + (n - i) = n - 1 /\ n - 1 \in Nat
    BY <1>2
  <1>8. PICK m : m = n - 1
    OBVIOUS
  <1>9. y = [k \in 1..m |-> y[k]]
    BY <1>6, <1>7, <1>8
  <1>10. ASSUME NEW k \in 1..m
         PROVE  /\ k < i => y[k] = w[k] /\ k \in 1..n
                /\ ~(k < i) => y[k] = w[k + 1] /\ k + 1 \in 1..n
    <2>1. y[k] = IF k <= i - 1 THEN a[k] ELSE b[k - (i - 1)]
      BY <1>6, <1>7, <1>8
    <2>2. CASE k < i
      <3>1. k <= i - 1 /\ k \in 1..(i - 1) /\ k \in 1..n
        BY <1>2, <1>8, <2>2
      <3> QED
        BY <1>3, <2>1, <2>2, <3>1
    <2>3. CASE ~(k < i)
      <3>1. ~(k <= i - 1) /\ k - (i - 1) \in 1..(n - i) /\ i + (k - (i - 1)) = k + 1 /\ k + 1 \in 1..n
        BY <1>2, <1>8, <2>3
      <3> QED
        BY <1>4, <2>1, <2>3, <3>1
    <2> QED
      BY <2>2, <2>3
  <1>11. \A k \in 1..m : \E l \in DOMAIN w : y[k] = w[l]
    BY <1>2, <1>10
  <1>12. ASSUME NEW k \in 1..m, NEW l \in 1..m, y[k].sequence = y[l].sequence PROVE k = l
    <2>1. PICK p, q : p = (IF k < i THEN k ELSE k + 1) /\ q = (IF l < i THEN l ELSE l + 1)
      OBVIOUS
    <2>2. p \in 1..n /\ q \in 1..n /\ y[k] = w[p] /\ y[l] = w[q]
      BY <1>10, <2>1
    <2>3. p = q
      BY <1>2, <1>12, <2>2 DEF Rows
    <2> QED
      BY <1>2, <1>8, <2>1, <2>3
  <1>13. \A k \in 1..m : IsStored(y[k])
    BY <1>11 DEF Rows
  <1>14. Listed(m, y)
    BY <1>9, <1>12, <1>13 DEF Listed
  <1> QED
    BY <1>7, <1>8, <1>14, RowsFrom

\* Two records swap their numbers.
LEMMA SwapRows ==
  ASSUME NEW w, Rows(w), NEW i \in DOMAIN w, NEW j \in DOMAIN w \ {i}, NEW y,
         y = [w EXCEPT ![i].sequence = w[j].sequence, ![j].sequence = w[i].sequence]
  PROVE  Rows(y)
  <1>1. PICK n, x, z : /\ n = Len(w) /\ x = [w[i] EXCEPT !.sequence = w[j].sequence]
                       /\ z = [w[j] EXCEPT !.sequence = w[i].sequence]
    OBVIOUS
  <1>2. n \in Nat /\ DOMAIN w = 1..n
    BY <1>1, GrowsSelf DEF Rows
  <1>3. y = [[w EXCEPT ![i] = x] EXCEPT ![j] = z]
    BY <1>1
  <1>4. y = [k \in 1..n |-> y[k]] /\ y[i] = x /\ y[j] = z /\ \A k \in 1..n \ {i, j} : y[k] = w[k]
    BY <1>2, <1>3
  <1>5. IsStored(w[i]) /\ IsStored(w[j])
    BY DEF Rows
  <1>6. /\ IsStored(x) /\ x.sequence = w[j].sequence
        /\ IsStored(z) /\ z.sequence = w[i].sequence
    BY <1>1, <1>5 DEF IsStored, IsRecord
  <1>7. \A k \in 1..n : /\ IsStored(y[k])
                        /\ y[k].sequence = w[IF k = i THEN j ELSE IF k = j THEN i ELSE k].sequence
    BY <1>2, <1>4, <1>6 DEF Rows
  <1>8. ASSUME NEW k \in 1..n, NEW l \in 1..n, y[k].sequence = y[l].sequence PROVE k = l
    <2>1. PICK p, q : /\ p = (IF k = i THEN j ELSE IF k = j THEN i ELSE k)
                      /\ q = (IF l = i THEN j ELSE IF l = j THEN i ELSE l)
      OBVIOUS
    <2>2. p \in DOMAIN w /\ q \in DOMAIN w /\ w[p].sequence = w[q].sequence
      BY <1>2, <1>7, <1>8, <2>1
    <2>3. p = q
      BY <2>2 DEF Rows
    <2> QED
      BY <2>1, <2>3
  <1>9. Listed(n, y)
    BY <1>4, <1>7, <1>8 DEF Listed
  <1> QED
    BY <1>2, <1>9, RowsFrom

\* Records are changed behind the back of the service.
LEMMA TamperStep ==
  ASSUME AuditInv, NEW s \in Streams, Tamper(s)
  PROVE  AuditInv'
  <1>1. UNCHANGED <<head, genuine, locked, pc, event, check, reply>> /\ tampers' = tampers + 1
    BY DEF Tamper
  <1>2. tampers' \in Nat /\ tampers' # 0
    BY <1>1 DEF AuditInv, AuditTypes
  <1>3. PICK w, y : w = records[s] /\ y = records'[s]
    OBVIOUS
  <1>4. Rows(w) /\ DOMAIN records = Streams
    BY <1>3 DEF AuditInv, AuditTypes, RecordsOK, Rows
  <1>5. /\ DOMAIN records' = Streams /\ \A t \in Streams \ {s} : records'[t] = records[t]
        /\ \E i \in DOMAIN w :
             \/ \E x \in Changed(s, w[i]) : y = [w EXCEPT ![i] = x]
             \/ y = RemoveAt(w, i)
             \/ \E j \in DOMAIN w \ {i} :
                  y = [w EXCEPT ![i].sequence = w[j].sequence, ![j].sequence = w[i].sequence]
    BY <1>3, <1>4 DEF Tamper
  <1>6. Rows(y)
    BY <1>4, <1>5, ChangeRows, RemoveRows, SwapRows
  <1>7. AuditTypes'
    BY <1>1, <1>2, <1>3, <1>5, <1>6 DEF AuditInv, AuditTypes, Rows
  <1>8. LocksOK' /\ IdsOnce'
    BY <1>1, <1>2 DEF AuditInv, LocksOK, IdsOnce
  <1>9. ASSUME NEW t \in Streams PROVE GenuineOK(t, genuine[t], head[t])' /\ RecordsOK(t)'
    <2>1. GenuineOK(t, genuine[t], head[t]) /\ RecordsOK(t)
      BY DEF AuditInv
    <2>2. RecordsOK(t)'
      <3>1. CASE t = s
        BY <1>1, <1>2, <1>3, <1>6, <3>1 DEF RecordsOK, Rows
      <3>2. CASE t # s
        BY <1>1, <1>2, <1>5, <2>1, <3>2 DEF RecordsOK
      <3> QED
        BY <3>1, <3>2
    <2> QED
      BY <1>1, <2>1, <2>2
  <1>10. \A r \in Request : ReplyOK(r)'
    <2>1. Growth
      BY <1>1, <1>2, GrowsSelf DEF AuditInv, AuditTypes, Growth
    <2> QED
      BY <1>1, <2>1, OthersTold
  <1> QED
    BY <1>7, <1>8, <1>9, <1>10 DEF AuditInv

\* The audit chain starts empty.
LEMMA AuditInitially == Init => AuditInv
  <1> SUFFICES ASSUME Init PROVE AuditInv
    OBVIOUS
  <1>1. AuditTypes
    <2>1. IsHead(NoHead) /\ IsCheck(NoCheck) /\ IsSeq(<<>>)
      BY GenesisSeq DEF IsHead, NoHead, IsCheck, NoCheck, Genesis
    <2>2. NoEvent.stream \in Streams /\ NoCheck.stream \in Streams
      BY DEF NoEvent, NoCheck, Streams
    <2> QED
      BY <2>1, <2>2 DEF Init, AuditTypes, ALabels
  <1>2. LocksOK /\ IdsOnce
    BY DEF Init, LocksOK, IdsOnce
  <1>3. ASSUME NEW s \in Streams PROVE GenuineOK(s, genuine[s], head[s]) /\ RecordsOK(s)
    <2>1. genuine[s] = <<>> /\ records[s] = <<>> /\ head[s] = NoHead
      BY DEF Init
    <2>2. GenuineOK(s, <<>>, NoHead)
      BY DEF GenuineOK, NoHead, HashAt
    <2> QED
      BY <2>1, <2>2 DEF RecordsOK
  <1>4. ASSUME NEW r \in Request PROVE ReplyOK(r)
    <2>1. check[r] = NoCheck /\ reply[r] = "none" /\ pc[r] = "idle"
      BY DEF Init
    <2>2. NoCheck.head = NoHead /\ NoCheck.stream = Operators /\ NoHead.sequence = 0 /\ NoHead.hash = Genesis
      BY DEF NoCheck, NoHead
    <2>3. genuine[Operators] = <<>>
      BY DEF Init, Streams
    <2>4. ReadOK(r)
      BY <2>1, <2>2, <2>3 DEF ReadOK, HashAt
    <2> QED
      BY <2>1, <2>4 DEF ReplyOK, ToldOK
  <1> QED
    BY <1>1, <1>2, <1>3, <1>4 DEF AuditInv

\* Every step of the Admin service and every one behind its back keeps it.
LEMMA AuditStep ==
  ASSUME AuditInv,
         \/ \E r \in Request : Step(r) \/ Receive(r)
         \/ \E r \in Request : \E e : e.stream \in Streams /\ ReceiveAppend(r, e)
         \/ \E s \in Stream : Tamper(s)
         \/ UNCHANGED vars
  PROVE  AuditInv'
  <1>1. ASSUME NEW r \in Request, Step(r) PROVE AuditInv'
    BY <1>1, ResolveSteps, LockHeadStep, FindExistingStep, InsertStep, InsertConflictStep, HeadSteps,
       ReadRecordsStep DEF Step
  <1>2. ASSUME NEW r \in Request, Receive(r) PROVE AuditInv'
    BY <1>2, ReceiveAppendStep, HeadSteps, EventAssumption DEF Receive
  <1>3. ASSUME NEW s \in Stream, Tamper(s) PROVE AuditInv'
    BY <1>3, TamperStep DEF Streams
  <1>4. ASSUME UNCHANGED vars PROVE AuditInv'
    <2>1. UNCHANGED <<records, head, locked, pc, event, check, reply, genuine, tampers>>
      BY <1>4 DEF vars
    <2>2. AuditTypes' /\ LocksOK' /\ IdsOnce'
      BY <2>1 DEF AuditInv, AuditTypes, LocksOK, IdsOnce
    <2>3. \A s \in Streams : GenuineOK(s, genuine[s], head[s])' /\ RecordsOK(s)'
      BY <2>1 DEF AuditInv, RecordsOK
    <2>4. \A r \in Request : ReplyOK(r)'
      BY <2>1 DEF AuditInv, ReplyOK, ReadOK, ToldOK, Stored, StoredIn, Held
    <2> QED
      BY <2>2, <2>3, <2>4 DEF AuditInv
  <1> QED
    BY <1>1, <1>2, <1>3, <1>4, ReceiveAppendStep

\* The invariant of the audit chain, as the Account service and others use it.
LEMMA AuditInductive == AuditedSpec => []AuditInv
  <1>1. AuditedInit => AuditInv
    BY AuditInitially DEF AuditedInit
  <1>2. IdentityInv /\ AuditInv /\ [AuditedNext]_<<vars, identityVars>> => AuditInv'
    <2> SUFFICES ASSUME IdentityInv, AuditInv, [AuditedNext]_<<vars, identityVars>> PROVE AuditInv'
      OBVIOUS
    <2>1. ASSUME NEW r \in Caller, Arrive(r) PROVE AuditInv'
      <3>1. identityPc[r] = "audit" \/ identityReply[r] = "AUDIT_UNAVAILABLE"
        BY <2>1 DEF Arrive
      <3>2. identityPc[r] # "idle" /\ cmd[r].op = "update"
        BY <3>1 DEF IdentityInv, RequestOK
      <3>3. cmd[r].user \in User
        BY <3>2, HasUser DEF IdentityInv
      <3>4. r \in Request /\ cmd[r].user \in Streams
        BY <3>3, CallerAssumption DEF Streams
      <3>5. PICK e : e = IdentityEvent(r)
        OBVIOUS
      <3>6. e.stream \in Streams /\ ReceiveAppend(r, e)
        BY <2>1, <3>4, <3>5 DEF Arrive, IdentityEvent
      <3> QED
        BY <3>4, <3>6, AuditStep
    <2>2. ASSUME NEW r \in Caller, Answered(r) \/ TimesOut(r) PROVE UNCHANGED vars
      BY <2>2 DEF Answered, TimesOut
    <2> QED
      BY <2>1, <2>2, AuditStep DEF AuditedNext, AllDone
  <1> QED
    BY <1>1, <1>2, ImplementsIdentity, IdentityInductive, PTL DEF AuditedSpec

\* Whatever appends race, every stream is one unbroken chain from the genesis hash
\* to its head as long as nobody tampers with it, and no append dies of a sequence
\* number that another one took.
THEOREM ChainIntactTheorem == AuditedSpec => []ChainIntact
  <1>1. ASSUME AuditInv, tampers = 0, NEW s \in Streams PROVE Valid(s, head[s], records[s])
    <2>1. PICK g, h, n : g = genuine[s] /\ h = head[s] /\ n = Len(g)
      OBVIOUS
    <2>2. records[s] = g /\ GenuineOK(s, g, h) /\ IsSeq(g)
      BY <1>1, <2>1 DEF AuditInv, AuditTypes, RecordsOK
    <2>3. n \in Nat /\ DOMAIN g = 1..n
      BY <2>1, <2>2, GrowsSelf
    <2>4. ASSUME NEW i \in 1..n PROVE Links(s, g, i)
      <3>1. /\ g[i].sequence = i /\ g[i].previous = HashAt(g, i - 1)
            /\ g[i].hash = Hash(HashAt(g, i - 1), s, i, g[i].data, g[i].at)
        BY <2>1, <2>2 DEF GenuineOK
      <3>2. HashAt(g, i - 1) = IF i = 1 THEN Genesis ELSE g[i - 1].hash
        BY <2>3 DEF HashAt
      <3> QED
        BY <3>1, <3>2 DEF Links
    <2>5. HeadMatches(h, g)
      <3>1. h.sequence = n /\ h.hash = HashAt(g, n)
        BY <2>1, <2>2 DEF GenuineOK
      <3>2. g = <<>> <=> n = 0
        BY <2>1, <2>2, <2>3, EmptySeq DEF IsSeq
      <3> QED
        BY <2>1, <3>1, <3>2 DEF HeadMatches, HashAt, Last
    <2> QED
      BY <2>1, <2>2, <2>3, <2>4, <2>5 DEF Valid
  <1>2. AuditInv => ChainIntact
    BY <1>1 DEF ChainIntact, AuditInv, ReplyOK, ToldOK
  <1> QED
    BY <1>2, AuditInductive, PTL

\* As long as nobody tampers, an event is in the trail at most once, and whoever is
\* told that it was recorded finds what it sent.
THEOREM RecordedOnceTheorem == AuditedSpec => []RecordedOnce
  <1>1. AuditInv => RecordedOnce
    <2> SUFFICES ASSUME AuditInv, tampers = 0
                 PROVE  /\ \A s, t \in Streams : \A i \in DOMAIN records[s], j \in DOMAIN records[t] :
                             records[s][i].id = records[t][j].id => s = t /\ i = j
                        /\ \A r \in Request : reply[r] = "RECORDED" =>
                             Held(event[r].stream, event[r].id, event[r].data)
      BY DEF RecordedOnce, Held
    <2>1. IdsOnce /\ \A r \in Request : ToldOK(r)
      BY DEF AuditInv, ReplyOK
    <2> QED
      BY <2>1 DEF IdsOnce, ToldOK
  <1> QED
    BY <1>1, AuditInductive, PTL

\* A verification that reports a valid chain has read every record up to the head, in
\* order and, its event id aside, as it was appended, however the stored records were
\* changed, removed or swapped.
THEOREM ValidMeansGenuineTheorem == AuditedSpec => []ValidMeansGenuine
  <1>1. ASSUME AuditInv, NEW r \in Request, reply[r] = "VALID"
        PROVE  WithoutIds(check[r].read) = WithoutIds(AppendedUpTo(r))
    <2>1. PICK g, n, x, y : /\ g = genuine[check[r].stream] /\ n = check[r].head.sequence
                            /\ x = check[r].read /\ y = AppendedUpTo(r)
      OBVIOUS
    <2>2. IsSeq(g) /\ n \in 0..Len(g) /\ Agrees(g, n, x)
      BY <1>1, <2>1 DEF AuditInv, AuditTypes, ReplyOK, ReadOK
    <2>3. Len(g) \in Nat /\ DOMAIN g = 1..Len(g)
      BY <2>2, GrowsSelf
    <2>4. y = [i \in 1..n |-> g[i]]
      BY <2>1, <2>2, <2>3 DEF AppendedUpTo
    <2>5. DOMAIN x = 1..n /\ DOMAIN y = 1..n
      BY <2>2, <2>4 DEF Agrees
    <2>6. ASSUME NEW i \in 1..n PROVE [x[i] EXCEPT !.id = <<>>] = [y[i] EXCEPT !.id = <<>>]
      <3>1. PICK a, b : a = x[i] /\ b = y[i]
        OBVIOUS
      <3>2. /\ IsRecord(a) /\ IsRecord(b) /\ a.sequence = b.sequence /\ a.data = b.data
            /\ a.at = b.at /\ a.previous = b.previous /\ a.hash = b.hash
        BY <2>2, <2>4, <3>1 DEF Agrees
      <3> QED
        BY <3>1, <3>2 DEF IsRecord
    <2> QED
      BY <2>1, <2>5, <2>6 DEF WithoutIds
  <1>2. AuditInv => ValidMeansGenuine
    BY <1>1 DEF ValidMeansGenuine
  <1> QED
    BY <1>2, AuditInductive, PTL

-----------------------------------------------------------------------------
(* Identities and the audit chain together *)

\* The event of an update is on its way or answered, and the client is told so.
CallerOK(r) ==
  /\ pc[r] \notin {"readHead", "readRecords"}
  /\ pc[r] # "idle" => event[r] = IdentityEvent(r) /\ identityPc[r] \in {"audit", "done"}
  /\ IF pc[r] = "done" THEN reply[r] \in {"RECORDED", "AUDIT_EVENT_ID_REUSED", "INTERNAL_SERVER_ERROR"}
     ELSE reply[r] = "none"
  /\ cmd[r].op = "update" /\ identityReply[r] = "OK" => pc[r] = "done" /\ reply[r] = "RECORDED"
  /\ identityReply[r] = "AUDIT_UNAVAILABLE" => faults # 0 \/ pc[r] = "done"

CallersOK == \A r \in Caller : CallerOK(r)

\* The call of q stays as it is.
SameCall(q) == pc'[q] = pc[q] /\ event'[q] = event[q] /\ reply'[q] = reply[q]

\* The request q of the Account service stays as it is.
SameRequest(q) ==
  /\ identityPc'[q] = identityPc[q] /\ cmd'[q] = cmd[q] /\ seen'[q] = seen[q]
  /\ identityReply'[q] = identityReply[q]

\* Whoever does not move stays right.
LEMMA CallerKept ==
  ASSUME NEW q \in Caller, CallerOK(q), SameCall(q), SameRequest(q), faults # 0 => faults' # 0
  PROVE  CallerOK(q)'
  BY DEF CallerOK, SameCall, SameRequest, IdentityEvent, I!normalizeIdentity

\* A step of the Account service alone: its request has no event yet, and an update
\* is not answered.
LEMMA AloneFacts ==
  ASSUME IdentityInv, NEW r \in Caller, I!Step(r) \/ \E c \in Command : I!Receive(r, c)
  PROVE  /\ identityPc[r] \notin {"audit", "done"} /\ faults' = faults
         /\ \A q \in Caller \ {r} : SameRequest(q)
         /\ identityReply'[r] # "AUDIT_UNAVAILABLE"
         /\ identityReply'[r] = "OK" => cmd'[r].op # "update"
  <1>1. RequestOK(r) /\ IdentityTypes
    BY DEF IdentityInv
  <1>2. ASSUME NEW c \in Command, I!Receive(r, c)
        PROVE  /\ identityPc[r] = "idle" /\ faults' = faults /\ identityReply'[r] = "none"
               /\ \A q \in Caller \ {r} : SameRequest(q)
    BY <1>1, <1>2 DEF I!Receive, I!Go, RequestOK, IdentityTypes, SameRequest
  <1>3. CASE I!FindUser(r) \/ I!FindWinner(r)
    <2>1. /\ identityPc[r] \in {"find", "winner"} /\ faults' = faults /\ cmd' = cmd
          /\ identityReply[r] = "none" /\ seen' = [seen EXCEPT ![r] = users[cmd[r].user]]
      BY <1>1, <1>3 DEF I!FindUser, I!FindWinner, I!See, RequestOK
    <2>2. /\ \A q \in Caller \ {r} : identityPc'[q] = identityPc[q] /\ identityReply'[q] = identityReply[q]
          /\ identityReply'[r] = "none" \/ (identityReply'[r] = "OK" /\ cmd[r].op # "update")
      BY <1>1, <1>3, <2>1, AfterUserFacts DEF I!FindUser, I!FindWinner, I!Go, IdentityTypes
    <2> QED
      BY <1>1, <2>1, <2>2 DEF SameRequest, IdentityTypes
  <1>4. CASE I!Backfill(r) \/ I!CreateUser(r)
    <2>1. /\ identityPc[r] \in {"backfill", "create"} /\ faults' = faults /\ cmd' = cmd
          /\ identityReply[r] = "none"
      BY <1>1, <1>4 DEF I!Backfill, I!CreateUser, RequestOK
    <2>2. /\ \A q \in Caller \ {r} : identityPc'[q] = identityPc[q] /\ identityReply'[q] = identityReply[q]
          /\ identityReply'[r] = "none" \/ (identityReply'[r] = "OK" /\ cmd[r].op # "update")
      BY <1>1, <1>4, <2>1, AfterUserFacts DEF I!Backfill, I!CreateUser, I!Go, IdentityTypes
    <2>3. \A q \in Caller \ {r} : seen'[q] = seen[q]
      BY <1>1, <1>4 DEF I!Backfill, I!CreateUser, I!Store, I!See, IdentityTypes
    <2> QED
      BY <2>1, <2>2, <2>3 DEF SameRequest
  <1>5. CASE I!Update(r)
    <2>1. /\ identityPc[r] = "update" /\ faults' = faults /\ cmd' = cmd /\ identityReply[r] = "none"
      BY <1>1, <1>5 DEF I!Update, RequestOK
    <2>2. /\ \A q \in Caller \ {r} : identityPc'[q] = identityPc[q] /\ identityReply'[q] = identityReply[q]
          /\ identityReply'[r] \in {"none", "IDENTITY_DECRYPTION_FAILED", "EMAIL_ALREADY_EXISTS"}
      BY <1>1, <1>5, <2>1 DEF I!Update, I!Answer, I!Go, IdentityTypes
    <2>3. \A q \in Caller \ {r} : seen'[q] = seen[q]
      BY <1>1, <1>5 DEF I!Update, I!Store, I!See, IdentityTypes
    <2> QED
      BY <2>1, <2>2, <2>3 DEF SameRequest
  <1>6. CASE I!Get(r)
    <2>1. /\ identityPc[r] = "get" /\ faults' = faults /\ UNCHANGED <<cmd, seen>> /\ cmd[r].op = "get"
      BY <1>1, <1>6 DEF I!Get, RequestOK
    <2>2. PICK answer : /\ answer \in {"USER_IDENTITY_NOT_FOUND", "OK", "IDENTITY_DECRYPTION_FAILED"}
                        /\ I!Answer(r, answer)
      BY <1>6 DEF I!Get
    <2> QED
      BY <1>1, <2>1, <2>2 DEF I!Answer, I!Go, SameRequest, IdentityTypes
  <1>7. CASE I!Lookup(r)
    <2>1. /\ identityPc[r] = "lookup" /\ faults' = faults /\ cmd' = cmd /\ cmd[r].op = "lookup"
      BY <1>1, <1>7 DEF I!Lookup, RequestOK
    <2>2. PICK answer : answer \in {"USER_IDENTITY_NOT_FOUND", "OK"} /\ I!Answer(r, answer)
      BY <1>7 DEF I!Lookup
    <2>3. \A q \in Caller \ {r} : seen'[q] = seen[q]
      BY <1>1, <1>7 DEF I!Lookup, I!See, IdentityTypes
    <2> QED
      BY <1>1, <2>1, <2>2, <2>3 DEF I!Answer, I!Go, SameRequest, IdentityTypes
  <1> QED
    BY <1>2, <1>3, <1>4, <1>5, <1>6, <1>7 DEF I!Step

\* A step of an append.
LEMMA AppendStepFacts ==
  ASSUME AuditTypes, NEW r \in Request, Step(r)
  PROVE  /\ pc[r] \notin {"idle", "done"} /\ \A q \in Request \ {r} : SameCall(q)
         /\ pc[r] \notin {"readHead", "readRecords"} =>
              /\ event'[r] = event[r] /\ pc'[r] \notin {"idle", "readHead", "readRecords"}
              /\ \/ pc'[r] # "done" /\ reply'[r] = reply[r]
                 \/ /\ pc'[r] = "done"
                    /\ reply'[r] \in {"RECORDED", "AUDIT_EVENT_ID_REUSED", "INTERNAL_SERVER_ERROR"}
                       \/ reply[r] # "none"
  <1>1. ASSUME Resolve(r)
        PROVE  /\ pc' = [pc EXCEPT ![r] = "done"] /\ \A q \in Request \ {r} : reply'[q] = reply[q]
               /\ reply'[r] \in {"RECORDED", "AUDIT_EVENT_ID_REUSED"} \/ reply[r] # "none"
    BY <1>1 DEF Resolve, Answer, Go, AuditTypes
  <1>2. CASE FindPrior(r)
    BY <1>1, <1>2 DEF FindPrior, Go, SameCall, AuditTypes
  <1>3. CASE LockHead(r) \/ InsertConflict(r)
    BY <1>3 DEF LockHead, InsertConflict, Go, SameCall, AuditTypes
  <1>4. CASE FindExisting(r)
    BY <1>1, <1>4 DEF FindExisting, Go, SameCall, AuditTypes
  <1>5. CASE Insert(r)
    BY <1>5 DEF Insert, Go, SameCall, AuditTypes
  <1>6. CASE ResolveConflict(r)
    BY <1>1, <1>6 DEF ResolveConflict, Answer, Go, SameCall, AuditTypes
  <1>7. CASE ReadHead(r)
    BY <1>7 DEF ReadHead, Answer, Go, SameCall, AuditTypes
  <1>8. CASE ReadRecords(r)
    <2>1. /\ pc[r] = "readRecords" /\ pc' = [pc EXCEPT ![r] = "prior"]
          /\ \A q \in Request \ {r} : event'[q] = event[q] /\ reply'[q] = reply[q]
      BY <1>8 DEF ReadRecords, Go, AuditTypes
    <2> QED
      BY <2>1 DEF SameCall, AuditTypes
  <1> QED
    BY <1>2, <1>3, <1>4, <1>5, <1>6, <1>7, <1>8 DEF Step

\* The callers' invariant, next to the ones of the two services.
LEMMA CallersInductive == AuditedSpec => []CallersOK
  <1>1. AuditedInit => CallersOK
    BY CallerAssumption DEF AuditedInit, Init, I!Init, CallersOK, CallerOK, I!NoCommand
  <1>2. IdentityInv /\ AuditInv /\ CallersOK /\ [AuditedNext]_<<vars, identityVars>> => CallersOK'
    <2> SUFFICES ASSUME IdentityInv, AuditInv, CallersOK, [AuditedNext]_<<vars, identityVars>>
                 PROVE  CallersOK'
      OBVIOUS
    <2>1. IdentityTypes /\ AuditTypes /\ faults \in Nat /\ \A q \in Caller : q \in Request /\ CallerOK(q)
      BY CallerAssumption DEF IdentityInv, AuditInv, IdentityTypes, CallersOK
    <2>2. UNCHANGED vars => \A q \in Caller : SameCall(q)
      BY DEF vars, SameCall
    <2>3. UNCHANGED identityVars => faults' = faults /\ \A q \in Caller : SameRequest(q)
      BY DEF identityVars, SameRequest
    <2>4. ASSUME NEW r \in Caller, I!Step(r) \/ \E c \in Command : I!Receive(r, c), UNCHANGED vars
          PROVE  CallersOK'
      <3>1. /\ identityPc[r] \notin {"audit", "done"} /\ faults' = faults
            /\ \A q \in Caller \ {r} : SameRequest(q)
            /\ identityReply'[r] # "AUDIT_UNAVAILABLE"
            /\ identityReply'[r] = "OK" => cmd'[r].op # "update"
        BY <2>4, AloneFacts
      <3>2. pc[r] = "idle" /\ SameCall(r) /\ reply[r] = "none"
        BY <2>1, <2>2, <2>4, <3>1 DEF CallerOK
      <3>3. CallerOK(r)'
        BY <3>1, <3>2 DEF CallerOK, SameCall
      <3> QED
        BY <2>1, <2>2, <2>4, <3>1, <3>3, CallerKept DEF CallersOK
    <2>5. ASSUME I!Rotate \/ I!Tick, UNCHANGED vars PROVE CallersOK'
      <3>1. /\ UNCHANGED <<identityPc, cmd, seen, identityReply>>
            /\ faults' = faults \/ faults' = faults + 1
        BY <2>5 DEF I!Rotate, I!Deploy, I!StartRewrap, I!RewrapCrash, I!RewrapUser, I!Tick, I!Fault
      <3>2. faults # 0 => faults' # 0
        BY <2>1, <3>1
      <3>3. \A q \in Caller : SameRequest(q)
        BY <3>1 DEF SameRequest
      <3> QED
        BY <2>1, <2>2, <2>5, <3>2, <3>3, CallerKept DEF CallersOK
    <2>6. ASSUME NEW r \in Caller, Arrive(r) PROVE CallersOK'
      <3>1. /\ identityPc[r] = "audit" \/ identityReply[r] = "AUDIT_UNAVAILABLE"
            /\ pc[r] = "idle" /\ pc' = [pc EXCEPT ![r] = "prior"] /\ reply' = reply
            /\ event' = [event EXCEPT ![r] = IdentityEvent(r)] /\ UNCHANGED identityVars
        BY <2>6 DEF Arrive, ReceiveAppend, Go
      <3>2. identityPc[r] \in {"audit", "done"}
        BY <3>1 DEF IdentityInv, RequestOK
      <3>3. \A q \in Caller \ {r} : SameCall(q)
        BY <2>1, <3>1 DEF AuditTypes, SameCall
      <3>4. pc'[r] = "prior" /\ event'[r] = IdentityEvent(r) /\ reply'[r] = "none"
        BY <2>1, <3>1 DEF AuditTypes, CallerOK
      <3>5. IdentityEvent(r)' = IdentityEvent(r)
        BY <3>1 DEF identityVars, IdentityEvent, I!normalizeIdentity
      <3>6. CallerOK(r)'
        BY <2>1, <2>3, <3>1, <3>2, <3>4, <3>5 DEF CallerOK, SameRequest
      <3> QED
        BY <2>1, <2>3, <3>1, <3>3, <3>6, CallerKept DEF CallersOK
    <2>7. ASSUME NEW r \in Caller, Answered(r) \/ TimesOut(r) PROVE CallersOK'
      <3>1. /\ identityPc[r] = "audit" /\ identityPc' = [identityPc EXCEPT ![r] = "done"]
            /\ UNCHANGED <<cmd, seen>> /\ UNCHANGED vars
        BY <2>7 DEF Answered, TimesOut, I!Audited, I!Answer, I!Go
      <3>2. \/ /\ pc[r] = "done" /\ faults' = faults
               /\ identityReply' = [identityReply EXCEPT ![r] = IF reply[r] = "RECORDED" THEN "OK"
                                                                ELSE "AUDIT_UNAVAILABLE"]
            \/ /\ faults' = faults + 1
               /\ identityReply' = [identityReply EXCEPT ![r] = "AUDIT_UNAVAILABLE"]
        BY <2>7 DEF Answered, TimesOut, I!Audited, I!Answer, I!Fault
      <3>3. (faults # 0 => faults' # 0) /\ \A q \in Caller \ {r} : SameRequest(q)
        BY <2>1, <3>1, <3>2 DEF SameRequest, IdentityTypes
      <3>4. /\ identityPc'[r] = "done"
            /\ identityReply'[r] \in {"OK", "AUDIT_UNAVAILABLE"}
            /\ identityReply'[r] = "OK" => pc[r] = "done" /\ reply[r] = "RECORDED"
            /\ identityReply'[r] = "AUDIT_UNAVAILABLE" => faults' # 0 \/ pc[r] = "done"
        BY <2>1, <3>1, <3>2 DEF IdentityTypes
      <3>5. IdentityEvent(r)' = IdentityEvent(r)
        BY <3>1 DEF IdentityEvent, I!normalizeIdentity
      <3>6. CallerOK(r)'
        BY <2>1, <2>2, <3>1, <3>4, <3>5 DEF CallerOK, SameCall
      <3> QED
        BY <2>1, <2>2, <3>1, <3>3, <3>6, CallerKept DEF CallersOK
    <2>8. ASSUME NEW r \in Request, Step(r), UNCHANGED identityVars PROVE CallersOK'
      <3>1. \A q \in Caller \ {r} : CallerOK(q)'
        BY <2>1, <2>3, <2>8, AppendStepFacts, CallerKept
      <3>2. ASSUME r \in Caller PROVE CallerOK(r)'
        <4>1. CallerOK(r) /\ SameRequest(r) /\ faults' = faults
          BY <2>1, <2>3, <2>8, <3>2
        <4>2. /\ pc[r] \notin {"idle", "done"} /\ reply[r] = "none"
              /\ event'[r] = event[r] /\ pc'[r] \notin {"idle", "readHead", "readRecords"}
              /\ \/ pc'[r] # "done" /\ reply'[r] = reply[r]
                 \/ /\ pc'[r] = "done"
                    /\ reply'[r] \in {"RECORDED", "AUDIT_EVENT_ID_REUSED", "INTERNAL_SERVER_ERROR"}
          BY <2>1, <2>8, <4>1, AppendStepFacts DEF CallerOK
        <4>3. IdentityEvent(r)' = IdentityEvent(r)
          BY <4>1 DEF SameRequest, IdentityEvent, I!normalizeIdentity
        <4> QED
          BY <4>1, <4>2, <4>3 DEF CallerOK, SameRequest
      <3> QED
        BY <3>1, <3>2 DEF CallersOK
    <2>9. ASSUME NEW r \in Request \ Caller, Receive(r), UNCHANGED identityVars PROVE CallersOK'
      <3>1. \A q \in Request \ {r} : SameCall(q)
        BY <2>1, <2>9 DEF Receive, ReceiveAppend, ReceiveCheck, Go, SameCall, AuditTypes
      <3> QED
        BY <2>1, <2>3, <2>9, <3>1, CallerKept DEF CallersOK
    <2>10. ASSUME NEW s \in Stream, Tamper(s), UNCHANGED identityVars PROVE CallersOK'
      <3>1. \A q \in Caller : SameCall(q)
        BY <2>10 DEF Tamper, SameCall
      <3> QED
        BY <2>1, <2>3, <2>10, <3>1, CallerKept DEF CallersOK
    <2>11. ASSUME UNCHANGED <<vars, identityVars>> PROVE CallersOK'
      BY <2>1, <2>2, <2>3, <2>11, CallerKept DEF CallersOK
    <2> QED
      BY <2>4, <2>5, <2>6, <2>7, <2>8, <2>9, <2>10, <2>11 DEF AuditedNext, AllDone
  <1> QED
    BY <1>1, <1>2, ImplementsIdentity, IdentityInductive, AuditInductive, PTL DEF AuditedSpec

\* An identity change that was acknowledged is in the stream of its user; a client
\* that is told of an outage when no call was lost has an event whose id is in the
\* trail; and of two users who ask for one email, however spelled, one has it.
THEOREM UpdatesAuditedTheorem == AuditedSpec => []UpdatesAudited
  <1>1. ASSUME IdentityInv, AuditInv, CallersOK, NEW r \in Caller, cmd[r].op = "update", tampers = 0
        PROVE  /\ identityReply[r] = "OK" => StoredIn(IdentityEvent(r).stream, IdentityEvent(r).id) # {}
               /\ identityReply[r] = "AUDIT_UNAVAILABLE" /\ faults = 0 => Stored(IdentityEvent(r).id)
    <2>1. CallerOK(r) /\ ToldOK(r) /\ event[r].stream \in Streams
      BY <1>1, CallerAssumption DEF CallersOK, AuditInv, AuditTypes, ReplyOK
    <2>2. PICK e : e = IdentityEvent(r)
      OBVIOUS
    <2>3. pc[r] = "done" => /\ event[r] = e
                            /\ reply[r] \in {"RECORDED", "AUDIT_EVENT_ID_REUSED"}
                            /\ reply[r] = "RECORDED" => StoredIn(e.stream, e.id) # {} /\ Stored(e.id)
                            /\ reply[r] = "AUDIT_EVENT_ID_REUSED" => Stored(e.id)
      BY <1>1, <2>1, <2>2 DEF CallerOK, ToldOK, Held, Stored
    <2> QED
      BY <1>1, <2>1, <2>2, <2>3 DEF CallerOK
  <1>2. IdentityInv /\ AuditInv /\ CallersOK => UpdatesAudited
    BY <1>1 DEF UpdatesAudited, IdentityInv, RowsOK
  <1> QED
    BY <1>2, ImplementsIdentity, IdentityInductive, AuditInductive, CallersInductive, PTL
=============================================================================
