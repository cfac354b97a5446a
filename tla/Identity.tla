------------------------------ MODULE Identity ------------------------------
(***************************************************************************)
(* Encrypted identities in the Account service: IdentityService.ensureUser, *)
(* update, get and lookup, IdentityCryptoService, and the command rewrap,  *)
(* which moves the data keys of all users to a new key encryption key      *)
(* while the service goes on.  An audit event is sent after each update;   *)
(* module AuditedIdentity joins this module with the Admin service.        *)
(*                                                                         *)
(* Authenticated encryption is symbolic: a box opens with the key and the  *)
(* associated data it was sealed with, and with nothing else.  A key       *)
(* encryption key is named by its version, a data key by who drew it.      *)
(***************************************************************************)
EXTENDS Integers

CONSTANTS
  Request,     \* requests to the service
  User,        \* principals
  Legacy,      \* users whose row has no encrypted identity yet
  Command,     \* update, get, lookup and ensure (any wallet) requests
  OldKey,      \* the version that is active before the rotation
  NewKey,      \* the version that is active after it
  MaxTime,     \* bound on the clock, in milliseconds
  MaxFaults    \* bound on crashes and lost calls

VARIABLES
  clock,       \* the time that @updatedAt takes
  users,       \* users: boxes, key version, email digest, updated_at
  deployed,    \* no instance with the old configuration is left
  pc,          \* where each request is
  cmd,         \* what it was sent
  active,      \* the active key version of the instance it runs on
  seen,        \* the user row it has read or written
  reply,       \* what it was answered
  rewrap,      \* the command: idle, early (some instance is still old), late,
               \* and rotated once a late one has finished
  pending,     \* the rows rewrap has read and has yet to write
  raced,       \* users who were encrypted again between the two (history)
  faults       \* crashes and lost calls

rotation == <<rewrap, pending, raced>>
vars == <<clock, users, deployed, pc, cmd, active, seen, reply, rotation, faults>>

-----------------------------------------------------------------------------
(* Identities *)

\* Each field of an input has a text and a spelling (letter case, blanks, form of
\* its characters); normalizeIdentity removes the spelling.
normalizeIdentity(input) == [email |-> input.email.text, name |-> input.name.text]

\* The canonical identity that consists of nulls.
NoIdentity == [email |-> "null", name |-> "null"]

-----------------------------------------------------------------------------
(* Cryptography *)

encryptAesGcm(key, plaintext, aad) == [key |-> key, text |-> plaintext, aad |-> aad]

\* decryptAesGcm returns the text, unless authentication fails.
Opens(key, box, aad) == box.key = key /\ box.aad = aad

identityAad(u) == <<"user-identity", u>>
dekAad(u, version) == <<"user-dek", u, version>>

\* loadKeyConfiguration: the ring of every instance holds both keys while keys
\* are rotated, and so the active one.
KeyRing == {OldKey, NewKey}

\* Mutant: the first version of the ring is taken for the active one.
encryptMutant(u, identity, version, dek) ==
  [ciphertext |-> encryptAesGcm(dek, identity, identityAad(u)),
   wrapped |-> encryptAesGcm(OldKey, dek, dekAad(u, OldKey)),
   keyVersion |-> OldKey, digest |-> identity.email, at |-> clock]

\* The columns that encrypt computes with a fresh data key, and the time the row
\* takes with them; the digest of an email is as good as the email.
encrypt(u, identity, version, dek) ==
  [ciphertext |-> encryptAesGcm(dek, identity, identityAad(u)),
   wrapped |-> encryptAesGcm(version, dek, dekAad(u, version)),
   keyVersion |-> version, digest |-> identity.email, at |-> clock]

\* A legacy row has empty columns; a user without a row.
LegacyRow ==
  [ciphertext |-> encryptAesGcm(<<>>, NoIdentity, <<>>), wrapped |-> encryptAesGcm("", <<>>, <<>>),
   keyVersion |-> "", digest |-> "null", at |-> 0]
NoUser == [LegacyRow EXCEPT !.at = -1]

IsLegacy(row) == row.ciphertext = LegacyRow.ciphertext

Unwraps(u, row) ==
  row.keyVersion \in KeyRing /\ Opens(row.keyVersion, row.wrapped, dekAad(u, row.keyVersion))

\* decrypt succeeds, and what it returns.
Decrypts(u, row) ==
  \/ IsLegacy(row)
  \/ Unwraps(u, row) /\ Opens(row.wrapped.text, row.ciphertext, identityAad(u))
Plaintext(row) == row.ciphertext.text

\* Mutant: the associated data still names the old version.
rewrapDekMutant(u, row) ==
  [wrapped |-> encryptAesGcm(NewKey, row.wrapped.text, dekAad(u, row.keyVersion)), keyVersion |-> NewKey]

\* rewrapDek seals the data key of a row with the new key.
rewrapDek(u, row) ==
  [wrapped |-> encryptAesGcm(NewKey, row.wrapped.text, dekAad(u, NewKey)), keyVersion |-> NewKey]

-----------------------------------------------------------------------------
(* Requests *)

Go(r, label) == pc' = [pc EXCEPT ![r] = label]
Answer(r, code) == Go(r, "done") /\ reply' = [reply EXCEPT ![r] = code]
See(r, row) == seen' = [seen EXCEPT ![r] = row]
Fault == faults < MaxFaults /\ faults' = faults + 1

\* A statement that encrypts the user of a request again stores the whole row,
\* and returns it.
Store(r, identity, use) ==
  LET u == cmd[r].user IN
  /\ users' = [users EXCEPT ![u] = encrypt(u, identity, active[r], <<r, use>>)]
  /\ See(r, users'[u])
  /\ raced' = IF u \in DOMAIN pending THEN raced \cup {u} ELSE raced

\* Until the new configuration is everywhere, a request may meet either; only the
\* ones that may encrypt tell them apart.
Receive(r, c) ==
  /\ pc[r] = "idle"
  /\ cmd' = [cmd EXCEPT ![r] = c]
  /\ \E version \in KeyRing :
       /\ deployed \/ c.op \in {"get", "lookup"} => version = NewKey
       /\ active' = [active EXCEPT ![r] = version]
  /\ Go(r, IF c.op \in {"update", "ensure"} THEN "find" ELSE c.op)
  /\ UNCHANGED <<clock, users, deployed, seen, reply, rotation, faults>>

\* What follows ensureUser.
AfterUser(r) == IF cmd[r].op = "update" THEN Go(r, "update") /\ UNCHANGED reply ELSE Answer(r, "OK")

\* ensureUser looks for the user first.
FindUser(r) ==
  LET row == users[cmd[r].user] IN
  /\ pc[r] = "find"
  /\ See(r, row)
  /\ \/ row = NoUser /\ Go(r, "create") /\ UNCHANGED reply
     \/ row # NoUser /\ IsLegacy(row) /\ Go(r, "backfill") /\ UNCHANGED reply
     \/ ~IsLegacy(row) /\ AfterUser(r)
  /\ UNCHANGED <<clock, users, deployed, cmd, active, rotation, faults>>

\* A legacy row is encrypted, whatever has become of it.
Backfill(r) ==
  /\ pc[r] = "backfill"
  /\ Store(r, NoIdentity, "backfill")
  /\ AfterUser(r)
  /\ UNCHANGED <<clock, deployed, cmd, active, rewrap, pending, faults>>

\* Mutant: the user is upserted.
CreateUserMutant(r) ==
  /\ pc[r] = "create"
  /\ Store(r, NoIdentity, "create") /\ AfterUser(r)
  /\ UNCHANGED <<clock, deployed, cmd, active, rewrap, pending, faults>>

\* The unique index on the principal refuses a second row.
CreateUser(r) ==
  /\ pc[r] = "create"
  /\ IF users[cmd[r].user] = NoUser
     THEN Store(r, NoIdentity, "create") /\ AfterUser(r)
     ELSE Go(r, "winner") /\ UNCHANGED <<users, seen, reply, raced>>
  /\ UNCHANGED <<clock, deployed, cmd, active, rewrap, pending, faults>>

FindWinner(r) ==
  /\ pc[r] = "winner"
  /\ See(r, users[cmd[r].user])
  /\ AfterUser(r)
  /\ UNCHANGED <<clock, users, deployed, cmd, active, rotation, faults>>

\* users_email_lookup_hmac_key, over the rows that have a digest.
EmailTaken(u, email) == email # "null" /\ \E v \in User \ {u} : users[v].digest = email

\* update decrypts the row that ensureUser returned, and stores an identity that
\* differs from it.
Update(r) ==
  LET u == cmd[r].user
      identity == normalizeIdentity(cmd[r].input)
  IN
  /\ pc[r] = "update"
  /\ \/ ~Decrypts(u, seen[r]) /\ Answer(r, "IDENTITY_DECRYPTION_FAILED") /\ UNCHANGED <<users, seen, raced>>
     \/ /\ Decrypts(u, seen[r]) /\ Plaintext(seen[r]) = identity
        /\ Go(r, "audit") /\ UNCHANGED <<users, seen, raced, reply>>
     \/ /\ Decrypts(u, seen[r]) /\ Plaintext(seen[r]) # identity
        /\ IF EmailTaken(u, identity.email)
           THEN Answer(r, "EMAIL_ALREADY_EXISTS") /\ UNCHANGED <<users, seen, raced>>
           ELSE Store(r, identity, "update") /\ Go(r, "audit") /\ UNCHANGED reply
  /\ UNCHANGED <<clock, deployed, cmd, active, rewrap, pending, faults>>

\* The client of the Admin service has an answer, or none in time.  The response
\* is decrypted from the row of the update.
Audited(r, recorded) ==
  /\ pc[r] = "audit"
  /\ Answer(r, IF recorded THEN "OK" ELSE "AUDIT_UNAVAILABLE")
  /\ UNCHANGED <<clock, users, deployed, cmd, active, seen, rotation>>

Get(r) ==
  LET u == cmd[r].user IN
  /\ pc[r] = "get"
  /\ Answer(r, IF users[u] = NoUser THEN "USER_IDENTITY_NOT_FOUND"
               ELSE IF Decrypts(u, users[u]) THEN "OK" ELSE "IDENTITY_DECRYPTION_FAILED")
  /\ UNCHANGED <<clock, users, deployed, cmd, active, seen, rotation, faults>>

\* lookup compares digests and decrypts nothing.
Lookup(r) ==
  LET found == {u \in User : users[u].digest = cmd[r].email.text} IN
  /\ pc[r] = "lookup"
  /\ IF found = {} THEN Answer(r, "USER_IDENTITY_NOT_FOUND") /\ UNCHANGED seen
     ELSE \E u \in found : See(r, users[u]) /\ Answer(r, "OK")
  /\ UNCHANGED <<clock, users, deployed, cmd, active, rotation, faults>>

-----------------------------------------------------------------------------
(* Key rotation *)

\* The new configuration has reached every instance; the old ones have drained.
Deploy ==
  /\ ~deployed /\ deployed' = TRUE
  /\ \A r \in Request : pc[r] \in {"idle", "done"} \/ active[r] = NewKey
  /\ UNCHANGED <<clock, users, pc, cmd, active, seen, reply, rotation, faults>>

\* rewrap reads all users, and skips the ones without ciphertext and the ones
\* whose key is the active one; it runs with the new configuration.
StartRewrap ==
  LET Old == {u \in User : ~IsLegacy(users[u]) /\ users[u].keyVersion # NewKey} IN
  /\ rewrap = "idle"
  /\ pending' = [u \in Old |-> users[u]]
  /\ rewrap' = CASE Old # {} -> IF deployed THEN "late" ELSE "early"
                 [] OTHER -> IF deployed THEN "rotated" ELSE "idle"
  /\ UNCHANGED <<clock, users, deployed, pc, cmd, active, seen, reply, raced, faults>>

\* It writes the key columns of one row after the other, by the user's id, and
\* gives up at the first key that it cannot unwrap.
RewrapUser(u) ==
  LET key == rewrapDek(u, pending[u])
      left == [v \in DOMAIN pending \ {u} |-> pending[v]]
  IN
  /\ rewrap \in {"early", "late"} /\ u \in DOMAIN pending
  /\ IF Unwraps(u, pending[u])
     THEN /\ users' = [users EXCEPT ![u].wrapped = key.wrapped, ![u].keyVersion = key.keyVersion,
                                    ![u].at = clock]
          /\ pending' = left
          /\ rewrap' = IF DOMAIN left # {} THEN rewrap ELSE IF rewrap = "late" THEN "rotated" ELSE "idle"
     ELSE rewrap' = "idle" /\ pending' = <<>> /\ UNCHANGED users
  /\ UNCHANGED <<clock, deployed, pc, cmd, active, seen, reply, raced, faults>>

\* The command dies on the way.
RewrapCrash ==
  /\ rewrap \in {"early", "late"} /\ Fault
  /\ rewrap' = "idle" /\ pending' = <<>>
  /\ UNCHANGED <<clock, users, deployed, pc, cmd, active, seen, reply, raced>>

-----------------------------------------------------------------------------
Tick == /\ clock < MaxTime /\ clock' = clock + 1
        /\ UNCHANGED <<users, deployed, pc, cmd, active, seen, reply, rotation, faults>>

NoCommand == [op |-> "none"]

Init ==
  /\ clock = 0
  /\ users = [u \in User |-> IF u \in Legacy THEN LegacyRow ELSE NoUser]
  /\ deployed = FALSE
  /\ pc = [r \in Request |-> "idle"]
  /\ cmd = [r \in Request |-> NoCommand]
  /\ active = [r \in Request |-> OldKey]
  /\ seen = [r \in Request |-> NoUser]
  /\ reply = [r \in Request |-> "none"]
  /\ rewrap = "idle" /\ pending = <<>> /\ raced = {}
  /\ faults = 0

\* A step of the service alone, without the Admin service.
Step(r) ==
  \/ FindUser(r) \/ Backfill(r) \/ CreateUser(r) \/ FindWinner(r)
  \/ Update(r) \/ Get(r) \/ Lookup(r)

Rotate == Deploy \/ StartRewrap \/ RewrapCrash \/ \E u \in User : RewrapUser(u)

\* The Admin service may answer anything, and a call may be lost.
Next ==
  \/ \E r \in Request : Step(r) \/ \E c \in Command : Receive(r, c)
  \/ \E r \in Request, recorded \in BOOLEAN : Audited(r, recorded) /\ (UNCHANGED faults \/ Fault)
  \/ Rotate \/ Tick

Spec == Init /\ [][Next]_vars
-----------------------------------------------------------------------------
(* Properties *)

\* Whatever updates, backfills and rewraps interleave, a stored identity can be
\* decrypted under the key its row names, and its email is the one that lookups
\* find it by: unless it was encrypted again between rewrap's read of the row and
\* its write, the one race that rewrap is exposed to.
IdentitiesReadable ==
  /\ \A u \in User \ raced :
       users[u] # NoUser => Decrypts(u, users[u]) /\ users[u].digest = Plaintext(users[u]).email
  /\ \A r \in Request : reply[r] = "IDENTITY_DECRYPTION_FAILED" => cmd[r].user \in raced

\* Once a rewrap that was started after the deployment has finished, no row needs
\* the old key, however requests on old instances, crashed rewraps and new users
\* came in between; the old key may be taken off the ring.
RotationComplete ==
  rewrap = "rotated" => \A u \in User : IsLegacy(users[u]) \/ users[u].keyVersion = NewKey

\* An identity whose update was acknowledged is stored until another update of
\* the user, and a user created twice at once keeps it; a backfill of a legacy
\* row may undo it, as the backfill is unconditional.
UpdatesKept ==
  \A r \in Request : cmd[r].op = "update" /\ reply[r] = "OK" =>
    LET u == cmd[r].user
        identity == normalizeIdentity(cmd[r].input)
    IN  \/ Plaintext(users[u]) = identity
        \/ \E q \in Request \ {r} :
             /\ cmd[q].op \in {"update", "ensure"} /\ cmd[q].user = u
             /\ \/ cmd[q].op = "update" /\ normalizeIdentity(cmd[q].input) # identity
                \/ u \in Legacy

-----------------------------------------------------------------------------
(* Stronger than what the code does; the README tells how they fail *)

\* identity-crypto.service.spec.ts: a record that was re-wrapped can be decrypted.  So
\* every stored identity can be, during a rotation too.
AlwaysReadable == \A u \in User : users[u] # NoUser => Decrypts(u, users[u])

\* An acknowledged identity gives way to another update only.
BackfillKeepsUpdates ==
  \A r \in Request : cmd[r].op = "update" /\ reply[r] = "OK" =>
    \/ Plaintext(users[cmd[r].user]) = normalizeIdentity(cmd[r].input)
    \/ \E q \in Request \ {r} : cmd[q].op = "update" /\ cmd[q].user = cmd[r].user
=============================================================================
