---------------------------- MODULE AuthSession ----------------------------
(***************************************************************************)
(* Server-side sessions and refresh-token rotation: AuthSessionService     *)
(* with the requests that drive it (credentials login, Google sign-in,     *)
(* refresh, logout) and the two operations elsewhere that end sessions     *)
(* (a password reset and the deletion of a user).                          *)
(*                                                                         *)
(* Requests interleave at every await.  PostgreSQL runs these transactions *)
(* at READ COMMITTED: an UPDATE picks its rows from a snapshot taken when  *)
(* the statement starts, and a row it had to wait for is re-checked, so a  *)
(* transaction of the shape "update, then insert" is two steps here: the   *)
(* snapshot of its update, and its commit.                                 *)
(***************************************************************************)
EXTENDS Naturals, FiniteSets

CONSTANTS
  Users,      \* users.id
  Requests,   \* requests the API serves at the same time
  Sessions,   \* auth_sessions.id, numbered in order of creation: bounds their number
  Tokens,     \* refresh tokens and their hashes, numbered in order of generation: a bound
  Passwords,  \* passwords; a password stands for its Argon2 hash too
  None        \* absent

ASSUME NoneIsAbsent == None \notin Users \cup Sessions \cup Tokens \cup Passwords
ASSUME IdsAreNumbers == Sessions \subseteq Nat /\ Tokens \subseteq Nat
ASSUME RequestsAreFinite == IsFiniteSet(Requests)

VARIABLES
  user,       \* users with their CREDENTIALS account
  row,        \* auth_sessions
  req,        \* the local state of each request between two awaits
  delivered,  \* refresh tokens that reached a client in a cookie
  issued,     \* refresh tokens generated so far
  (* history, read by no guard *)
  birth,      \* how each session came about: its password, the sessions its login saw
  rotations,  \* every successful rotation
  resetSaw    \* the sessions that committed password resets saw

history == <<birth, rotations, resetSaw>>
vars    == <<user, row, req, delivered, issued, birth, rotations, resetSaw>>

Stages   == {"idle", "create", "creating", "rotate", "resetting", "answer"}
User     == [exists : BOOLEAN, verified : BOOLEAN, password : Passwords \cup {None}]
NoRow    == [status |-> "unused", owner |-> None, hash |-> None, expired |-> FALSE]
UsedRow  == [status : {"active", "revoked", "deleted"}, owner : Users, hash : Tokens,
             expired : BOOLEAN]
Row      == UsedRow \cup {NoRow}
Request  == [at : Stages, user : Users \cup {None}, password : Passwords \cup {None},
             session : Sessions \cup {None}, token : Tokens \cup {None},
             saw : SUBSET Sessions]
Birth    == [password : Passwords \cup {None}, saw : SUBSET Sessions]
Rotation == [session : Sessions, from : Tokens, to : Tokens, late : BOOLEAN]

\* Every variable has its type.
TypeOK ==
  /\ user \in [Users -> User]
  /\ row \in [Sessions -> Row]
  /\ req \in [Requests -> Request]
  /\ delivered \subseteq Tokens
  /\ issued \subseteq Tokens
  /\ birth \in [Sessions -> Birth]
  /\ rotations \subseteq Rotation
  /\ resetSaw \subseteq Sessions

Idle == [at |-> "idle", user |-> None, password |-> None, session |-> None,
         token |-> None, saw |-> {}]

\* The rows of u that "where: { userId, revokedAt: null }" selects: an expired
\* session still counts.
Active(u) == {s \in Sessions : row[s].status = "active" /\ row[s].owner = u}

\* An account starts unverified with a password (registration), or verified without one
\* (Google); either may gain the other later.
Init ==
  /\ user \in [Users -> [exists : {TRUE}, verified : {FALSE}, password : Passwords]
                        \cup [exists : {TRUE}, verified : {TRUE}, password : {None}]]
  /\ row = [s \in Sessions |-> NoRow]
  /\ req = [p \in Requests |-> Idle]
  /\ delivered = {} /\ issued = {}
  /\ birth = [s \in Sessions |-> [password |-> None, saw |-> {}]]
  /\ rotations = {}
  /\ resetSaw = {}

\* The next row id, the next random token: distinct from all before it.
NewSession(s) == row[s] = NoRow /\ \A x \in Sessions : x < s => row[x] # NoRow
NewToken(t)   == t \notin issued /\ \A x \in Tokens : x < t => x \in issued

-----------------------------------------------------------------------------
(* What the conditional updates match.  An operator named X_Y is X with a     *)
(* plausible bug; no specification uses it.                                  *)

Revoke_Nobody(seen) == row

\* updateMany({ where: { userId, revokedAt: null }, data: { revokedAt } }): of the rows
\* its snapshot selected, those that are still active when it gets to them.
Revoke(seen) ==
  [s \in Sessions |-> IF s \in seen /\ row[s].status = "active"
                      THEN [row[s] EXCEPT !.status = "revoked"] ELSE row[s]]

Finds_Expired(s, t) == row[s].hash = t /\ row[s].status = "active"

\* findUnique({ refreshTokenHash }) and the checks of refresh on the row it returns.
Finds(s, t) == row[s].hash = t /\ row[s].status = "active" /\ ~row[s].expired

Rotatable_AnyHash(s, t) == row[s].status = "active"
Rotatable_Revoked(s, t) == row[s].status \in {"active", "revoked"} /\ row[s].hash = t

\* refresh's update: where: { id, revokedAt: null, refreshTokenHash }
Rotatable(s, t) == row[s].status = "active" /\ row[s].hash = t

-----------------------------------------------------------------------------
(* Signing in.  A rejected login (401, 403) changes nothing and is no step.  *)

\* login: the user, its accounts and the password are read before Argon2 runs; the
\* session is created in a later transaction.
Login(p, u, given) ==
  /\ req[p] = Idle
  /\ user[u].exists
  /\ user[u].password # None /\ given = user[u].password
  /\ user[u].verified
  /\ req' = [req EXCEPT ![p] = [Idle EXCEPT !.at = "create", !.user = u, !.password = given]]
  /\ UNCHANGED <<user, row, delivered, issued, history>>

\* handleCallback, once the Google identity is resolved to a (verified) user.
GoogleSignIn(p, u) ==
  /\ req[p] = Idle
  /\ user[u].exists /\ user[u].verified
  /\ req' = [req EXCEPT ![p] = [Idle EXCEPT !.at = "create", !.user = u]]
  /\ UNCHANGED <<user, row, delivered, issued, history>>

\* createSession: its updateMany takes a snapshot of the user's active sessions.
BeginCreateSession(p) ==
  /\ req[p].at = "create"
  /\ LET work == [req[p] EXCEPT !.at = "creating", !.saw = Active(req[p].user)] IN
     req' = [req EXCEPT ![p] = work]
  /\ UNCHANGED <<user, row, delivered, issued, history>>

OwnerFound_Unchecked(p) == TRUE

\* The foreign key the insert has to satisfy: the user is still there.
OwnerFound(p) == user[req[p].user].exists

\* createSession: the transaction commits, revoking what it saw and inserting one
\* session with a fresh token.
CommitCreateSession(p) ==
  /\ req[p].at = "creating"
  /\ OwnerFound(p)
  /\ \E s \in Sessions, t \in Tokens :
       /\ NewSession(s) /\ NewToken(t)
       /\ row' = [Revoke(req[p].saw) EXCEPT
                    ![s] = [status |-> "active", owner |-> req[p].user, hash |-> t,
                            expired |-> FALSE]]
       /\ issued' = issued \cup {t}
       /\ birth' = [birth EXCEPT ![s] = [password |-> req[p].password, saw |-> req[p].saw]]
       /\ req' = [req EXCEPT ![p] = [Idle EXCEPT !.at = "answer", !.token = t]]
  /\ UNCHANGED <<user, delivered, rotations, resetSaw>>

\* createSession: the user is gone, the insert violates its foreign key (500).
RejectCreateSession(p) ==
  /\ req[p].at = "creating"
  /\ ~OwnerFound(p)
  /\ req' = [req EXCEPT ![p] = Idle]
  /\ UNCHANGED <<user, row, delivered, issued, history>>

-----------------------------------------------------------------------------
(* Refresh and logout.  A client may present any token it was ever given.    *)

\* refresh: the lookup; a missing, revoked or expired session is a 401.
LookupSession(p, s, t) ==
  /\ req[p] = Idle
  /\ t \in delivered
  /\ Finds(s, t)
  /\ req' = [req EXCEPT ![p] = [Idle EXCEPT !.at = "rotate", !.session = s, !.token = t]]
  /\ UNCHANGED <<user, row, delivered, issued, history>>

\* refresh: the conditional update matches its row.
Rotate(p) ==
  LET s == req[p].session  t == req[p].token IN
  /\ req[p].at = "rotate"
  /\ Rotatable(s, t)
  /\ \E new \in Tokens :
       /\ NewToken(new)
       /\ row' = [row EXCEPT ![s].hash = new]
       /\ issued' = issued \cup {new}
       /\ rotations' = rotations \cup
            {[session |-> s, from |-> t, to |-> new, late |-> row[s].expired]}
       /\ req' = [req EXCEPT ![p] = [Idle EXCEPT !.at = "answer", !.token = new]]
  /\ UNCHANGED <<user, delivered, birth, resetSaw>>

\* refresh: the conditional update matches no row (count 0, 401).
LoseRotation(p) ==
  /\ req[p].at = "rotate"
  /\ ~Rotatable(req[p].session, req[p].token)
  /\ req' = [req EXCEPT ![p] = Idle]
  /\ UNCHANGED <<user, row, delivered, issued, history>>

\* The access token is signed and the response sets the refresh cookie.
Answer(p) ==
  /\ req[p].at = "answer"
  /\ delivered' = delivered \cup {req[p].token}
  /\ req' = [req EXCEPT ![p] = Idle]
  /\ UNCHANGED <<user, row, issued, history>>

\* A request dies at any await (crash, lost connection, database error): an open
\* transaction rolls back, a committed one stays and its response is lost.
Abort(p) ==
  /\ req[p] # Idle
  /\ req' = [req EXCEPT ![p] = Idle]
  /\ UNCHANGED <<user, row, delivered, issued, history>>

\* logout: one updateMany on the hash of the presented token.
Logout(t) ==
  /\ t \in delivered
  /\ \E s \in Sessions : row[s].hash = t /\ row' = Revoke({s}) /\ row' # row
  /\ UNCHANGED <<user, req, delivered, issued, history>>

-----------------------------------------------------------------------------
(* The rest of the system, as far as sessions feel it.                       *)

\* resetPassword, up to the snapshot of its session updateMany.  It holds the row lock
\* of the CREDENTIALS account from there to its commit.
BeginReset(p, u, new) ==
  /\ req[p] = Idle
  /\ user[u].exists /\ user[u].verified
  /\ \A q \in Requests : ~(req[q].at = "resetting" /\ req[q].user = u)
  /\ req' = [req EXCEPT ![p] = [Idle EXCEPT !.at = "resetting", !.user = u,
                                            !.password = new, !.saw = Active(u)]]
  /\ UNCHANGED <<user, row, delivered, issued, history>>

CommitReset_KeepsSessions(p) ==
  /\ req[p].at = "resetting"
  /\ user' = [user EXCEPT ![req[p].user].password = req[p].password]
  /\ resetSaw' = resetSaw \cup req[p].saw
  /\ req' = [req EXCEPT ![p] = Idle]
  /\ UNCHANGED <<row, delivered, issued, birth, rotations>>

\* resetPassword commits: the new password, and the sessions it saw revoked.
CommitReset(p) ==
  LET u == req[p].user IN
  /\ req[p].at = "resetting"
  /\ user' = [user EXCEPT ![u].password = req[p].password]
  /\ row' = Revoke(req[p].saw)
  /\ resetSaw' = resetSaw \cup req[p].saw
  /\ req' = [req EXCEPT ![p] = Idle]
  /\ UNCHANGED <<delivered, issued, birth, rotations>>

\* verify (or a Google sign-in) marks the address as verified.
ConfirmEmail(u) ==
  /\ user[u].exists /\ ~user[u].verified
  /\ user' = [user EXCEPT ![u].verified = TRUE]
  /\ UNCHANGED <<row, req, delivered, issued, history>>

DeleteUser_SetNull(u) ==
  /\ user[u].exists
  /\ user' = [user EXCEPT ![u] = [exists |-> FALSE, verified |-> FALSE, password |-> None]]
  /\ row' = [s \in Sessions |-> IF row[s].owner = u
               THEN [row[s] EXCEPT !.owner = None] ELSE row[s]]
  /\ UNCHANGED <<req, delivered, issued, history>>

\* deleteUser: sessions cascade.  The cascade waits for a reset that locked the account.
DeleteUser(u) ==
  /\ user[u].exists
  /\ \A q \in Requests : ~(req[q].at = "resetting" /\ req[q].user = u)
  /\ user' = [user EXCEPT ![u] = [exists |-> FALSE, verified |-> FALSE, password |-> None]]
  /\ row' = [s \in Sessions |-> IF row[s].owner = u
               THEN [row[s] EXCEPT !.status = "deleted"] ELSE row[s]]
  /\ UNCHANGED <<req, delivered, issued, history>>

\* The clock passes expiresAt; a rotation does not move it.
Expire(s) ==
  /\ row[s].status = "active" /\ ~row[s].expired
  /\ row' = [row EXCEPT ![s].expired = TRUE]
  /\ UNCHANGED <<user, req, delivered, issued, history>>

Next ==
  \/ \E p \in Requests, u \in Users, pw \in Passwords : Login(p, u, pw)
  \/ \E p \in Requests, u \in Users : GoogleSignIn(p, u)
  \/ \E p \in Requests : BeginCreateSession(p)
  \/ \E p \in Requests : CommitCreateSession(p)
  \/ \E p \in Requests : RejectCreateSession(p)
  \/ \E p \in Requests, s \in Sessions, t \in Tokens : LookupSession(p, s, t)
  \/ \E p \in Requests : Rotate(p)
  \/ \E p \in Requests : LoseRotation(p)
  \/ \E p \in Requests : Answer(p)
  \/ \E p \in Requests : Abort(p)
  \/ \E t \in Tokens : Logout(t)
  \/ \E p \in Requests, u \in Users, pw \in Passwords : BeginReset(p, u, pw)
  \/ \E p \in Requests : CommitReset(p)
  \/ \E u \in Users : ConfirmEmail(u)
  \/ \E u \in Users : DeleteUser(u)
  \/ \E s \in Sessions : Expire(s)

Spec == Init /\ [][Next]_vars

-----------------------------------------------------------------------------
(* Properties.                                                               *)

\* Of all the refreshes that ever present a refresh token, one wins at most: rotation
\* succeeds at most once per token, whatever requests run at the same time.
RedeemedOnce == \A r1, r2 \in rotations : r1.from = r2.from => r1 = r2

\* No session, live or revoked, belongs to a deleted user, although a sign-in that checked
\* the password before the deletion inserts its session after it.
SessionsHaveOwners ==
  \A s \in Sessions : row[s].status \in {"active", "revoked"} => user[row[s].owner].exists

\* What the single-active-session policy comes to under concurrency: a login ends every
\* session its transaction could see, so two sessions of a user are active together only
\* when neither login's transaction saw the other's session.
LoginEndsWhatItSaw ==
  \A u \in Users : \A s1, s2 \in Active(u) : s1 \notin birth[s2].saw

\* A user never has more unrevoked sessions than the API serves requests at once.
ActiveBoundedByConcurrency ==
  \A u \in Users : Cardinality(Active(u)) <= Cardinality(Requests)

\* No session that a completed password reset could see is active again.
ResetEndsWhatItSaw == \A s \in resetSaw : row[s].status # "active"

\* A session outlives its expiry by one rotation at most: refreshes that looked it up in
\* time race, one wins, and the token it hands out is of no more use.
OneLateRotation ==
  \A r1, r2 \in rotations :
    r1.late /\ r2.late /\ r1.session = r2.session => r1 = r2

\* A revoked session is never active again, and its token never changes: no refresh that
\* looked it up before the revocation gets a token after it.
RevocationIsFinal ==
  [][\A s \in Sessions : row[s].status = "revoked" =>
       row'[s].status \in {"revoked", "deleted"} /\ row'[s].hash = row[s].hash]_vars

\* The refinement mapping.  An expired session is still live to the ledger: its token is
\* refused by the clock, not by the store.
LedgerOwner   == [s \in Sessions |-> row[s].owner]
LedgerCurrent == [s \in Sessions |-> IF row[s].status = "active" THEN row[s].hash ELSE None]
LedgerSpent   == {t \in issued : \A s \in Sessions : LedgerCurrent[s] # t}

Ledger == INSTANCE SessionLedger WITH
  owner <- LedgerOwner, current <- LedgerCurrent, spent <- LedgerSpent

\* The session store keeps the promise of SessionLedger: a token is accepted only while it
\* is current, never again after, and no operation ends sessions of two users.
ImplementsLedger == Ledger!Spec

\* docs/authentication.md: "Product policy is one active session per user."
SingleActiveSession == \A u \in Users : Cardinality(Active(u)) <= 1

\* docs/authentication.md, password reset: every active session is revoked and the user
\* must log in again with the new password.  So no active session should have been
\* obtained with a password other than the current one.
SessionsUseCurrentPassword ==
  \A u \in Users : \A s \in Active(u) : birth[s].password \in {None, user[u].password}
=============================================================================
