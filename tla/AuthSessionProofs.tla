------------------------- MODULE AuthSessionProofs -------------------------
(***************************************************************************)
(* Theorems about AuthSession, for every number of users, requests,        *)
(* sessions and tokens; the last is that it implements SessionLedger.      *)
(***************************************************************************)
EXTENDS AuthSession, FiniteSetTheorems, TLAPS

(* What is in flight is well formed: each stage has the data its next step uses. *)
RequestsFormed ==
  \A p \in Requests :
    /\ req[p].at \in {"create", "creating", "resetting"} => req[p].user \in Users
    /\ req[p].at = "resetting" => req[p].password \in Passwords
    /\ req[p].at = "rotate" => req[p].session \in Sessions /\ req[p].token \in Tokens
    /\ req[p].at = "answer" => req[p].token \in Tokens

(* The status of a row tells whether there is one. *)
LEMMA RowShape ==
  ASSUME TypeOK, NEW s \in Sessions
  PROVE  IF row[s] = NoRow THEN row[s].status = "unused" ELSE row[s] \in UsedRow
BY DEF TypeOK, Row, NoRow

(* Verifying an account keeps it an account. *)
LEMMA VerifyShape ==
  ASSUME NEW account \in User
  PROVE  [account EXCEPT !.verified = TRUE] \in User
BY DEF User

(* updateMany leaves every row in place and changes no more than its status. *)
LEMMA RevokeShape ==
  ASSUME TypeOK, NEW seen
  PROVE  /\ Revoke(seen) \in [Sessions -> Row]
         /\ \A s \in Sessions :
              /\ Revoke(seen)[s] = NoRow <=> row[s] = NoRow
              /\ Revoke(seen)[s].owner = row[s].owner
              /\ Revoke(seen)[s].hash = row[s].hash
              /\ Revoke(seen)[s].expired = row[s].expired
              /\ Revoke(seen)[s].status = IF s \in seen /\ row[s].status = "active"
                                          THEN "revoked" ELSE row[s].status
<1> DEFINE new(s) == IF s \in seen /\ row[s].status = "active"
                     THEN [row[s] EXCEPT !.status = "revoked"] ELSE row[s]
<1>1. ASSUME NEW s \in Sessions
      PROVE  /\ new(s) \in Row
             /\ new(s) = NoRow <=> row[s] = NoRow
             /\ new(s).owner = row[s].owner
             /\ new(s).hash = row[s].hash
             /\ new(s).expired = row[s].expired
             /\ new(s).status = IF s \in seen /\ row[s].status = "active"
                                THEN "revoked" ELSE row[s].status
  <2>1. CASE row[s] = NoRow
    BY <2>1 DEF NoRow, Row, UsedRow
  <2>2. CASE row[s] # NoRow
    <3>1. row[s] \in UsedRow
      BY <2>2, RowShape
    <3>2. QED
      BY <2>2, <3>1 DEF UsedRow, Row, NoRow
  <2>3. QED
    BY <2>1, <2>2
<1>2. Revoke(seen) = [s \in Sessions |-> new(s)]
  BY DEF Revoke
<1> HIDE DEF new
<1>3. QED
  BY <1>1, <1>2

(* Every variable has its type, and a request has set the fields its stage relies on. *)
THEOREM TypeCorrect == Spec => [](TypeOK /\ RequestsFormed)
<1> USE DEF TypeOK, RequestsFormed, User, Row, UsedRow, NoRow, Request, Stages, Idle, Birth, history
<1>1. Init => TypeOK /\ RequestsFormed
  <2> SUFFICES ASSUME Init PROVE TypeOK /\ RequestsFormed
    OBVIOUS
  <2>1. user \in [Users -> User]
    BY DEF Init
  <2>2. row \in [Sessions -> Row] /\ req \in [Requests -> Request] /\ RequestsFormed
    BY DEF Init
  <2>3. QED
    BY <2>1, <2>2 DEF Init
<1>2. TypeOK /\ RequestsFormed /\ [Next]_vars => (TypeOK /\ RequestsFormed)'
  <2> SUFFICES ASSUME TypeOK, RequestsFormed, [Next]_vars
               PROVE  TypeOK' /\ RequestsFormed'
    OBVIOUS
  <2>1. ASSUME NEW p \in Requests, NEW u \in Users, NEW pw \in Passwords, Login(p, u, pw)
        PROVE  TypeOK' /\ RequestsFormed'
    BY <2>1 DEF Login
  <2>2. ASSUME NEW p \in Requests, NEW u \in Users, GoogleSignIn(p, u)
        PROVE  TypeOK' /\ RequestsFormed'
    BY <2>2 DEF GoogleSignIn
  <2>3. ASSUME NEW p \in Requests, BeginCreateSession(p)
        PROVE  TypeOK' /\ RequestsFormed'
    <3>1. Active(req[p].user) \subseteq Sessions /\ req[p].user \in Users
      BY <2>3 DEF BeginCreateSession, Active
    <3>2. QED
      BY <2>3, <3>1 DEF BeginCreateSession
  <2>4. ASSUME NEW p \in Requests, CommitCreateSession(p)
        PROVE  TypeOK' /\ RequestsFormed'
    <3>1. PICK s \in Sessions, t \in Tokens : CommitCreateSession(p)!3!(s, t)
      BY <2>4 DEF CommitCreateSession
    <3>2. req[p].user \in Users
      BY <2>4 DEF CommitCreateSession
    <3>3. row' \in [Sessions -> Row]
      BY <3>1, <3>2, RevokeShape
    <3>4. req' \in [Requests -> Request] /\ RequestsFormed'
      BY <3>1
    <3>5. QED
      BY <2>4, <3>1, <3>3, <3>4 DEF CommitCreateSession
  <2>5. ASSUME NEW p \in Requests, RejectCreateSession(p)
        PROVE  TypeOK' /\ RequestsFormed'
    BY <2>5 DEF RejectCreateSession
  <2>6. ASSUME NEW p \in Requests, NEW s \in Sessions, NEW t \in Tokens, LookupSession(p, s, t)
        PROVE  TypeOK' /\ RequestsFormed'
    BY <2>6 DEF LookupSession
  <2>7. ASSUME NEW p \in Requests, Rotate(p)
        PROVE  TypeOK' /\ RequestsFormed'
    <3> DEFINE s == req[p].session
    <3>1. PICK new \in Tokens :
            /\ row' = [row EXCEPT ![s].hash = new]
            /\ issued' = issued \cup {new}
            /\ rotations' = rotations \cup
                 {[session |-> s, from |-> req[p].token, to |-> new, late |-> row[s].expired]}
            /\ req' = [req EXCEPT ![p] = [Idle EXCEPT !.at = "answer", !.token = new]]
      BY <2>7 DEF Rotate
    <3>2. s \in Sessions /\ req[p].token \in Tokens /\ row[s] # NoRow
      BY <2>7 DEF Rotate, Rotatable
    <3>3. [row[s] EXCEPT !.hash = new] \in Row
      BY <3>2, RowShape DEF UsedRow
    <3>4. row' \in [Sessions -> Row]
      BY <3>1, <3>2, <3>3
    <3>5. req' \in [Requests -> Request] /\ RequestsFormed'
      BY <3>1
    <3>6. row[s].expired \in BOOLEAN
      BY <3>2, RowShape
    <3>7. [session |-> s, from |-> req[p].token, to |-> new, late |-> row[s].expired]
            \in Rotation
      BY <3>2, <3>6 DEF Rotation
    <3>8. rotations' \subseteq Rotation
      BY <3>1, <3>7
    <3>9. QED
      BY <2>7, <3>1, <3>4, <3>5, <3>8 DEF Rotate
  <2>8. ASSUME NEW p \in Requests, LoseRotation(p)
        PROVE  TypeOK' /\ RequestsFormed'
    BY <2>8 DEF LoseRotation
  <2>9. ASSUME NEW p \in Requests, Answer(p)
        PROVE  TypeOK' /\ RequestsFormed'
    BY <2>9 DEF Answer
  <2>10. ASSUME NEW p \in Requests, Abort(p)
         PROVE  TypeOK' /\ RequestsFormed'
    BY <2>10 DEF Abort
  <2>11. ASSUME NEW t \in Tokens, Logout(t)
         PROVE  TypeOK' /\ RequestsFormed'
    <3>1. PICK s \in Sessions : row' = Revoke({s})
      BY <2>11 DEF Logout
    <3>2. row' \in [Sessions -> Row]
      BY <3>1, RevokeShape
    <3>3. QED
      BY <2>11, <3>2 DEF Logout
  <2>12. ASSUME NEW p \in Requests, NEW u \in Users, NEW pw \in Passwords, BeginReset(p, u, pw)
         PROVE  TypeOK' /\ RequestsFormed'
    BY <2>12 DEF BeginReset, Active
  <2>13. ASSUME NEW p \in Requests, CommitReset(p)
         PROVE  TypeOK' /\ RequestsFormed'
    <3>1. row' \in [Sessions -> Row]
      BY <2>13, RevokeShape DEF CommitReset
    <3>2. req[p].password \in Passwords
      BY <2>13 DEF CommitReset
    <3>3. user' \in [Users -> User]
      BY <2>13, <3>2 DEF CommitReset
    <3>4. QED
      BY <2>13, <3>1, <3>3 DEF CommitReset
  <2>14. ASSUME NEW u \in Users, ConfirmEmail(u)
         PROVE  TypeOK' /\ RequestsFormed'
    <3>1. [user[u] EXCEPT !.verified = TRUE] \in User
      BY VerifyShape
    <3>2. QED
      BY <2>14, <3>1 DEF ConfirmEmail
  <2>15. ASSUME NEW u \in Users, DeleteUser(u)
         PROVE  TypeOK' /\ RequestsFormed'
    BY <2>15, NoneIsAbsent DEF DeleteUser
  <2>16. ASSUME NEW s \in Sessions, Expire(s)
         PROVE  TypeOK' /\ RequestsFormed'
    <3>1. [row[s] EXCEPT !.expired = TRUE] \in Row
      BY <2>16, RowShape DEF Expire, UsedRow
    <3>2. QED
      BY <2>16, <3>1 DEF Expire
  <2>17. CASE UNCHANGED vars
    BY <2>17 DEF vars
  <2>18. QED
    BY <2>1, <2>2, <2>3, <2>4, <2>5, <2>6, <2>7, <2>8, <2>9, <2>10, <2>11, <2>12, <2>13,
       <2>14, <2>15, <2>16, <2>17 DEF Next
<1>3. QED
  BY <1>1, <1>2, PTL DEF Spec

-----------------------------------------------------------------------------
(* What a step does to the table.  Apart from a sign-in and a rotation, no   *)
(* step creates a session, changes a token or makes a session active.        *)

RowKept(s) ==
  /\ row'[s] = NoRow <=> row[s] = NoRow
  /\ row'[s].owner = row[s].owner
  /\ row'[s].hash = row[s].hash
  /\ row'[s].status = "active" => row[s].status = "active"
  /\ row'[s].status = "revoked" => row[s].status \in {"active", "revoked"}
  /\ row[s].status = "revoked" => row'[s].status \in {"revoked", "deleted"}
  /\ row[s].expired => row'[s].expired

TableKept ==
  /\ issued' = issued /\ rotations' = rotations /\ birth' = birth
  /\ \A s \in Sessions : RowKept(s)

(* Every step is a sign-in, a rotation, or keeps the table. *)
LEMMA TableStep ==
  ASSUME TypeOK, RequestsFormed, [Next]_vars
  PROVE  \/ \E p \in Requests : CommitCreateSession(p)
         \/ \E p \in Requests : Rotate(p)
         \/ TableKept
<1> USE DEF TableKept, RowKept, history
<1>1. ASSUME row' = row, issued' = issued, rotations' = rotations, birth' = birth
      PROVE  TableKept
  BY <1>1, RowShape DEF UsedRow, NoRow
<1>2. ASSUME NEW seen, row' = Revoke(seen), issued' = issued, rotations' = rotations,
             birth' = birth
      PROVE  TableKept
  BY <1>2, RevokeShape
<1>3. ASSUME NEW u \in Users, DeleteUser(u)
      PROVE  TableKept
  <2>1. ASSUME NEW s \in Sessions
        PROVE  RowKept(s)
    <3>1. CASE row[s] = NoRow
      <4>1. row[s].owner # u
        BY <3>1, NoneIsAbsent DEF NoRow
      <4>2. row'[s] = row[s]
        BY <1>3, <4>1 DEF DeleteUser
      <4>3. QED
        BY <3>1, <4>2 DEF NoRow
    <3>2. CASE row[s] \in UsedRow
      BY <1>3, <3>2 DEF DeleteUser, NoRow, UsedRow, TypeOK
    <3>3. QED
      BY <3>1, <3>2, RowShape
  <2>2. QED
    BY <1>3, <2>1 DEF DeleteUser
<1>4. ASSUME NEW s \in Sessions, Expire(s)
      PROVE  TableKept
  <2>1. row[s] \in UsedRow
    BY <1>4, RowShape DEF Expire
  <2>2. ASSUME NEW x \in Sessions
        PROVE  RowKept(x)
    <3>1. CASE x = s
      <4>1. row'[s] = [row[s] EXCEPT !.expired = TRUE]
        BY <1>4 DEF Expire, TypeOK
      <4>2. QED
        BY <2>1, <3>1, <4>1 DEF NoRow, UsedRow
    <3>2. CASE x # s
      <4>1. row'[x] = row[x]
        BY <1>4, <3>2 DEF Expire, TypeOK
      <4>2. QED
        BY <4>1
    <3>3. QED
      BY <3>1, <3>2
  <2>3. QED
    BY <1>4, <2>2 DEF Expire
<1>5. ASSUME NEW p \in Requests, CommitReset(p)
      PROVE  TableKept
  BY <1>5, <1>2 DEF CommitReset
<1>6. ASSUME NEW t \in Tokens, Logout(t)
      PROVE  TableKept
  BY <1>6, <1>2 DEF Logout
<1>7. QED
  BY <1>1, <1>3, <1>4, <1>5, <1>6
     DEF Next, vars, Login, GoogleSignIn, BeginCreateSession, RejectCreateSession,
         LookupSession, LoseRotation, Answer, Abort, BeginReset, ConfirmEmail

(* A sign-in adds one row and a fresh token, and revokes what it saw. *)
LEMMA SignInStep ==
  ASSUME TypeOK, RequestsFormed, NEW p \in Requests, CommitCreateSession(p)
  PROVE  \E s \in Sessions, t \in Tokens :
           /\ row[s] = NoRow /\ t \notin issued /\ req[p].user \in Users
           /\ row'[s] = [status |-> "active", owner |-> req[p].user, hash |-> t,
                         expired |-> FALSE]
           /\ \A x \in Sessions \ {s} :
                /\ RowKept(x)
                /\ x \in req[p].saw => row'[x].status # "active"
           /\ issued' = issued \cup {t} /\ rotations' = rotations
           /\ birth' = [birth EXCEPT
                          ![s] = [password |-> req[p].password, saw |-> req[p].saw]]
           /\ resetSaw' = resetSaw
           /\ req'[p].at = "answer"
           /\ \A q \in Requests \ {p} : req'[q] = req[q]
<1>1. PICK s \in Sessions, t \in Tokens : CommitCreateSession(p)!3!(s, t)
  BY DEF CommitCreateSession
<1>2. row[s] = NoRow /\ t \notin issued /\ req[p].user \in Users
  BY <1>1 DEF NewSession, NewToken, RequestsFormed, CommitCreateSession
<1>3. /\ row'[s] = [status |-> "active", owner |-> req[p].user, hash |-> t, expired |-> FALSE]
      /\ \A x \in Sessions \ {s} : row'[x] = Revoke(req[p].saw)[x]
  BY <1>1, RevokeShape
<1>4. \A x \in Sessions \ {s} : RowKept(x) /\ (x \in req[p].saw => row'[x].status # "active")
  BY <1>3, RevokeShape DEF RowKept
<1>5. req'[p].at = "answer" /\ \A q \in Requests \ {p} : req'[q] = req[q]
  BY <1>1 DEF TypeOK, Idle
<1>6. QED
  BY <1>1, <1>2, <1>3, <1>4, <1>5 DEF CommitCreateSession

(* A rotation replaces the token of one active row by a fresh one. *)
LEMMA RotateStep ==
  ASSUME TypeOK, RequestsFormed, NEW p \in Requests, Rotate(p)
  PROVE  \E s \in Sessions, new \in Tokens :
           /\ s = req[p].session /\ req[p].at = "rotate"
           /\ row[s] \in UsedRow /\ row[s].status = "active" /\ new \notin issued
           /\ row[s].hash = req[p].token
           /\ row'[s] = [row[s] EXCEPT !.hash = new]
           /\ \A x \in Sessions \ {s} : row'[x] = row[x]
           /\ issued' = issued \cup {new} /\ birth' = birth /\ resetSaw' = resetSaw
           /\ rotations' = rotations \cup {[session |-> s, from |-> row[s].hash, to |-> new,
                                            late |-> row[s].expired]}
           /\ req'[p].at = "answer"
           /\ \A q \in Requests \ {p} : req'[q] = req[q]
<1>1. req[p].session \in Sessions
  BY DEF Rotate, RequestsFormed
<1>2. row[req[p].session] \in UsedRow
  BY <1>1, RowShape DEF Rotate, Rotatable
<1>3. QED
  BY <1>1, <1>2 DEF Rotate, Rotatable, TypeOK, NewToken, Idle

(* A rotation replaces a token and nothing else in the table. *)
LEMMA RotateKeeps ==
  ASSUME TypeOK, RequestsFormed, NEW p \in Requests, Rotate(p)
  PROVE  \A x \in Sessions : /\ row[x] # NoRow => row'[x] # NoRow
                             /\ row'[x].owner = row[x].owner
                             /\ row'[x].status = row[x].status
<1>1. PICK s \in Sessions, new \in Tokens :
        /\ row[s] \in UsedRow
        /\ row'[s] = [row[s] EXCEPT !.hash = new]
        /\ \A x \in Sessions \ {s} : row'[x] = row[x]
  BY RotateStep
<1>2. /\ row'[s] # NoRow
      /\ row'[s].owner = row[s].owner
      /\ row'[s].status = row[s].status
  BY <1>1 DEF UsedRow, NoRow
<1>3. QED
  BY <1>1, <1>2

(* A user who is there stays there, but for a deletion, which marks every session. *)
LEMMA UserStep ==
  ASSUME TypeOK, RequestsFormed, [Next]_vars
  PROVE  \/ \A u \in Users : user'[u].exists = user[u].exists
         \/ \E u \in Users : DeleteUser(u)
<1>1. ASSUME NEW p \in Requests, CommitReset(p)
      PROVE  \A u \in Users : user'[u].exists = user[u].exists
  BY <1>1 DEF CommitReset, TypeOK, User
<1>2. ASSUME NEW u \in Users, ConfirmEmail(u)
      PROVE  \A x \in Users : user'[x].exists = user[x].exists
  BY <1>2 DEF ConfirmEmail, TypeOK, User
<1>3. QED
  BY <1>1, <1>2
     DEF Next, vars, Login, GoogleSignIn, BeginCreateSession, CommitCreateSession,
         RejectCreateSession, LookupSession, Rotate, LoseRotation, Answer, Abort, Logout,
         BeginReset, Expire

(* A deletion leaves its user no session that is live or revoked, and others theirs. *)
LEMMA DeletionStep ==
  ASSUME TypeOK, SessionsHaveOwners, NEW u \in Users, DeleteUser(u)
  PROVE  SessionsHaveOwners'
<1> SUFFICES ASSUME NEW s \in Sessions, row'[s].status \in {"active", "revoked"}
             PROVE  user'[row'[s].owner].exists
  BY DEF SessionsHaveOwners
<1>1. row[s].owner # u /\ row'[s] = row[s]
  <2>1. CASE row[s] = NoRow
    BY <2>1, NoneIsAbsent DEF DeleteUser, NoRow
  <2>2. CASE row[s] \in UsedRow
    BY <2>2 DEF DeleteUser, UsedRow
  <2>3. QED
    BY <2>1, <2>2, RowShape
<1>2. row[s].owner \in Users
  BY <1>1, RowShape DEF NoRow, UsedRow
<1>3. QED
  BY <1>1, <1>2 DEF DeleteUser, TypeOK, SessionsHaveOwners

(* No session outlives its user: the foreign key refuses the insert of a sign-in that a
   deletion overtook, and the deletion takes the sessions that were there. *)
THEOREM OwnersStay == Spec => []SessionsHaveOwners
<1>1. Init => SessionsHaveOwners
  BY DEF Init, SessionsHaveOwners, NoRow
<1>2. TypeOK /\ RequestsFormed /\ SessionsHaveOwners /\ [Next]_vars => SessionsHaveOwners'
  <2> SUFFICES ASSUME TypeOK, RequestsFormed, SessionsHaveOwners, [Next]_vars
               PROVE  SessionsHaveOwners'
    OBVIOUS
  <2>1. CASE \E u \in Users : DeleteUser(u)
    BY <2>1, DeletionStep
  <2>2. CASE \A u \in Users : user'[u].exists = user[u].exists
    <3> SUFFICES ASSUME NEW s \in Sessions, row'[s].status \in {"active", "revoked"}
                 PROVE  user'[row'[s].owner].exists
      BY DEF SessionsHaveOwners
    <3>1. ASSUME row[s].status \in {"active", "revoked"}, row'[s].owner = row[s].owner
          PROVE  user'[row'[s].owner].exists
      <4>1. row[s].owner \in Users
        BY <3>1, RowShape DEF NoRow, UsedRow
      <4>2. QED
        BY <2>2, <3>1, <4>1 DEF SessionsHaveOwners
    <3>2. CASE TableKept
      BY <3>1, <3>2 DEF TableKept, RowKept
    <3>3. ASSUME NEW p \in Requests, CommitCreateSession(p)
          PROVE  user'[row'[s].owner].exists
      <4>1. PICK new \in Sessions, t \in Tokens :
              /\ req[p].user \in Users
              /\ row'[new] = [status |-> "active", owner |-> req[p].user, hash |-> t,
                              expired |-> FALSE]
              /\ \A x \in Sessions \ {new} : RowKept(x)
        BY <3>3, SignInStep
      <4>2. CASE s = new
        BY <2>2, <3>3, <4>1, <4>2 DEF CommitCreateSession, OwnerFound
      <4>3. CASE s # new
        BY <3>1, <4>1, <4>3 DEF RowKept
      <4>4. QED
        BY <4>2, <4>3
    <3>4. ASSUME NEW p \in Requests, Rotate(p)
          PROVE  user'[row'[s].owner].exists
      BY <3>1, <3>4, RotateKeeps
    <3>5. QED
      BY <3>2, <3>3, <3>4, TableStep
  <2>3. QED
    BY <2>1, <2>2, UserStep
<1>3. QED
  BY <1>1, <1>2, TypeCorrect, PTL DEF Spec

-----------------------------------------------------------------------------
(* A token is redeemed once.  The inductive invariant: tokens in the table   *)
(* were issued, no two rows share one, and none in the table was ever        *)
(* redeemed; so the token a rotation matches is one no rotation redeemed.    *)

TokensIssued ==
  /\ \A s \in Sessions : row[s] # NoRow => row[s].hash \in issued
  /\ \A r \in rotations : r.from \in issued
HashUnique ==
  \A s1, s2 \in Sessions :
    row[s1] # NoRow /\ row[s2] # NoRow /\ row[s1].hash = row[s2].hash => s1 = s2
RedeemedAreGone ==
  \A s \in Sessions : \A r \in rotations : row[s] # NoRow => row[s].hash # r.from
TokenInv == TokensIssued /\ HashUnique /\ RedeemedAreGone /\ RedeemedOnce

(* Every step keeps each refresh token in one row at most, and redeemed ones in none. *)
LEMMA TokenStep ==
  ASSUME TypeOK, RequestsFormed, TokenInv, [Next]_vars
  PROVE  TokenInv'
<1> USE DEF TokenInv, TokensIssued, HashUnique, RedeemedAreGone, RedeemedOnce
<1>1. CASE TableKept
  BY <1>1 DEF TableKept, RowKept
<1>2. ASSUME NEW p \in Requests, CommitCreateSession(p)
      PROVE  TokenInv'
  <2>1. PICK s \in Sessions, t \in Tokens :
          /\ row[s] = NoRow /\ t \notin issued
          /\ row'[s] = [status |-> "active", owner |-> req[p].user, hash |-> t,
                        expired |-> FALSE]
          /\ \A x \in Sessions \ {s} : RowKept(x)
          /\ issued' = issued \cup {t} /\ rotations' = rotations
    BY <1>2, SignInStep
  <2>2. row'[s].hash = t
    BY <2>1
  <2>3. \A x \in Sessions \ {s} : row'[x] # NoRow => row[x] # NoRow /\ row'[x].hash = row[x].hash
    BY <2>1 DEF RowKept
  <2>4. QED
    BY <2>1, <2>2, <2>3
<1>3. ASSUME NEW p \in Requests, Rotate(p)
      PROVE  TokenInv'
  <2>1. PICK s \in Sessions, new \in Tokens :
          /\ row[s] \in UsedRow /\ new \notin issued
          /\ row'[s] = [row[s] EXCEPT !.hash = new]
          /\ \A x \in Sessions \ {s} : row'[x] = row[x]
          /\ issued' = issued \cup {new}
          /\ rotations' = rotations \cup {[session |-> s, from |-> row[s].hash, to |-> new,
                                           late |-> row[s].expired]}
    BY <1>3, RotateStep
  <2>2. row'[s].hash = new /\ row[s] # NoRow /\ row[s].hash \in issued
    BY <2>1 DEF UsedRow, NoRow
  <2>3. \A r \in rotations' : r \in rotations \/ r.from = row[s].hash
    BY <2>1
  <2>4. \A r \in rotations : r.from # row[s].hash
    BY <2>2
  <2>5. \A x \in Sessions : row'[x] # NoRow =>
          IF x = s THEN row'[x].hash = new ELSE row[x] # NoRow /\ row'[x].hash = row[x].hash
    BY <2>1, <2>2
  <2>6. TokensIssued'
    BY <2>1, <2>2, <2>3, <2>5
  <2>7. HashUnique'
    BY <2>1, <2>5
  <2>8. RedeemedAreGone'
    <3> SUFFICES ASSUME NEW x \in Sessions, NEW r \in rotations', row'[x] # NoRow
                 PROVE  row'[x].hash # r.from
      OBVIOUS
    <3>1. r.from \in issued
      BY <2>2, <2>3
    <3>2. CASE x = s
      BY <2>1, <2>2, <3>1, <3>2
    <3>3. CASE x # s
      BY <2>2, <2>3, <2>5, <3>3
    <3>4. QED
      BY <3>2, <3>3
  <2>9. RedeemedOnce'
    BY <2>1, <2>4
  <2>10. QED
    BY <2>6, <2>7, <2>8, <2>9
<1>4. QED
  BY <1>1, <1>2, <1>3, TableStep

(* Every refresh token is redeemed at most once, whatever requests run concurrently. *)
THEOREM RefreshTokenSingleUse == Spec => []RedeemedOnce
<1>1. Init => TokenInv
  BY DEF Init, TokenInv, TokensIssued, HashUnique, RedeemedAreGone, RedeemedOnce, NoRow
<1>2. TypeOK /\ RequestsFormed /\ TokenInv /\ [Next]_vars => TokenInv'
  BY TokenStep
<1>3. TokenInv => RedeemedOnce
  BY DEF TokenInv
<1>4. QED
  BY <1>1, <1>2, <1>3, TypeCorrect, PTL DEF Spec

-----------------------------------------------------------------------------
(* What a sign-in or a reset saw.  A transaction only sees rows that exist,  *)
(* so the row it inserts later is in no other transaction's snapshot.        *)

SawRows ==
  /\ \A p \in Requests : \A s \in req[p].saw :
        row[s] # NoRow /\ row[s].owner = req[p].user
  /\ \A s \in Sessions : \A x \in birth[s].saw : row[x] # NoRow
  /\ \A s \in resetSaw : row[s] # NoRow
PolicyInv == SawRows /\ LoginEndsWhatItSaw /\ ResetEndsWhatItSaw

(* Only the two transactions that revoke sessions take a snapshot of them. *)
LEMMA SnapshotStep ==
  ASSUME TypeOK, [Next]_vars, NEW q \in Requests
  PROVE  \/ req'[q] = req[q] \/ req'[q].saw = {}
         \/ \E p \in Requests : BeginCreateSession(p) /\ q = p
         \/ \E p \in Requests, u \in Users, pw \in Passwords : BeginReset(p, u, pw) /\ q = p
<1> DEFINE Same == req'[q] = req[q] \/ req'[q].saw = {}
<1> USE DEF TypeOK
<1>1. ASSUME NEW p \in Requests, NEW u \in Users, NEW pw \in Passwords, Login(p, u, pw)
      PROVE  Same
  BY <1>1 DEF Login, Idle
<1>2. ASSUME NEW p \in Requests, NEW u \in Users, GoogleSignIn(p, u)
      PROVE  Same
  BY <1>2 DEF GoogleSignIn, Idle
<1>3. ASSUME NEW p \in Requests, BeginCreateSession(p), q # p
      PROVE  Same
  BY <1>3 DEF BeginCreateSession
<1>4. ASSUME NEW p \in Requests, CommitCreateSession(p)
      PROVE  Same
  BY <1>4 DEF CommitCreateSession, Idle
<1>5. ASSUME NEW p \in Requests,
             RejectCreateSession(p) \/ LoseRotation(p) \/ Answer(p) \/ Abort(p) \/ CommitReset(p)
      PROVE  Same
  BY <1>5 DEF RejectCreateSession, LoseRotation, Answer, Abort, CommitReset, Idle
<1>6. ASSUME NEW p \in Requests, NEW s \in Sessions, NEW t \in Tokens, LookupSession(p, s, t)
      PROVE  Same
  BY <1>6 DEF LookupSession, Idle
<1>7. ASSUME NEW p \in Requests, Rotate(p)
      PROVE  Same
  BY <1>7 DEF Rotate, Idle
<1>8. ASSUME NEW p \in Requests, NEW u \in Users, NEW pw \in Passwords,
             BeginReset(p, u, pw), q # p
      PROVE  Same
  BY <1>8 DEF BeginReset
<1>9. ASSUME req' = req
      PROVE  Same
  BY <1>9
<1> HIDE DEF Same
<1>10. Same \/ (\E p \in Requests : BeginCreateSession(p) /\ q = p)
            \/ \E p \in Requests, u \in Users, pw \in Passwords : BeginReset(p, u, pw) /\ q = p
  BY <1>1, <1>2, <1>3, <1>4, <1>5, <1>6, <1>7, <1>8, <1>9
     DEF Next, vars, Logout, ConfirmEmail, DeleteUser, Expire
<1>11. QED
  BY <1>10 DEF Same

(* Every step keeps what sign-ins and resets have seen and ended. *)
LEMMA PolicyStep ==
  ASSUME TypeOK, RequestsFormed, PolicyInv, [Next]_vars
  PROVE  PolicyInv'
<1> USE DEF PolicyInv
<1>1. ASSUME NEW p \in Requests, CommitCreateSession(p)
      PROVE  PolicyInv'
  <2>1. PICK s \in Sessions, t \in Tokens :
           /\ row[s] = NoRow
           /\ row'[s] = [status |-> "active", owner |-> req[p].user, hash |-> t,
                         expired |-> FALSE]
           /\ \A x \in Sessions \ {s} :
                /\ RowKept(x)
                /\ x \in req[p].saw => row'[x].status # "active"
           /\ birth' = [birth EXCEPT
                          ![s] = [password |-> req[p].password, saw |-> req[p].saw]]
           /\ resetSaw' = resetSaw
           /\ \A q \in Requests \ {p} : req'[q] = req[q]
    BY <1>1, SignInStep
  <2>2. req'[p].saw = {}
    BY <1>1 DEF CommitCreateSession, Idle, TypeOK
  <2>3. row'[s] # NoRow
    BY <2>1 DEF NoRow
  <2>4. /\ \A x \in Sessions : row[x] # NoRow => row'[x] # NoRow /\ row'[x].owner = row[x].owner
        /\ \A x \in Sessions : row[x] # NoRow /\ row'[x].status = "active" =>
                               row[x].status = "active"
    BY <2>1, <2>3 DEF RowKept
  <2>5. \A x \in Sessions : birth'[x].saw = IF x = s THEN req[p].saw ELSE birth[x].saw
    BY <2>1 DEF TypeOK
  <2>6. SawRows'
    BY <2>1, <2>2, <2>4, <2>5 DEF SawRows, TypeOK, Request, Birth
  <2>7. LoginEndsWhatItSaw'
    <3> SUFFICES ASSUME NEW u \in Users, NEW s1 \in Active(u)', NEW s2 \in Active(u)',
                        s1 \in birth'[s2].saw
                 PROVE  FALSE
      BY DEF LoginEndsWhatItSaw
    <3>1. s1 \in Sessions /\ s2 \in Sessions /\ row[s1] # NoRow
      BY <2>5 DEF Active, SawRows
    <3>2. s1 # s /\ row'[s1].status = "active" /\ row'[s2].status = "active"
      BY <2>1, <3>1 DEF Active
    <3>3. CASE s2 = s
      BY <2>1, <2>5, <3>1, <3>2, <3>3
    <3>4. CASE s2 # s
      <4>1. row[s2] # NoRow
        BY <2>1, <3>1, <3>2, <3>4 DEF RowKept, NoRow
      <4>2. s1 \in Active(u) /\ s2 \in Active(u) /\ s1 \in birth[s2].saw
        BY <2>4, <2>5, <3>1, <3>2, <3>4, <4>1 DEF Active
      <4>3. QED
        BY <4>2 DEF LoginEndsWhatItSaw
    <3>5. QED
      BY <3>3, <3>4
  <2>8. ResetEndsWhatItSaw'
    BY <2>1, <2>4 DEF ResetEndsWhatItSaw, SawRows, TypeOK
  <2>9. QED
    BY <2>6, <2>7, <2>8
<1>2. ASSUME birth' = birth, \A s \in Sessions : RowKept(s)
      PROVE  LoginEndsWhatItSaw'
  BY <1>2 DEF LoginEndsWhatItSaw, Active, RowKept
<1>3. ASSUME NEW p \in Requests, Rotate(p)
      PROVE  PolicyInv'
  <2>1. birth' = birth /\ resetSaw' = resetSaw /\ req'[p].saw = {}
        /\ \A q \in Requests \ {p} : req'[q] = req[q]
    BY <1>3 DEF Rotate, Idle, TypeOK
  <2>2. \A x \in Sessions : /\ row[x] # NoRow => row'[x] # NoRow
                            /\ row'[x].owner = row[x].owner
                            /\ row'[x].status = row[x].status
    BY <1>3, RotateKeeps
  <2>3. SawRows'
    BY <2>1, <2>2 DEF SawRows, TypeOK, Request, Birth
  <2>4. \A u : Active(u)' = Active(u)
    BY <2>2 DEF Active
  <2>5. LoginEndsWhatItSaw'
    BY <2>1, <2>4 DEF LoginEndsWhatItSaw
  <2>6. ResetEndsWhatItSaw'
    BY <2>1, <2>2 DEF ResetEndsWhatItSaw, TypeOK
  <2>7. QED
    BY <2>3, <2>5, <2>6
<1>4. CASE TableKept
  <2>1. LoginEndsWhatItSaw'
    BY <1>2, <1>4 DEF TableKept
  <2>2. \A x \in Sessions : /\ row[x] # NoRow => row'[x] # NoRow /\ row'[x].owner = row[x].owner
                            /\ row'[x].status = "active" => row[x].status = "active"
    BY <1>4 DEF TableKept, RowKept
  <2>3. ASSUME NEW q \in Requests, NEW x \in req'[q].saw
        PROVE  /\ x \in Sessions /\ row[x] # NoRow /\ row[x].owner = req'[q].user
    <3>1. CASE req'[q] = req[q] \/ req'[q].saw = {}
      BY <2>3, <3>1 DEF SawRows, TypeOK, Request
    <3>2. ASSUME NEW p \in Requests, BeginCreateSession(p), q = p
          PROVE  /\ x \in Sessions /\ row[x] # NoRow /\ row[x].owner = req'[q].user
      <4>1. req'[q].saw = Active(req[p].user) /\ req'[q].user = req[p].user
        BY <3>2 DEF BeginCreateSession, TypeOK, Request
      <4>2. QED
        BY <2>3, <4>1 DEF Active, NoRow
    <3>3. ASSUME NEW p \in Requests, NEW u \in Users, NEW pw \in Passwords,
                 BeginReset(p, u, pw), q = p
          PROVE  /\ x \in Sessions /\ row[x] # NoRow /\ row[x].owner = req'[q].user
      <4>1. req'[q].saw = Active(u) /\ req'[q].user = u
        BY <3>3 DEF BeginReset, TypeOK, Idle
      <4>2. QED
        BY <2>3, <4>1 DEF Active, NoRow
    <3>4. \/ req'[q] = req[q] \/ req'[q].saw = {}
          \/ \E p \in Requests : BeginCreateSession(p) /\ q = p
          \/ \E p \in Requests, u \in Users, pw \in Passwords : BeginReset(p, u, pw) /\ q = p
      BY SnapshotStep
    <3>5. QED
      BY <3>1, <3>2, <3>3, <3>4
  <2>4. \A s \in Sessions : \A x \in birth'[s].saw : row'[x] # NoRow
    BY <1>4, <2>2 DEF TableKept, SawRows, TypeOK, Birth
  <2>5. /\ resetSaw' \subseteq Sessions
        /\ \A s \in resetSaw' : row[s] # NoRow
        /\ ResetEndsWhatItSaw'
    <3>1. CASE resetSaw' = resetSaw
      BY <2>2, <3>1 DEF SawRows, TypeOK, ResetEndsWhatItSaw
    <3>2. ASSUME NEW p \in Requests, CommitReset(p)
          PROVE  /\ resetSaw' \subseteq Sessions
                 /\ \A s \in resetSaw' : row[s] # NoRow
                 /\ ResetEndsWhatItSaw'
      <4>1. resetSaw' = resetSaw \cup req[p].saw /\ req[p].saw \subseteq Sessions
        BY <3>2 DEF CommitReset, TypeOK, Request
      <4>2. \A s \in req[p].saw : row'[s].status # "active"
        BY <3>2, <4>1, RevokeShape DEF CommitReset
      <4>3. QED
        BY <2>2, <4>1, <4>2 DEF SawRows, TypeOK, ResetEndsWhatItSaw
    <3>3. resetSaw' = resetSaw \/ \E p \in Requests : CommitReset(p)
      BY DEF Next, vars, Login, GoogleSignIn, BeginCreateSession, CommitCreateSession,
             RejectCreateSession, LookupSession, Rotate, LoseRotation, Answer, Abort, Logout,
             BeginReset, ConfirmEmail, DeleteUser, Expire, history
    <3>4. QED
      BY <3>1, <3>2, <3>3
  <2>6. SawRows'
    BY <2>2, <2>3, <2>4, <2>5 DEF SawRows
  <2>7. QED
    BY <2>1, <2>5, <2>6
<1>5. QED
  BY <1>1, <1>3, <1>4, TableStep

(* Two sessions of a user are active together only when neither sign-in saw the other's
   session: a sign-in that runs alone leaves exactly its own. *)
THEOREM SignInSupersedes == Spec => []LoginEndsWhatItSaw
<1>1. Init => PolicyInv
  BY DEF Init, PolicyInv, SawRows, LoginEndsWhatItSaw, ResetEndsWhatItSaw, Active, Idle
<1>2. TypeOK /\ RequestsFormed /\ PolicyInv /\ [Next]_vars => PolicyInv'
  BY PolicyStep
<1>3. QED
  BY <1>1, <1>2, TypeCorrect, PTL DEF Spec, PolicyInv

(* No session a completed password reset saw is ever active again. *)
THEOREM ResetSupersedes == Spec => []ResetEndsWhatItSaw
<1>1. Init => PolicyInv
  BY DEF Init, PolicyInv, SawRows, LoginEndsWhatItSaw, ResetEndsWhatItSaw, Active, Idle
<1>2. TypeOK /\ RequestsFormed /\ PolicyInv /\ [Next]_vars => PolicyInv'
  BY PolicyStep
<1>3. QED
  BY <1>1, <1>2, TypeCorrect, PTL DEF Spec, PolicyInv

-----------------------------------------------------------------------------
(* How many sessions of a user can be active.  The inductive invariant counts *)
(* with the active sessions the sign-ins in flight that saw none of them: each *)
(* may still add a session without ending one.  It has to speak of every part *)
(* of the active sessions, since a sign-in that commits ends the rest.        *)

(* The sign-ins of u in flight whose transaction saw none of the sessions in S. *)
Blind(u, S) ==
  {p \in Requests : /\ req[p].at = "creating" /\ req[p].user = u
                    /\ req[p].saw \cap S = {}}

CountInv ==
  \A u \in Users :
    /\ IsFiniteSet(Active(u))
    /\ \A S \in SUBSET Active(u) :
         Cardinality(S) + Cardinality(Blind(u, S)) <= Cardinality(Requests)

(* The sign-ins in flight can be counted. *)
LEMMA BlindFinite ==
  ASSUME NEW u, NEW S
  PROVE  /\ IsFiniteSet(Blind(u, S)) /\ Cardinality(Blind(u, S)) \in Nat
         /\ Cardinality(Blind(u, S)) <= Cardinality(Requests)
         /\ Cardinality(Requests) \in Nat
<1>1. Blind(u, S) \in SUBSET Requests
  BY DEF Blind
<1>2. IsFiniteSet(Requests)
  BY RequestsAreFinite
<1>3. IsFiniteSet(Blind(u, S)) /\ Cardinality(Blind(u, S)) <= Cardinality(Requests)
  BY <1>1, <1>2, FS_Subset
<1>4. QED
  BY <1>2, <1>3, FS_CardinalityType

(* A bound on two sets that can be counted is a bound on their parts. *)
LEMMA PartsCount ==
  ASSUME NEW S, NEW T, NEW A \in SUBSET S, NEW B \in SUBSET T, NEW n \in Nat,
         IsFiniteSet(S), IsFiniteSet(T), Cardinality(S) + Cardinality(T) <= n
  PROVE  Cardinality(A) + Cardinality(B) <= n
<1>1. /\ IsFiniteSet(A) /\ Cardinality(A) <= Cardinality(S)
      /\ IsFiniteSet(B) /\ Cardinality(B) <= Cardinality(T)
  BY FS_Subset
<1>2. /\ Cardinality(A) \in Nat /\ Cardinality(S) \in Nat
      /\ Cardinality(B) \in Nat /\ Cardinality(T) \in Nat
  BY <1>1, FS_CardinalityType
<1>3. QED
  BY <1>1, <1>2

(* Nor does the sum grow when one set gains an element and the other loses one. *)
LEMMA MoveCounts ==
  ASSUME NEW S, NEW T, NEW s, NEW p \in T, NEW B \in SUBSET (T \ {p}), NEW n \in Nat,
         IsFiniteSet(S), IsFiniteSet(T), s \notin S, Cardinality(S) + Cardinality(T) <= n
  PROVE  Cardinality(S \cup {s}) + Cardinality(B) <= n
<1>1. IsFiniteSet(S \cup {s}) /\ Cardinality(S \cup {s}) = Cardinality(S) + 1
  BY FS_AddElement
<1>2. IsFiniteSet(T \ {p}) /\ Cardinality(T \ {p}) = Cardinality(T) - 1
  BY FS_RemoveElement
<1>3. Cardinality(S) \in Nat /\ Cardinality(T) \in Nat
  BY FS_CardinalityType
<1>4. Cardinality(S \cup {s}) + Cardinality(T \ {p}) <= n
  BY <1>1, <1>2, <1>3
<1>5. QED
  BY <1>1, <1>2, <1>4, PartsCount

(* Apart from the two steps of a sign-in, no step makes a session active or starts a
   transaction that creates one. *)
LEMMA QuietStep ==
  ASSUME TypeOK, RequestsFormed, [Next]_vars
  PROVE  \/ \E p \in Requests : BeginCreateSession(p) \/ CommitCreateSession(p)
         \/ /\ \A u \in Users : Active(u)' \subseteq Active(u)
            /\ \A q \in Requests : req'[q].at = "creating" => req'[q] = req[q]
<1> DEFINE Waits == \A q \in Requests : req'[q].at = "creating" => req'[q] = req[q]
           Starts == \E p \in Requests : BeginCreateSession(p) \/ CommitCreateSession(p)
<1>1. ASSUME NEW p \in Requests, NEW u \in Users, NEW pw \in Passwords, Login(p, u, pw)
      PROVE  Waits
  BY <1>1 DEF Login, Idle, TypeOK
<1>1b. ASSUME NEW p \in Requests, NEW u \in Users, NEW pw \in Passwords, BeginReset(p, u, pw)
      PROVE  Waits
  BY <1>1b DEF BeginReset, Idle, TypeOK
<1>1a. ASSUME NEW p \in Requests, NEW u \in Users, GoogleSignIn(p, u)
       PROVE  Waits
  BY <1>1a DEF GoogleSignIn, Idle, TypeOK
<1>2. ASSUME NEW p \in Requests,
             RejectCreateSession(p) \/ LoseRotation(p) \/ Answer(p) \/ Abort(p) \/ CommitReset(p)
      PROVE  Waits
  BY <1>2 DEF RejectCreateSession, LoseRotation, Answer, Abort, CommitReset, Idle, TypeOK
<1>3. ASSUME NEW p \in Requests, NEW s \in Sessions, NEW t \in Tokens, LookupSession(p, s, t)
      PROVE  Waits
  BY <1>3 DEF LookupSession, Idle, TypeOK
<1>4. ASSUME NEW p \in Requests, Rotate(p)
      PROVE  Waits
  BY <1>4 DEF Rotate, Idle, TypeOK
<1>5. ASSUME req' = req
      PROVE  Waits
  BY <1>5
<1> HIDE DEF Waits, Starts
<1>6. Starts \/ Waits
  BY <1>1, <1>1a, <1>1b, <1>2, <1>3, <1>4, <1>5
     DEF Starts, Next, vars, Logout, ConfirmEmail, DeleteUser, Expire
<1>7. \/ \E p \in Requests : CommitCreateSession(p)
      \/ \A u \in Users : Active(u)' \subseteq Active(u)
  <2>1. ASSUME \A s \in Sessions : row'[s].owner = row[s].owner /\
                                   (row'[s].status = "active" => row[s].status = "active")
        PROVE  \A u \in Users : Active(u)' \subseteq Active(u)
    BY <2>1 DEF Active
  <2>2. CASE TableKept
    BY <2>1, <2>2 DEF TableKept, RowKept
  <2>3. ASSUME NEW p \in Requests, Rotate(p)
        PROVE  \A u \in Users : Active(u)' \subseteq Active(u)
    BY <2>1, <2>3, RotateKeeps
  <2>4. QED
    BY <2>2, <2>3, TableStep
<1>8. QED
  BY <1>6, <1>7 DEF Waits, Starts

(* Every step keeps the bound. *)
LEMMA CountStep ==
  ASSUME TypeOK, RequestsFormed, SawRows, CountInv, [Next]_vars
  PROVE  CountInv'
<1> SUFFICES ASSUME NEW u \in Users
             PROVE  /\ IsFiniteSet(Active(u)')
                    /\ \A S \in SUBSET Active(u)' :
                         Cardinality(S) + Cardinality(Blind(u, S)') <= Cardinality(Requests)
  BY DEF CountInv
<1>1. Cardinality(Requests) \in Nat
  BY BlindFinite
<1>2. /\ IsFiniteSet(Active(u))
      /\ \A S \in SUBSET Active(u) :
           Cardinality(S) + Cardinality(Blind(u, S)) <= Cardinality(Requests)
  BY DEF CountInv
<1>3. CASE /\ Active(u)' \subseteq Active(u)
           /\ \A q \in Requests : req'[q].at = "creating" => req'[q] = req[q]
  <2>1. IsFiniteSet(Active(u)')
    BY <1>2, <1>3, FS_Subset
  <2>2. ASSUME NEW S \in SUBSET Active(u)'
        PROVE  Cardinality(S) + Cardinality(Blind(u, S)') <= Cardinality(Requests)
    <3>1. S \in SUBSET Active(u) /\ IsFiniteSet(S)
      BY <1>2, <1>3, FS_Subset
    <3>2. Blind(u, S)' \in SUBSET Blind(u, S)
      BY <1>3 DEF Blind
    <3>3. QED
      BY <1>1, <1>2, <3>1, <3>2, BlindFinite, PartsCount
  <2>3. QED
    BY <2>1, <2>2
<1>4. ASSUME NEW p \in Requests, BeginCreateSession(p)
      PROVE  /\ IsFiniteSet(Active(u)')
             /\ \A S \in SUBSET Active(u)' :
                  Cardinality(S) + Cardinality(Blind(u, S)') <= Cardinality(Requests)
  <2>1. Active(u)' = Active(u)
    BY <1>4 DEF BeginCreateSession, Active
  <2>2. /\ req'[p].saw = Active(req[p].user) /\ req'[p].user = req[p].user
        /\ \A q \in Requests \ {p} : req'[q] = req[q]
    BY <1>4 DEF BeginCreateSession, TypeOK, Request
  <2>3. ASSUME NEW S \in SUBSET Active(u)
        PROVE  Cardinality(S) + Cardinality(Blind(u, S)') <= Cardinality(Requests)
    <3>1. CASE S = {}
      <4>1. Blind(u, S)' \in SUBSET Requests
        BY DEF Blind
      <4>2. IsFiniteSet(Requests)
        BY RequestsAreFinite
      <4>3. /\ IsFiniteSet(Blind(u, S)')
            /\ Cardinality(Blind(u, S)') <= Cardinality(Requests)
        BY <4>1, <4>2, FS_Subset
      <4>4. Cardinality(Blind(u, S)') \in Nat /\ Cardinality(S) = 0
        BY <3>1, <4>3, FS_CardinalityType, FS_EmptySet
      <4>5. QED
        BY <4>3, <4>4
    <3>2. CASE S # {}
      <4>1. p \notin Blind(u, S)'
        BY <2>2, <3>2 DEF Blind
      <4>2. Blind(u, S)' \in SUBSET Blind(u, S)
        BY <2>2, <4>1 DEF Blind
      <4>3. IsFiniteSet(S)
        BY <1>2, FS_Subset
      <4>4. QED
        BY <1>1, <1>2, <4>2, <4>3, BlindFinite, PartsCount
    <3>3. QED
      BY <3>1, <3>2
  <2>4. QED
    BY <1>2, <2>1, <2>3
<1>5. ASSUME NEW p \in Requests, CommitCreateSession(p)
      PROVE  /\ IsFiniteSet(Active(u)')
             /\ \A S \in SUBSET Active(u)' :
                  Cardinality(S) + Cardinality(Blind(u, S)') <= Cardinality(Requests)
  <2>1. PICK s \in Sessions, t \in Tokens :
          /\ row[s] = NoRow
          /\ row'[s] = [status |-> "active", owner |-> req[p].user, hash |-> t,
                        expired |-> FALSE]
          /\ \A x \in Sessions \ {s} :
               /\ RowKept(x)
               /\ x \in req[p].saw => row'[x].status # "active"
          /\ req'[p].at = "answer"
          /\ \A q \in Requests \ {p} : req'[q] = req[q]
    BY <1>5, SignInStep
  <2>2. s \notin Active(u) /\ \A q \in Requests : s \notin req[q].saw
    BY <2>1 DEF Active, NoRow, SawRows
  <2>3. Active(u)' \subseteq Active(u) \cup {s}
    BY <2>1 DEF Active, RowKept
  <2>4. IsFiniteSet(Active(u)')
    BY <1>2, <2>3, FS_AddElement, FS_Subset
  <2>5. ASSUME NEW S \in SUBSET Active(u)'
        PROVE  Cardinality(S) + Cardinality(Blind(u, S)') <= Cardinality(Requests)
    <3>1. CASE s \notin S
      <4>1. S \in SUBSET Active(u) /\ IsFiniteSet(S)
        BY <1>2, <2>3, <3>1, FS_Subset
      <4>2. Blind(u, S)' \in SUBSET Blind(u, S)
        BY <2>1 DEF Blind
      <4>3. QED
        BY <1>1, <1>2, <4>1, <4>2, BlindFinite, PartsCount
    <3>2. CASE s \in S
      <4> DEFINE T == S \ {s}
      <4>1. T \in SUBSET Active(u) /\ IsFiniteSet(T)
        BY <1>2, <2>3, FS_Subset
      <4>2. u = req[p].user
        BY <2>1, <3>2 DEF Active
      <4>3. req[p].saw \cap T = {}
        BY <2>1 DEF Active
      <4>4. p \in Blind(u, T)
        BY <1>5, <4>2, <4>3 DEF Blind, CommitCreateSession
      <4>5. Blind(u, S)' \in SUBSET (Blind(u, T) \ {p})
        BY <2>1, <2>2 DEF Blind
      <4>6. Cardinality(T) + Cardinality(Blind(u, T)) <= Cardinality(Requests)
        BY <1>2, <4>1
      <4>7. S = T \cup {s} /\ s \notin T
        BY <3>2
      <4> HIDE DEF T
      <4>8. QED
        BY <1>1, <1>2, <4>1, <4>4, <4>5, <4>6, <4>7, BlindFinite, MoveCounts
    <3>3. QED
      BY <3>1, <3>2
  <2>6. QED
    BY <2>4, <2>5
<1>6. QED
  BY <1>3, <1>4, <1>5, QuietStep

(* A user has at most as many active sessions as the API serves requests at once: sessions
   that are active together come from sign-ins that were in flight together. *)
THEOREM SessionsAreBounded == Spec => []ActiveBoundedByConcurrency
<1>1. Init => SawRows /\ CountInv
  <2> SUFFICES ASSUME Init PROVE SawRows /\ CountInv
    OBVIOUS
  <2>1. SawRows
    BY DEF Init, SawRows, Idle
  <2>2. \A u \in Users : Active(u) = {}
    BY DEF Init, Active, NoRow
  <2>3. ASSUME NEW u \in Users
        PROVE  Cardinality({}) + Cardinality(Blind(u, {})) <= Cardinality(Requests)
    BY BlindFinite, FS_EmptySet
  <2>4. QED
    BY <2>1, <2>2, <2>3, FS_EmptySet DEF CountInv
<1>2. TypeOK /\ RequestsFormed /\ SawRows /\ CountInv /\ [Next]_vars => CountInv'
  BY CountStep
<1>3. CountInv => ActiveBoundedByConcurrency
  <2> SUFFICES ASSUME CountInv, NEW u \in Users
               PROVE  Cardinality(Active(u)) <= Cardinality(Requests)
    BY DEF ActiveBoundedByConcurrency
  <2>1. IsFiniteSet(Active(u)) /\
        Cardinality(Active(u)) + Cardinality(Blind(u, Active(u))) <= Cardinality(Requests)
    BY DEF CountInv
  <2>2. Cardinality(Active(u)) \in Nat
    BY <2>1, FS_CardinalityType
  <2>3. QED
    BY <2>1, <2>2, BlindFinite
<1>4. Init => PolicyInv
  BY DEF Init, PolicyInv, SawRows, LoginEndsWhatItSaw, ResetEndsWhatItSaw, Active, Idle
<1>5. TypeOK /\ RequestsFormed /\ PolicyInv /\ [Next]_vars => PolicyInv'
  BY PolicyStep
<1>6. PolicyInv => SawRows
  BY DEF PolicyInv
<1>7. QED
  BY <1>1, <1>2, <1>3, <1>4, <1>5, <1>6, TypeCorrect, PTL DEF Spec

-----------------------------------------------------------------------------
(* Expiry.  After a late rotation nobody holds the session's current token:  *)
(* those in flight hold an older one, and no lookup succeeds any more.       *)

LateInv ==
  /\ \A p \in Requests : req[p].at = "rotate" => req[p].token \in issued
  /\ \A r \in rotations : r.late =>
       /\ row[r.session] # NoRow /\ row[r.session].expired
       /\ \A p \in Requests : req[p].at = "rotate" /\ req[p].session = r.session =>
                               req[p].token # row[r.session].hash
  /\ OneLateRotation

(* A step leaves a request out of "rotate", where it was, or looks a live session up. *)
LEMMA LookupStep ==
  ASSUME TypeOK, [Next]_vars, NEW q \in Requests
  PROVE  \/ req'[q] = req[q] \/ req'[q].at # "rotate"
         \/ \E s \in Sessions, t \in Tokens : LookupSession(q, s, t)
<1> DEFINE Same == req'[q] = req[q] \/ req'[q].at # "rotate"
<1> USE DEF TypeOK
<1>1. ASSUME NEW p \in Requests, NEW u \in Users, NEW pw \in Passwords, Login(p, u, pw)
      PROVE  Same
  BY <1>1 DEF Login, Idle
<1>2. ASSUME NEW p \in Requests, NEW u \in Users, GoogleSignIn(p, u)
      PROVE  Same
  BY <1>2 DEF GoogleSignIn, Idle
<1>3. ASSUME NEW p \in Requests, BeginCreateSession(p)
      PROVE  Same
  BY <1>3 DEF BeginCreateSession, Request
<1>4. ASSUME NEW p \in Requests, CommitCreateSession(p)
      PROVE  Same
  BY <1>4 DEF CommitCreateSession, Idle
<1>5. ASSUME NEW p \in Requests,
             RejectCreateSession(p) \/ LoseRotation(p) \/ Answer(p) \/ Abort(p) \/ CommitReset(p)
      PROVE  Same
  BY <1>5 DEF RejectCreateSession, LoseRotation, Answer, Abort, CommitReset, Idle
<1>6. ASSUME NEW p \in Requests, NEW s \in Sessions, NEW t \in Tokens,
             LookupSession(p, s, t), q # p
      PROVE  Same
  BY <1>6 DEF LookupSession
<1>7. ASSUME NEW p \in Requests, Rotate(p)
      PROVE  Same
  BY <1>7 DEF Rotate, Idle
<1>8. ASSUME NEW p \in Requests, NEW u \in Users, NEW pw \in Passwords, BeginReset(p, u, pw)
      PROVE  Same
  BY <1>8 DEF BeginReset, Idle
<1>9. ASSUME req' = req
      PROVE  Same
  BY <1>9
<1> HIDE DEF Same
<1>10. Same \/ \E s \in Sessions, t \in Tokens : LookupSession(q, s, t)
  BY <1>1, <1>2, <1>3, <1>4, <1>5, <1>6, <1>7, <1>8, <1>9
     DEF Next, vars, Logout, ConfirmEmail, DeleteUser, Expire
<1>11. QED
  BY <1>10 DEF Same

(* Every step keeps the rotations after expiry at one for each session. *)
LEMMA LateStep ==
  ASSUME TypeOK, RequestsFormed, TokenInv, LateInv, [Next]_vars
  PROVE  LateInv'
<1> USE DEF LateInv, OneLateRotation
<1>1. ASSUME NEW p \in Requests, CommitCreateSession(p)
      PROVE  LateInv'
  <2>1. PICK s \in Sessions, t \in Tokens :
           /\ row[s] = NoRow
           /\ row'[s] = [status |-> "active", owner |-> req[p].user, hash |-> t,
                         expired |-> FALSE]
           /\ \A x \in Sessions \ {s} : RowKept(x)
           /\ issued' = issued \cup {t} /\ rotations' = rotations
           /\ req'[p].at = "answer"
           /\ \A q \in Requests \ {p} : req'[q] = req[q]
    BY <1>1, SignInStep
  <2>2. \A r \in rotations : r.late => r.session \in Sessions \ {s}
    BY <2>1 DEF TypeOK, Rotation
  <2>3. QED
    BY <2>1, <2>2 DEF RowKept
<1>2. ASSUME NEW p \in Requests, Rotate(p)
      PROVE  LateInv'
  <2>1. PICK s \in Sessions, new \in Tokens :
           /\ s = req[p].session /\ req[p].at = "rotate"
           /\ row[s] \in UsedRow /\ new \notin issued
           /\ row[s].hash = req[p].token
           /\ row'[s] = [row[s] EXCEPT !.hash = new]
           /\ \A x \in Sessions \ {s} : row'[x] = row[x]
           /\ issued' = issued \cup {new}
           /\ rotations' = rotations \cup {[session |-> s, from |-> row[s].hash, to |-> new,
                                            late |-> row[s].expired]}
           /\ req'[p].at = "answer"
           /\ \A q \in Requests \ {p} : req'[q] = req[q]
    BY <1>2, RotateStep
  <2>2. \A r \in rotations : r.late => r.session # s
    BY <2>1
  <2>3. row'[s].hash = new /\ row'[s].expired = row[s].expired /\ row'[s] # NoRow
    BY <2>1 DEF UsedRow, NoRow
  <2>4. \A q \in Requests : req'[q].at = "rotate" =>
          req'[q] = req[q] /\ req[q].token \in issued /\ req[q].token # new
    BY <2>1
  <2> DEFINE won == [session |-> s, from |-> row[s].hash, to |-> new, late |-> row[s].expired]
  <2>5. \A r \in rotations' : r \in rotations \/ r = won
    BY <2>1
  <2>6. \A r \in rotations' : r.late =>
       /\ row'[r.session] # NoRow /\ row'[r.session].expired
       /\ \A q \in Requests : req'[q].at = "rotate" /\ req'[q].session = r.session =>
                               req'[q].token # row'[r.session].hash
    <3> SUFFICES ASSUME NEW r \in rotations', r.late
                 PROVE  /\ row'[r.session] # NoRow /\ row'[r.session].expired
                        /\ \A q \in Requests :
                             req'[q].at = "rotate" /\ req'[q].session = r.session =>
                             req'[q].token # row'[r.session].hash
      OBVIOUS
    <3>1. CASE r \in rotations
      <4>1. r.session \in Sessions \ {s}
        BY <2>2, <3>1 DEF TypeOK, Rotation
      <4>2. QED
        BY <2>1, <2>4, <3>1, <4>1
    <3>2. CASE r = won
      BY <2>3, <2>4, <3>2
    <3>3. QED
      BY <2>5, <3>1, <3>2
  <2>7. OneLateRotation'
    <3> SUFFICES ASSUME NEW r1 \in rotations', NEW r2 \in rotations',
                        r1.late, r2.late, r1.session = r2.session
                 PROVE  r1 = r2
      OBVIOUS
    <3>1. CASE r1 \in rotations /\ r2 \in rotations
      BY <3>1
    <3>2. CASE r1 \notin rotations \/ r2 \notin rotations
      BY <2>1, <2>2, <3>2
    <3>3. QED
      BY <3>1, <3>2
  <2>8. QED
    BY <2>1, <2>4, <2>6, <2>7
<1>3. CASE TableKept
  <2>1. ASSUME NEW q \in Requests, req'[q].at = "rotate"
        PROVE  /\ req'[q].token \in issued
               /\ \A r \in rotations : r.late /\ req'[q].session = r.session =>
                    req'[q].token # row[r.session].hash
    <3>1. CASE req'[q] = req[q]
      BY <2>1, <3>1
    <3>2. ASSUME NEW s \in Sessions, NEW t \in Tokens, LookupSession(q, s, t)
          PROVE  /\ req'[q].token \in issued
                 /\ \A r \in rotations : r.late /\ req'[q].session = r.session =>
                      req'[q].token # row[r.session].hash
      <4>1. req'[q].session = s /\ req'[q].token = t
        BY <3>2 DEF LookupSession, Idle, TypeOK
      <4>2. row[s] # NoRow /\ row[s].hash = t /\ ~row[s].expired
        BY <3>2 DEF LookupSession, Finds, NoRow
      <4>3. QED
        BY <4>1, <4>2 DEF TokenInv, TokensIssued
    <3>3. QED
      BY <2>1, <3>1, <3>2, LookupStep
  <2>2. \A r \in rotations : r.late => r.session \in Sessions
    BY DEF TypeOK, Rotation
  <2>3. QED
    BY <1>3, <2>1, <2>2 DEF TableKept, RowKept
<1>4. QED
  BY <1>1, <1>2, <1>3, TableStep

(* A session is rotated at most once after it expired, whatever requests are in flight. *)
THEOREM ExpiryBoundsRotation == Spec => []OneLateRotation
<1>1. Init => TokenInv /\ LateInv
  BY DEF Init, TokenInv, TokensIssued, HashUnique, RedeemedAreGone, RedeemedOnce, NoRow,
         LateInv, OneLateRotation, Idle
<1>2. TypeOK /\ RequestsFormed /\ TokenInv /\ LateInv /\ [Next]_vars => TokenInv' /\ LateInv'
  BY TokenStep, LateStep
<1>3. LateInv => OneLateRotation
  BY DEF LateInv
<1>4. QED
  BY <1>1, <1>2, <1>3, TypeCorrect, PTL DEF Spec

-----------------------------------------------------------------------------
(* A revoked session stays revoked and keeps its token: no refresh in flight, no sign-in
   and no reset brings it back. *)
THEOREM RevocationHolds == Spec => RevocationIsFinal
<1> DEFINE Final == \A s \in Sessions : row[s].status = "revoked" =>
                      row'[s].status \in {"revoked", "deleted"} /\ row'[s].hash = row[s].hash
<1>1. TypeOK /\ RequestsFormed /\ [Next]_vars => Final
  <2> SUFFICES ASSUME TypeOK, RequestsFormed, [Next]_vars
               PROVE  Final
    OBVIOUS
  <2>1. CASE TableKept
    BY <2>1 DEF TableKept, RowKept
  <2>2. ASSUME NEW p \in Requests, CommitCreateSession(p)
        PROVE  Final
    <3>1. PICK s \in Sessions : row[s] = NoRow /\ \A x \in Sessions \ {s} : RowKept(x)
      BY <2>2, SignInStep
    <3>2. QED
      BY <3>1 DEF RowKept, NoRow
  <2>3. ASSUME NEW p \in Requests, Rotate(p)
        PROVE  Final
    BY <2>3, RotateStep
  <2>4. QED
    BY <2>1, <2>2, <2>3, TableStep
<1>2. QED
  BY <1>1, TypeCorrect, PTL DEF Spec, RevocationIsFinal

-----------------------------------------------------------------------------
(* AuthSession implements SessionLedger: under the mapping Ledger, every     *)
(* step of the service opens, redeems or closes, or changes nothing the      *)
(* ledger sees.  TokenInv says that a token stands in one row at most, so    *)
(* ending a session spends its token; SawRows says that a transaction only   *)
(* revokes sessions of its own user.                                         *)

Live(s) == row[s].status = "active"

(* The mapped variables, session by session. *)
LEMMA Mapping ==
  ASSUME TypeOK
  PROVE  /\ \A s \in Sessions : LedgerCurrent[s] = IF Live(s) THEN row[s].hash ELSE None
         /\ \A s \in Sessions : Live(s) => row[s] # NoRow /\ row[s].hash \in Tokens
         /\ \A s \in Sessions : (LedgerCurrent[s] # None) <=> Live(s)
<1>1. \A s \in Sessions : Live(s) => row[s] # NoRow /\ row[s].hash \in Tokens
  BY RowShape DEF Live, NoRow, UsedRow
<1>2. QED
  BY <1>1, NoneIsAbsent DEF LedgerCurrent, Live

(* A step that creates no session, keeps every owner and token, and ends sessions of one
   user only is a Close of the ledger. *)
LEMMA CloseStep ==
  ASSUME TypeOK, TypeOK', TokenInv, issued' = issued, NEW u \in Users,
         \A s \in Sessions :
           /\ row'[s].owner = row[s].owner
           /\ row'[s].hash = row[s].hash
           /\ Live(s)' => Live(s)
           /\ Live(s) /\ ~Live(s)' => row[s].owner = u
  PROVE  Ledger!Next
<1> DEFINE ended == {s \in Sessions : Live(s) /\ ~Live(s)'}
<1>1. ended \in SUBSET Ledger!Live(u)
  BY Mapping DEF Ledger!Live, LedgerOwner
<1>2. \A s \in Sessions : LedgerCurrent'[s] = IF Live(s)' THEN row[s].hash ELSE None
  BY DEF LedgerCurrent, Live
<1>3. LedgerOwner' = LedgerOwner
  BY DEF LedgerOwner
<1>4. LedgerCurrent' = Ledger!Without(ended)
  BY <1>2, Mapping DEF Ledger!Without, LedgerCurrent, Live
<1>5. LedgerSpent' = LedgerSpent \cup {LedgerCurrent[s] : s \in ended}
  <2>1. ASSUME NEW t \in LedgerSpent'
        PROVE  t \in LedgerSpent \cup {LedgerCurrent[s] : s \in ended}
    <3>1. CASE \A s \in Sessions : LedgerCurrent[s] # t
      BY <2>1, <3>1 DEF LedgerSpent
    <3>2. ASSUME NEW s \in Sessions, LedgerCurrent[s] = t
          PROVE  s \in ended
      <4>1. t \in Tokens /\ LedgerCurrent'[s] # t
        BY <2>1 DEF LedgerSpent, TypeOK
      <4>2. Live(s) /\ row[s].hash = t
        BY <3>2, <4>1, Mapping, NoneIsAbsent
      <4>3. QED
        BY <1>2, <4>1, <4>2
    <3>3. QED
      BY <3>1, <3>2
  <2>2. ASSUME NEW s \in ended
        PROVE  LedgerCurrent[s] \in LedgerSpent'
    <3>1. LedgerCurrent[s] = row[s].hash /\ row[s] # NoRow /\ row[s].hash \in issued'
      BY Mapping DEF TokenInv, TokensIssued
    <3>2. ASSUME NEW x \in Sessions, LedgerCurrent'[x] = row[s].hash
          PROVE  FALSE
      <4>1. row[s].hash \in Tokens
        BY <3>1, Mapping
      <4>2. Live(x)' /\ row[x].hash = row[s].hash
        BY <1>2, <3>2, <4>1, NoneIsAbsent
      <4>3. x = s
        BY <3>1, <4>2, Mapping DEF TokenInv, HashUnique
      <4>4. QED
        BY <4>2, <4>3
    <3>3. QED
      BY <3>1, <3>2 DEF LedgerSpent
  <2>3. ASSUME NEW t \in LedgerSpent
        PROVE  t \in LedgerSpent'
    <3>1. t \in issued /\ t # None /\ \A x \in Sessions : LedgerCurrent[x] # t
      BY NoneIsAbsent DEF LedgerSpent, TypeOK
    <3>2. \A x \in Sessions : LedgerCurrent'[x] # t
      BY <1>2, <3>1, Mapping
    <3>3. QED
      BY <3>1, <3>2 DEF LedgerSpent
  <2>4. QED
    BY <2>1, <2>2, <2>3
<1>6. Ledger!Close(ended)
  BY <1>3, <1>4, <1>5 DEF Ledger!Close
<1>7. QED
  BY <1>1, <1>6 DEF Ledger!Next

(* A rotation is a Redeem of the ledger. *)
LEMMA RedeemStep ==
  ASSUME TypeOK, TypeOK', RequestsFormed, TokenInv, NEW p \in Requests, Rotate(p)
  PROVE  Ledger!Next
<1>1. PICK s \in Sessions, new \in Tokens :
         /\ s = req[p].session /\ req[p].at = "rotate"
         /\ row[s] \in UsedRow /\ row[s].status = "active" /\ new \notin issued
         /\ row[s].hash = req[p].token
         /\ row'[s] = [row[s] EXCEPT !.hash = new]
         /\ \A x \in Sessions \ {s} : row'[x] = row[x]
         /\ issued' = issued \cup {new} /\ birth' = birth /\ resetSaw' = resetSaw
         /\ rotations' = rotations \cup {[session |-> s, from |-> row[s].hash, to |-> new,
                                          late |-> row[s].expired]}
         /\ req'[p].at = "answer"
         /\ \A q \in Requests \ {p} : req'[q] = req[q]
  BY RotateStep
<1>2. row'[s].hash = new /\ row'[s].owner = row[s].owner /\ row'[s].status = "active"
  BY <1>1 DEF UsedRow
<1>3. LedgerOwner' = LedgerOwner
  BY <1>1, <1>2 DEF LedgerOwner
<1>4. LedgerCurrent' = [LedgerCurrent EXCEPT ![s] = new]
  BY <1>1, <1>2 DEF LedgerCurrent
<1>5. LedgerCurrent[s] = row[s].hash /\ row[s].hash \in issued /\ LedgerCurrent[s] # None
  BY <1>1, Mapping DEF Live, TokenInv, TokensIssued
<1>6. ASSUME NEW x \in Sessions, LedgerCurrent[x] \in issued
      PROVE  row[x] # NoRow /\ LedgerCurrent[x] = row[x].hash
  BY <1>6, Mapping, NoneIsAbsent DEF TypeOK
<1>7. Ledger!Fresh(new)
  BY <1>1, Mapping, NoneIsAbsent DEF Ledger!Fresh, LedgerSpent, TokenInv, TokensIssued
<1>8. LedgerSpent' = LedgerSpent \cup {LedgerCurrent[s]}
  <2>1. ASSUME NEW t \in LedgerSpent', t # LedgerCurrent[s]
        PROVE  t \in LedgerSpent
    <3>1. t # new
      BY <1>4 DEF LedgerSpent, LedgerCurrent
    <3>2. \A x \in Sessions : LedgerCurrent[x] # t
      BY <1>4, <2>1 DEF LedgerSpent, LedgerCurrent
    <3>3. QED
      BY <1>1, <3>1, <3>2 DEF LedgerSpent
  <2>2. ASSUME NEW t \in LedgerSpent
        PROVE  t \in LedgerSpent'
    <3>1. t \in issued /\ t # new
      BY <1>1 DEF LedgerSpent
    <3>2. \A x \in Sessions : LedgerCurrent'[x] # t
      BY <1>4, <3>1 DEF LedgerSpent, LedgerCurrent
    <3>3. QED
      BY <1>1, <3>1, <3>2 DEF LedgerSpent
  <2>3. LedgerCurrent[s] \in LedgerSpent'
    <3>1. ASSUME NEW x \in Sessions, LedgerCurrent'[x] = row[s].hash
          PROVE  FALSE
      <4>1. x # s /\ LedgerCurrent[x] = row[s].hash
        BY <1>1, <1>4, <1>5, <3>1 DEF LedgerCurrent
      <4>2. row[x] # NoRow /\ row[x].hash = row[s].hash
        BY <1>5, <1>6, <4>1
      <4>3. row[s] # NoRow
        BY <1>1, Mapping DEF Live
      <4>4. QED
        BY <4>1, <4>2, <4>3 DEF TokenInv, HashUnique
    <3>2. QED
      BY <1>1, <1>5, <3>1 DEF LedgerSpent
  <2>4. QED
    BY <2>1, <2>2, <2>3
<1>9. Ledger!Redeem(s)
  BY <1>3, <1>4, <1>5, <1>7, <1>8 DEF Ledger!Redeem
<1>10. QED
  BY <1>9 DEF Ledger!Next

(* A committed sign-in is an Open of the ledger. *)
LEMMA OpenStep ==
  ASSUME TypeOK, TypeOK', RequestsFormed, TokenInv, SawRows,
         NEW p \in Requests, CommitCreateSession(p)
  PROVE  Ledger!Next
<1> DEFINE u == req[p].user
<1>1. PICK n \in Sessions, t \in Tokens :
         /\ row[n] = NoRow /\ t \notin issued /\ u \in Users
         /\ row' = [Revoke(req[p].saw) EXCEPT
                      ![n] = [status |-> "active", owner |-> u, hash |-> t, expired |-> FALSE]]
         /\ issued' = issued \cup {t}
  BY DEF CommitCreateSession, NewSession, NewToken, RequestsFormed
<1> DEFINE ended == {s \in req[p].saw : Live(s)}
<1>2. req[p].saw \subseteq Sessions
  BY DEF TypeOK, Request
<1>3. ended \in SUBSET Ledger!Live(u)
  BY <1>2, Mapping DEF SawRows, Ledger!Live, LedgerOwner
<1>4. \A x \in Sessions \ {n} :
        /\ row'[x].owner = row[x].owner /\ row'[x].hash = row[x].hash
        /\ Live(x)' <=> Live(x) /\ x \notin ended
  BY <1>1, RevokeShape DEF Live
<1>5. Live(n)' /\ row'[n].owner = u /\ row'[n].hash = t /\ ~Live(n) /\ n \notin ended
  BY <1>1, RevokeShape, Mapping DEF Live
<1>6. LedgerOwner[n] = None /\ LedgerOwner' = [LedgerOwner EXCEPT ![n] = u]
  <2>1. LedgerOwner[n] = None
    BY <1>1 DEF LedgerOwner, NoRow
  <2>2. \A x \in Sessions : row'[x].owner = IF x = n THEN u ELSE row[x].owner
    BY <1>4, <1>5
  <2>3. LedgerOwner' = [s \in Sessions |-> IF s = n THEN u ELSE row[s].owner]
    BY <2>2 DEF LedgerOwner
  <2>4. QED
    BY <2>1, <2>3 DEF LedgerOwner
<1>7. \A x \in Sessions : LedgerCurrent'[x] = IF x = n THEN t ELSE
                             IF x \in ended THEN None ELSE LedgerCurrent[x]
  BY <1>4, <1>5 DEF LedgerCurrent, Live
<1>8. LedgerCurrent' = [Ledger!Without(ended) EXCEPT ![n] = t]
  BY <1>7 DEF Ledger!Without, LedgerCurrent
<1>9. Ledger!Fresh(t)
  BY <1>1, Mapping, NoneIsAbsent DEF Ledger!Fresh, LedgerSpent, TokenInv, TokensIssued
<1>10. LedgerSpent' = LedgerSpent \cup {LedgerCurrent[s] : s \in ended}
  <2>1. ASSUME NEW k \in LedgerSpent'
        PROVE  k \in LedgerSpent \cup {LedgerCurrent[s] : s \in ended}
    <3>1. k \in issued' /\ \A x \in Sessions : LedgerCurrent'[x] # k
      BY DEF LedgerSpent
    <3>2. k # t /\ k \in issued
      BY <1>1, <1>7, <3>1
    <3>3. CASE \A s \in Sessions : LedgerCurrent[s] # k
      BY <3>2, <3>3 DEF LedgerSpent
    <3>4. ASSUME NEW s \in Sessions, LedgerCurrent[s] = k
          PROVE  s \in ended
      <4>1. Live(s)
        BY <3>2, <3>4, Mapping, NoneIsAbsent DEF TypeOK
      <4>2. QED
        BY <1>5, <1>7, <3>1, <3>4, <4>1
    <3>5. QED
      BY <3>3, <3>4
  <2>2. ASSUME NEW s \in ended
        PROVE  LedgerCurrent[s] \in LedgerSpent'
    <3>1. s \in Sessions /\ LedgerCurrent[s] = row[s].hash /\ row[s] # NoRow
          /\ row[s].hash \in issued /\ row[s].hash \in Tokens
      BY <1>2, Mapping DEF TokenInv, TokensIssued
    <3>2. ASSUME NEW x \in Sessions, LedgerCurrent'[x] = row[s].hash
          PROVE  FALSE
      <4>1. x # n /\ x \notin ended /\ LedgerCurrent[x] = row[s].hash
        BY <1>1, <1>7, <3>1, <3>2, NoneIsAbsent
      <4>2. row[x] # NoRow /\ row[x].hash = row[s].hash
        BY <3>1, <4>1, Mapping, NoneIsAbsent
      <4>3. QED
        BY <3>1, <4>1, <4>2 DEF TokenInv, HashUnique
    <3>3. QED
      BY <1>1, <3>1, <3>2 DEF LedgerSpent
  <2>3. ASSUME NEW k \in LedgerSpent
        PROVE  k \in LedgerSpent'
    <3>1. k \in issued /\ k # t /\ k # None /\ \A x \in Sessions : LedgerCurrent[x] # k
      BY <1>1, NoneIsAbsent DEF LedgerSpent, TypeOK
    <3>2. \A x \in Sessions : LedgerCurrent'[x] # k
      BY <1>7, <3>1
    <3>3. QED
      BY <1>1, <3>1, <3>2 DEF LedgerSpent
  <2>4. QED
    BY <2>1, <2>2, <2>3
<1>11. Ledger!Open(u, ended)
  BY <1>6, <1>8, <1>9, <1>10 DEF Ledger!Open
<1>12. QED
  BY <1>1, <1>3, <1>11 DEF Ledger!Next

(* A step that touches neither the table nor the tokens is invisible to the ledger. *)
LEMMA StutterStep ==
  ASSUME row' = row, issued' = issued
  PROVE  UNCHANGED Ledger!ledger
BY DEF Ledger!ledger, LedgerOwner, LedgerCurrent, LedgerSpent

(* Every step of the service is a step of the ledger or invisible to it. *)
LEMMA RefinementStep ==
  ASSUME TypeOK, TypeOK', RequestsFormed, TokenInv, SawRows, [Next]_vars
  PROVE  [Ledger!Next]_(Ledger!ledger)
<1>1. ASSUME NEW p \in Requests, CommitReset(p)
      PROVE  Ledger!Next
  <2>1. issued' = issued /\ row' = Revoke(req[p].saw) /\ req[p].user \in Users
    BY <1>1 DEF CommitReset, RequestsFormed
  <2>2. \A s \in req[p].saw : row[s].owner = req[p].user
    BY DEF SawRows
  <2>3. QED
    BY <2>1, <2>2, RevokeShape, CloseStep DEF Live
<1>2. ASSUME NEW t \in Tokens, Logout(t)
      PROVE  Ledger!Next
  <2>1. PICK s \in Sessions : row' = Revoke({s}) /\ row' # row
    BY <1>2 DEF Logout
  <2>2. issued' = issued
    BY <1>2 DEF Logout
  <2>3. row[s].status = "active"
    BY <2>1 DEF Revoke, TypeOK
  <2>4. row[s].owner \in Users
    BY <2>3, RowShape DEF NoRow, UsedRow
  <2>5. QED
    BY <2>1, <2>2, <2>4, RevokeShape, CloseStep DEF Live
<1>3. ASSUME NEW u \in Users, DeleteUser(u)
      PROVE  Ledger!Next
  <2>1. ASSUME NEW s \in Sessions
        PROVE  /\ row'[s].owner = row[s].owner /\ row'[s].hash = row[s].hash
               /\ Live(s)' => Live(s)
               /\ Live(s) /\ ~Live(s)' => row[s].owner = u
    <3>1. CASE row[s].owner = u
      <4>1. row'[s] = [row[s] EXCEPT !.status = "deleted"]
        BY <1>3, <3>1 DEF DeleteUser
      <4>2. row[s] \in UsedRow
        BY <3>1, RowShape, NoneIsAbsent DEF NoRow
      <4>3. QED
        BY <3>1, <4>1, <4>2 DEF Live, UsedRow
    <3>2. CASE row[s].owner # u
      <4>1. row'[s] = row[s]
        BY <1>3, <3>2 DEF DeleteUser
      <4>2. QED
        BY <4>1 DEF Live
    <3>3. QED
      BY <3>1, <3>2
  <2>2. issued' = issued
    BY <1>3 DEF DeleteUser
  <2>3. QED
    BY <2>1, <2>2, CloseStep
<1>4. ASSUME NEW s \in Sessions, Expire(s)
      PROVE  UNCHANGED Ledger!ledger
  <2>1. row[s] \in UsedRow
    BY <1>4, RowShape DEF Expire
  <2>2. row'[s] = [row[s] EXCEPT !.expired = TRUE]
    BY <1>4 DEF Expire, TypeOK
  <2>3. row'[s].owner = row[s].owner /\ row'[s].hash = row[s].hash
        /\ row'[s].status = row[s].status
    BY <2>1, <2>2 DEF UsedRow
  <2>4. \A x \in Sessions : x # s => row'[x] = row[x]
    BY <1>4 DEF Expire, TypeOK
  <2>5. LedgerOwner' = LedgerOwner /\ LedgerCurrent' = LedgerCurrent
    BY <2>3, <2>4 DEF LedgerOwner, LedgerCurrent
  <2>6. QED
    BY <1>4, <2>5 DEF Expire, LedgerSpent, Ledger!ledger
<1>5. ASSUME NEW p \in Requests, CommitCreateSession(p) \/ Rotate(p)
      PROVE  Ledger!Next
  BY <1>5, OpenStep, RedeemStep
<1>6. QED
  BY <1>1, <1>2, <1>3, <1>4, <1>5, StutterStep
     DEF Next, vars, history, Login, GoogleSignIn, BeginCreateSession, RejectCreateSession,
         LookupSession, LoseRotation, Answer, Abort, BeginReset, ConfirmEmail

(* The session service implements the ledger: whatever requests run at the same time, a
   token is accepted only while it is current and never again after, and no operation ends
   sessions of two users. *)
THEOREM SessionsImplementLedger == Spec => ImplementsLedger
<1>1. Init => Ledger!Init
  BY DEF Init, Ledger!Init, LedgerOwner, LedgerCurrent, LedgerSpent, NoRow
<1>2. Init => TokenInv /\ PolicyInv
  BY DEF Init, TokenInv, TokensIssued, HashUnique, RedeemedAreGone, RedeemedOnce, NoRow,
         PolicyInv, SawRows, LoginEndsWhatItSaw, ResetEndsWhatItSaw, Active, Idle
<1>3. TypeOK /\ RequestsFormed /\ TokenInv /\ PolicyInv /\ [Next]_vars
        => TokenInv' /\ PolicyInv'
  BY TokenStep, PolicyStep
<1>4. TypeOK /\ TypeOK' /\ RequestsFormed /\ TokenInv /\ PolicyInv /\ [Next]_vars
        => [Ledger!Next]_(Ledger!ledger)
  BY RefinementStep DEF PolicyInv
<1>5. QED
  BY <1>1, <1>2, <1>3, <1>4, TypeCorrect, PTL DEF Spec, ImplementsLedger, Ledger!Spec
=============================================================================
