--------------------------- MODULE AccountTokens ---------------------------
(***************************************************************************)
(* The tokens mailed to users: email verification and password reset.      *)
(* EmailVerificationService and PasswordResetService share one life cycle: *)
(* issuing a token consumes the user's unconsumed tokens of that kind and  *)
(* inserts one; accepting a token consumes it and the others.              *)
(*                                                                         *)
(* The row locks that these transactions hold to their end are explicit,   *)
(* for they decide what two of them can do to each other: an UPDATE waits  *)
(* for the row and, at READ COMMITTED, evaluates its WHERE again on what   *)
(* it then finds.  What a transaction writes is visible when it commits.   *)
(***************************************************************************)
EXTENDS Naturals, FiniteSets

CONSTANTS
  Users,      \* users.id
  Requests,   \* requests the API serves at the same time
  Tokens,     \* tokens and their hashes, numbered in order of creation: bounds their number
  None,       \* absent
  Registered  \* the password chosen at registration

ASSUME AbsentValues ==
  None \notin Users \cup Tokens \cup {Registered} /\ Registered \notin Tokens
ASSUME TokensAreNumbers == Tokens \subseteq Nat
ASSUME RequestsAreFinite == IsFiniteSet(Requests)

VARIABLES
  user,       \* users with their CREDENTIALS account; a password is named by what set it
  tok,        \* email_verification_tokens and password_reset_tokens
  req,        \* requests: their locals, and the rows their transaction has locked
  mailed,     \* tokens that reached their user
  (* history, read by no guard *)
  ended,      \* the tokens that committed transactions saw unconsumed
  accepted    \* the uses of tokens: by which request, and whether it started after another

history == <<ended, accepted>>
vars    == <<user, tok, req, mailed, history>>

Kinds   == {"verify", "reset"}
Ops     == {"none", "register", "resend", "forgot", "verify", "reset", "delete"}
Stages  == {"idle", "begin", "account", "insert", "email", "token", "rest", "mail", "failed"}
Locks   == {"none", "share", "update", "delete"}   \* on users: KEY SHARE, NO KEY UPDATE, UPDATE
User    == [status : {"absent", "present", "deleted"}, verified : BOOLEAN,
            password : Tokens \cup {None, Registered}]
NoRow   == [status |-> "unused", kind |-> "verify", owner |-> None, expired |-> FALSE]
UsedRow == [status : {"live", "consumed", "deleted"}, kind : Kinds, owner : Users,
            expired : BOOLEAN]
Row     == UsedRow \cup {NoRow}
Request == [op : Ops, at : Stages, user : Users \cup {None}, token : Tokens \cup {None},
            late : BOOLEAN, lock : Locks, account : BOOLEAN, saw : SUBSET Tokens,
            todo : SUBSET Tokens, mine : SUBSET Tokens]

\* Every variable has its type.
TypeOK ==
  /\ user \in [Users -> User]
  /\ tok \in [Tokens -> Row]
  /\ req \in [Requests -> Request]
  /\ mailed \subseteq Tokens
  /\ ended \subseteq Tokens
  /\ accepted \subseteq [token : Tokens, by : Requests, late : BOOLEAN]

Idle == [op |-> "none", at |-> "idle", user |-> None, token |-> None, late |-> FALSE,
         lock |-> "none", account |-> FALSE, saw |-> {}, todo |-> {}, mine |-> {}]

Init ==
  /\ user = [u \in Users |-> [status |-> "absent", verified |-> FALSE, password |-> None]]
  /\ tok = [t \in Tokens |-> NoRow]
  /\ req = [p \in Requests |-> Idle]
  /\ mailed = {} /\ ended = {} /\ accepted = {}

Present(u) == user[u].status = "present"

KindOf(op) == IF op \in {"forgot", "reset"} THEN "reset" ELSE "verify"

NewToken(t) == tok[t] = NoRow /\ \A x \in Tokens : x < t => tok[x] # NoRow

\* where: { userId, consumedAt: null }: an expired token still counts.
Live(u, kind) == {t \in Tokens : /\ tok[t].status = "live"
                                 /\ tok[t].owner = u
                                 /\ tok[t].kind = kind}

-----------------------------------------------------------------------------
(* Row locks.                                                                *)

Clash(a, b) == \/ "delete" \in {a, b} /\ "none" \notin {a, b}
               \/ a = "update" /\ b = "update"

\* The other requests that keep p from locking the user, the account, a token.
UserHolders(p, lock) == {q \in Requests \ {p} : req[q].user = req[p].user
                                                /\ Clash(lock, req[q].lock)}
AccountHolders(p)    == {q \in Requests \ {p} : req[q].user = req[p].user /\ req[q].account}
TokenHolders(p, t)   == {q \in Requests \ {p} : t \in req[q].mine}

Put(p, r) == req' = [req EXCEPT ![p] = r]
End(p)    == Put(p, Idle)

Use(p)    == [token |-> req[p].token, by |-> p, late |-> req[p].late]

\* Consume (or, for a cascade, delete) the rows p locked.
Settled(p, status) ==
  [t \in Tokens |-> IF t \in req[p].mine THEN [tok[t] EXCEPT !.status = status] ELSE tok[t]]

-----------------------------------------------------------------------------
(* Issuing a token: createActiveToken in the transaction of its caller.      *)

\* register: the user, the account and the first token appear together.
Register(p, u) ==
  /\ req[p] = Idle
  /\ user[u].status = "absent"
  /\ \E t \in Tokens :
       /\ NewToken(t)
       /\ tok' = [tok EXCEPT ![t] = [status |-> "live", kind |-> "verify", owner |-> u,
                                     expired |-> FALSE]]
       /\ user' = [user EXCEPT ![u] = [status |-> "present", verified |-> FALSE,
                                       password |-> Registered]]
       /\ Put(p, [Idle EXCEPT !.op = "register", !.at = "mail", !.user = u, !.token = t])
  /\ UNCHANGED <<mailed, history>>

\* A user that starts with Google is verified and has no password.
RegisterWithGoogle(u) ==
  /\ user[u].status = "absent"
  /\ user' = [user EXCEPT ![u] = [status |-> "present", verified |-> TRUE, password |-> None]]
  /\ UNCHANGED <<tok, req, mailed, history>>

\* resend, forgotPassword: who is eligible is read before the transaction starts.
Ask(p, u, op) ==
  /\ req[p] = Idle
  /\ Present(u)
  /\ \/ op = "forgot" /\ user[u].verified
     \/ op = "resend" /\ ~user[u].verified /\ user[u].password # None
  /\ Put(p, [Idle EXCEPT !.op = op, !.at = "begin", !.user = u])
  /\ UNCHANGED <<user, tok, mailed, history>>

\* createActiveToken: the snapshot of its updateMany.
BeginIssue(p) ==
  /\ req[p].at = "begin" /\ req[p].op \in {"resend", "forgot"}
  /\ LET seen == Live(req[p].user, KindOf(req[p].op)) IN
     Put(p, [req[p] EXCEPT !.at = "rest", !.saw = seen, !.todo = seen])
  /\ UNCHANGED <<user, tok, mailed, history>>

LockToken_Skip(p, t) ==
  /\ req[p].at = "rest" /\ t \in req[p].todo
  /\ Put(p, [req[p] EXCEPT !.todo = @ \ {t}])
  /\ UNCHANGED <<user, tok, mailed, history>>

\* An updateMany locks its next row, and leaves it alone if it is consumed by now.  A
\* cascade takes every row.
LockToken(p, t) ==
  /\ req[p].at = "rest" /\ t \in req[p].todo
  /\ TokenHolders(p, t) = {}
  /\ LET taken == {t} \cap {x \in Tokens : tok[x].status = "live" \/ req[p].op = "delete"} IN
     Put(p, [req[p] EXCEPT !.todo = @ \ {t}, !.mine = @ \cup taken])
  /\ UNCHANGED <<user, tok, mailed, history>>

\* createActiveToken inserts the token (a KEY SHARE lock on the user) and commits.
CommitIssue(p) ==
  /\ req[p].at = "rest" /\ req[p].op \in {"resend", "forgot"} /\ req[p].todo = {}
  /\ UserHolders(p, "share") = {}
  /\ Present(req[p].user)
  /\ \E t \in Tokens :
       /\ NewToken(t)
       /\ tok' = [Settled(p, "consumed") EXCEPT
                    ![t] = [status |-> "live", kind |-> KindOf(req[p].op),
                            owner |-> req[p].user, expired |-> FALSE]]
       /\ Put(p, [Idle EXCEPT !.op = req[p].op, !.at = "mail", !.user = req[p].user,
                              !.token = t])
  /\ ended' = ended \cup req[p].saw
  /\ UNCHANGED <<user, mailed, accepted>>

\* The mail is sent after the commit.  If it fails (Abort), the answer is the same.
SendMail(p) ==
  /\ req[p].at = "mail"
  /\ mailed' = mailed \cup {req[p].token}
  /\ End(p)
  /\ UNCHANGED <<user, tok, history>>

-----------------------------------------------------------------------------
(* Accepting a token: verify and resetPassword.                              *)

\* The token is looked up, and refused if unknown, consumed or expired.
FindToken(p, t, op) ==
  /\ req[p] = Idle
  /\ t \in mailed
  /\ tok[t].status = "live" /\ ~tok[t].expired /\ KindOf(op) = tok[t].kind
  /\ Put(p, [Idle EXCEPT !.op = op, !.at = "begin", !.user = tok[t].owner, !.token = t,
                         !.late = \E a \in accepted : a.token = t])
  /\ UNCHANGED <<user, tok, mailed, history>>

\* The user (findUniqueOrThrow) and what it has are read, which decides the next write.
ReadUser(p) ==
  /\ req[p].at = "begin" /\ req[p].op \in {"verify", "reset"}
  /\ Present(req[p].user)
  /\ LET u == user[req[p].user]
         next == IF req[p].op = "verify" THEN IF u.verified THEN "token" ELSE "email"
                                         ELSE IF u.password = None THEN "insert" ELSE "account"
     IN  Put(p, [req[p] EXCEPT !.at = next])
  /\ UNCHANGED <<user, tok, mailed, history>>

LockUser_ForUpdate(p) ==
  /\ req[p].at = "email"
  /\ UserHolders(p, "delete") = {} /\ Present(req[p].user)
  /\ Put(p, [req[p] EXCEPT !.at = "token", !.lock = "delete"])
  /\ UNCHANGED <<user, tok, mailed, history>>

\* verify: update of emailVerifiedAt, which another request may have set meanwhile.
LockUser(p) ==
  /\ req[p].at = "email"
  /\ UserHolders(p, "update") = {} /\ Present(req[p].user)
  /\ Put(p, [req[p] EXCEPT !.at = "token", !.lock = "update"])
  /\ UNCHANGED <<user, tok, mailed, history>>

\* resetPassword: update of the account it found; deleteUser: the cascade reaches it.
LockAccount(p) ==
  /\ req[p].at = "account"
  /\ AccountHolders(p) = {} /\ Present(req[p].user)
  /\ IF req[p].op = "delete"
     THEN LET rows == {t \in Tokens : tok[t].owner = req[p].user} IN
          Put(p, [req[p] EXCEPT !.at = "rest", !.account = TRUE, !.todo = rows])
     ELSE Put(p, [req[p] EXCEPT !.at = "token", !.account = TRUE])
  /\ UNCHANGED <<user, tok, mailed, history>>

\* resetPassword creates the account of a user that had none: the foreign key locks the
\* user, the unique key waits for a concurrent insert.
InsertAccount(p) ==
  /\ req[p].at = "insert"
  /\ UserHolders(p, "share") = {} /\ AccountHolders(p) = {}
  /\ Present(req[p].user) /\ user[req[p].user].password = None
  /\ Put(p, [req[p] EXCEPT !.at = "token", !.account = TRUE, !.lock = "share"])
  /\ UNCHANGED <<user, tok, mailed, history>>

\* resetPassword lost that race.  The unique violation has aborted the transaction, so the
\* recovery's findFirst fails as well: the transaction rolls back and the request fails.
LoseInsert(p) ==
  /\ req[p].at = "insert"
  /\ UserHolders(p, "share") = {} /\ AccountHolders(p) = {}
  /\ Present(req[p].user) /\ user[req[p].user].password # None
  /\ Put(p, [Idle EXCEPT !.at = "failed", !.op = "reset"])
  /\ UNCHANGED <<user, tok, mailed, history>>

\* The token is consumed by id, whatever became of it; updateMany takes its snapshot of the
\* others.
ConsumeToken(p) ==
  /\ req[p].at = "token"
  /\ TokenHolders(p, req[p].token) = {} /\ tok[req[p].token].status # "deleted"
  /\ LET t == req[p].token
         rest == Live(req[p].user, KindOf(req[p].op)) \ {t} IN
     Put(p, [req[p] EXCEPT !.at = "rest", !.mine = {t}, !.saw = rest \cup {t}, !.todo = rest])
  /\ UNCHANGED <<user, tok, mailed, history>>

CommitReset_LeavesToken(p) ==
  LET u == req[p].user IN
  /\ req[p].at = "rest" /\ req[p].op = "reset" /\ req[p].todo = {}
  /\ user' = [user EXCEPT ![u].password = req[p].token]
  /\ tok' = [Settled(p, "consumed") EXCEPT ![req[p].token] = tok[req[p].token]]
  /\ ended' = ended \cup (req[p].saw \ {req[p].token})
  /\ accepted' = accepted \cup {Use(p)}
  /\ End(p)
  /\ UNCHANGED mailed

\* The account has the new password, the token and the others are consumed.
CommitReset(p) ==
  LET u == req[p].user IN
  /\ req[p].at = "rest" /\ req[p].op = "reset" /\ req[p].todo = {}
  /\ user' = [user EXCEPT ![u].password = req[p].token]
  /\ tok' = Settled(p, "consumed")
  /\ ended' = ended \cup req[p].saw
  /\ accepted' = accepted \cup {Use(p)}
  /\ End(p)
  /\ UNCHANGED mailed

\* The address is verified, the token and the others are consumed.
CommitVerify(p) ==
  LET u == req[p].user IN
  /\ req[p].at = "rest" /\ req[p].op = "verify" /\ req[p].todo = {}
  /\ user' = [user EXCEPT ![u].verified = (@ \/ req[p].lock = "update")]
  /\ tok' = Settled(p, "consumed")
  /\ ended' = ended \cup req[p].saw
  /\ accepted' = accepted \cup {Use(p)}
  /\ End(p)
  /\ UNCHANGED mailed

-----------------------------------------------------------------------------
(* The rest of the system.                                                   *)

\* resolveIdentity links Google to an unverified user and verifies it.
VerifyWithGoogle(u) ==
  /\ Present(u) /\ ~user[u].verified
  /\ \A q \in Requests : req[q].user = u => ~Clash("update", req[q].lock)
  /\ user' = [user EXCEPT ![u].verified = TRUE]
  /\ UNCHANGED <<tok, req, mailed, history>>

\* deleteUser locks the user; its cascade goes through the account, then the tokens.
BeginDelete(p, u) ==
  /\ req[p] = Idle
  /\ Present(u)
  /\ \A q \in Requests : req[q].user = u => req[q].lock = "none"
  /\ Put(p, [Idle EXCEPT !.op = "delete", !.at = "account", !.user = u, !.lock = "delete"])
  /\ UNCHANGED <<user, tok, mailed, history>>

CommitDelete_SetNull(p) ==
  /\ req[p].at = "rest" /\ req[p].op = "delete" /\ req[p].todo = {}
  /\ user' = [user EXCEPT ![req[p].user] =
                [status |-> "deleted", verified |-> FALSE, password |-> None]]
  /\ tok' = [t \in Tokens |-> IF t \in req[p].mine
                             THEN [tok[t] EXCEPT !.owner = None] ELSE tok[t]]
  /\ End(p)
  /\ UNCHANGED <<mailed, history>>

\* The user and its account and tokens go in one transaction.
CommitDelete(p) ==
  /\ req[p].at = "rest" /\ req[p].op = "delete" /\ req[p].todo = {}
  /\ user' = [user EXCEPT ![req[p].user] =
                [status |-> "deleted", verified |-> FALSE, password |-> None]]
  /\ tok' = Settled(p, "deleted")
  /\ End(p)
  /\ UNCHANGED <<mailed, history>>

\* A request fails at any await, for whatever reason: a row or user that is gone, a
\* serialization failure, a deadlock that PostgreSQL resolves, a crash.  The transaction
\* rolls back; after its commit only the mail is lost.
Abort(p) ==
  /\ req[p] # Idle
  /\ End(p)
  /\ UNCHANGED <<user, tok, mailed, history>>

\* The clock passes expiresAt.
Expire(t) ==
  /\ tok[t].status = "live" /\ ~tok[t].expired
  /\ tok' = [tok EXCEPT ![t].expired = TRUE]
  /\ UNCHANGED <<user, req, mailed, history>>

Next ==
  \/ \E p \in Requests, u \in Users : Register(p, u)
  \/ \E u \in Users : RegisterWithGoogle(u)
  \/ \E p \in Requests, u \in Users, op \in {"forgot", "resend"} : Ask(p, u, op)
  \/ \E p \in Requests : BeginIssue(p)
  \/ \E p \in Requests, t \in Tokens : LockToken(p, t)
  \/ \E p \in Requests : CommitIssue(p)
  \/ \E p \in Requests : SendMail(p)
  \/ \E p \in Requests, t \in Tokens, op \in {"verify", "reset"} : FindToken(p, t, op)
  \/ \E p \in Requests : ReadUser(p)
  \/ \E p \in Requests : LockUser(p)
  \/ \E p \in Requests : LockAccount(p)
  \/ \E p \in Requests : InsertAccount(p)
  \/ \E p \in Requests : LoseInsert(p)
  \/ \E p \in Requests : ConsumeToken(p)
  \/ \E p \in Requests : CommitReset(p)
  \/ \E p \in Requests : CommitVerify(p)
  \/ \E u \in Users : VerifyWithGoogle(u)
  \/ \E p \in Requests, u \in Users : BeginDelete(p, u)
  \/ \E p \in Requests : CommitDelete(p)
  \/ \E p \in Requests : Abort(p)
  \/ \E t \in Tokens : Expire(t)

Spec == Init /\ [][Next]_vars

-----------------------------------------------------------------------------
(* Properties.                                                               *)

\* A token that a committed transaction saw unconsumed is never usable again: issuing a
\* token ends the older links, a reset or a verification ends them all, and no transaction
\* in flight, rolled back or overtaken revives one.
CommitEndsWhatItSaw == \A t \in ended : tok[t].status # "live"

\* A user has at most as many usable tokens of a kind as there are requests at once: older
\* ones survive only issues that run at the same time.
LiveBoundedByConcurrency ==
  \A u \in Users, kind \in Kinds : Cardinality(Live(u, kind)) <= Cardinality(Requests)

\* The new password and the end of the token that bought it are one transaction: a password
\* set by a reset comes from a reset token of that user, and the token is spent.
PasswordSpendsItsToken ==
  \A u \in Users : LET t == user[u].password IN
    t \in Tokens => tok[t].status = "consumed" /\ tok[t].kind = "reset" /\ tok[t].owner = u

\* A request that starts after a use of its token has committed is never accepted: a token
\* works twice only in requests that overlap.
NoUseAfterUse == \A a \in accepted : ~a.late

\* The requests that p waits for, when it waits.
WaitsFor(p) ==
  CASE req[p].at = "email"   -> UserHolders(p, "update")
    [] req[p].at = "account" -> AccountHolders(p)
    [] req[p].at = "insert"  -> UserHolders(p, "share") \cup AccountHolders(p)
    [] req[p].at = "token"   -> TokenHolders(p, req[p].token)
    [] req[p].at = "rest" /\ req[p].todo # {} -> UNION {TokenHolders(p, t) : t \in req[p].todo}
    [] req[p].at = "rest" /\ req[p].todo = {} /\ req[p].op \in {"resend", "forgot"} ->
         UserHolders(p, "share")
    [] OTHER -> {}

Deadlocked(P) == P # {} /\ \A p \in P : WaitsFor(p) \cap P # {}

\* Issues, resets and verifications wait for each other in a circle only if one of them met
\* two usable tokens: with one, they all lock in the same order.  A deletion locks the other
\* way round, and PostgreSQL may have to break the circle.
DeadlockNeedsTwoTokens ==
  \A P \in SUBSET Requests : Deadlocked(P) =>
    \E p \in P : \/ req[p].op = "delete"
                 \/ \E t1, t2 \in req[p].saw : t1 # t2

\* packages/db/prisma/schema.prisma: "Single-use, expiring password reset token."
SingleUse ==
  \A a, b \in accepted : a.token = b.token /\ tok[a.token].kind = "reset" => a = b

\* docs/authentication.md: a concurrent create of the same CREDENTIALS account is
\* reconciled, so recovery stays race-safe.
RaceIsReconciled == \A p \in Requests : req[p].at # "failed"
=============================================================================
