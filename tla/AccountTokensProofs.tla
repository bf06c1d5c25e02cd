------------------------ MODULE AccountTokensProofs ------------------------
(***************************************************************************)
(* What AccountTokens guarantees for any number of users, tokens and       *)
(* concurrent requests.  The inductive invariant says which locals a       *)
(* request has at each stage (Local), what the rows it refers to are       *)
(* (Refers), and that no two requests hold the same row (Exclusive).       *)
(***************************************************************************)
EXTENDS AccountTokens, FiniteSetTheorems, TLAPS

Accepting == {"verify", "reset"}
Issuing   == {"resend", "forgot"}

(* The locals of a request, stage by stage. *)
Local(r) ==
  /\ r.at \notin {"idle", "failed"} => r.user \in Users
  /\ r.op \in Accepting /\ r.at # "failed" => r.token \in Tokens
  /\ r.at = "mail" => r.token \in Tokens
  /\ r.at = "begin" => r.op \in Issuing \cup Accepting
  /\ r.at \in {"email", "insert", "token"} => r.op \in Accepting
  /\ r.at = "account" => r.op \in {"reset", "delete"}
  /\ r.at = "rest" => r.op \in Issuing \cup Accepting \cup {"delete"}
  /\ r.at = "rest" /\ r.op \in Accepting => r.token \in r.mine
  /\ r.at # "rest" => r.mine = {} /\ r.todo = {} /\ r.saw = {}
  /\ r.mine \cap r.todo = {}
  /\ r.op # "delete" => r.mine \cup r.todo \subseteq r.saw
  /\ r.lock = "delete" => r.op = "delete"
  /\ r.lock # "none" => r.at \in {"token", "rest"} \/ r.op = "delete"
  /\ r.account => r.at \in {"token", "rest"}
LocalInv == \A p \in Requests : Local(req[p])

(* Consuming or deleting locked rows keeps the table a table. *)
LEMMA SettledShape ==
  ASSUME TypeOK, NEW p \in Requests, NEW status \in {"consumed", "deleted"},
         \A t \in req[p].mine : tok[t] \in UsedRow
  PROVE  /\ Settled(p, status) \in [Tokens -> Row]
         /\ \A t \in Tokens : /\ t \in req[p].mine =>
                                   /\ Settled(p, status)[t] \in UsedRow
                                   /\ Settled(p, status)[t].status = status
                                   /\ Settled(p, status)[t].owner = tok[t].owner
                                   /\ Settled(p, status)[t].kind = tok[t].kind
                              /\ t \notin req[p].mine => Settled(p, status)[t] = tok[t]
<1>1. ASSUME NEW t \in Tokens, t \in req[p].mine
      PROVE  /\ Settled(p, status)[t] \in UsedRow
             /\ Settled(p, status)[t].status = status
             /\ Settled(p, status)[t].owner = tok[t].owner
             /\ Settled(p, status)[t].kind = tok[t].kind
  <2>1. Settled(p, status)[t] = [tok[t] EXCEPT !.status = status]
    BY <1>1 DEF Settled
  <2>2. tok[t] \in UsedRow
    BY <1>1
  <2>3. QED
    BY <2>1, <2>2 DEF UsedRow
<1>2. ASSUME NEW t \in Tokens, t \notin req[p].mine
      PROVE  Settled(p, status)[t] = tok[t]
  BY <1>2 DEF Settled
<1>3. Settled(p, status) = [t \in Tokens |-> Settled(p, status)[t]]
  BY DEF Settled
<1>4. \A t \in Tokens : Settled(p, status)[t] \in Row
  BY <1>1, <1>2 DEF TypeOK, Row
<1>5. QED
  BY <1>1, <1>2, <1>3, <1>4

(* What a request refers to in the table of tokens. *)
Refers(r, rows) ==
  /\ r.op \in Accepting /\ r.at # "failed" =>
       /\ rows[r.token] \in UsedRow
       /\ rows[r.token].owner = r.user
       /\ rows[r.token].kind = KindOf(r.op)
  /\ \A t \in r.saw \cup r.mine \cup r.todo : rows[t] \in UsedRow /\ rows[t].owner = r.user
  /\ r.at = "rest" /\ r.op # "delete" =>
       \A t \in r.saw : t \in r.todo \cup r.mine \/ rows[t].status # "live"
  /\ r.at = "rest" /\ r.op \in Accepting => rows[r.token].status # "deleted"
RefersInv == \A p \in Requests : Refers(req[p], tok)

(* No two requests hold the same row. *)
Exclusive == \A p, q \in Requests : p # q => req[p].mine \cap req[q].mine = {}

(* The row of t keeps its owner and its kind, and once ended never comes back. *)
RowKept(t) ==
  tok[t] \in UsedRow =>
    /\ tok'[t] \in UsedRow
    /\ tok'[t].owner = tok[t].owner
    /\ tok'[t].kind = tok[t].kind
    /\ tok'[t].status = "live" => tok[t].status = "live"

(* A row with an owner is in use. *)
LEMMA RowShape ==
  ASSUME TypeOK, NEW t \in Tokens, tok[t] # NoRow
  PROVE  tok[t] \in UsedRow
BY DEF TypeOK, Row

-----------------------------------------------------------------------------
(* Types and locals.                                                         *)

(* A step of p sets its locals and leaves the other requests alone. *)
LEMMA PutLift ==
  ASSUME TypeOK, LocalInv, NEW p \in Requests, NEW r, r \in Request /\ Local(r), Put(p, r)
  PROVE  /\ req' \in [Requests -> Request]
         /\ LocalInv'
         /\ req'[p] = r
         /\ \A q \in Requests \ {p} : req'[q] = req[q]
BY DEF LocalInv, Put, TypeOK

(* A request that ends, for whatever reason, has nothing left. *)
LEMMA IdleShape == Idle \in Request /\ Local(Idle)
BY DEF Local, Idle, Request, Accepting, Issuing, Stages, Ops, Locks

(* What a request that has sent its first token looks like. *)
LEMMA MailShape ==
  ASSUME NEW u \in Users, NEW t \in Tokens, NEW op \in {"register", "resend", "forgot"},
         NEW r, r = [Idle EXCEPT !.op = op, !.at = "mail", !.user = u, !.token = t]
  PROVE  r \in Request /\ Local(r)
BY DEF Local, Idle, Request, Accepting, Issuing, Stages, Ops, Locks

(* What a request that presents a token looks like. *)
LEMMA PresentShape ==
  ASSUME NEW u \in Users, NEW t \in Tokens, NEW late \in BOOLEAN, NEW op \in Accepting,
         NEW r, r = [Idle EXCEPT !.op = op, !.at = "begin", !.user = u, !.token = t,
                                 !.late = late]
  PROVE  r \in Request /\ Local(r)
BY DEF Local, Idle, Request, Accepting, Issuing, Stages, Ops, Locks

(* Every step keeps the types and the shape of the locals. *)
LEMMA TypeStep ==
  ASSUME TypeOK, LocalInv, RefersInv, [Next]_vars
  PROVE  TypeOK' /\ LocalInv'
<1> DEFINE Good == TypeOK' /\ LocalInv'
<1>1. ASSUME NEW p \in Requests, NEW u \in Users, Register(p, u)
      PROVE  Good
  <2>1. PICK t \in Tokens :
          /\ tok' = [tok EXCEPT ![t] = [status |-> "live", kind |-> "verify", owner |-> u,
                                        expired |-> FALSE]]
          /\ Put(p, [Idle EXCEPT !.op = "register", !.at = "mail", !.user = u, !.token = t])
    BY <1>1 DEF Register
  <2>2. req' \in [Requests -> Request] /\ LocalInv'
    BY <2>1, MailShape, PutLift
  <2>3. tok' \in [Tokens -> Row]
    BY <2>1 DEF TypeOK, Row, UsedRow, Kinds
  <2>4. user' \in [Users -> User]
    BY <1>1 DEF Register, TypeOK, User
  <2>5. QED
    BY <1>1, <2>2, <2>3, <2>4 DEF Register, TypeOK, history
<1>2. ASSUME NEW u \in Users, RegisterWithGoogle(u) \/ VerifyWithGoogle(u)
      PROVE  Good
  <2>1. [user[u] EXCEPT !.verified = TRUE] \in User
    BY DEF TypeOK, User
  <2>2. user' \in [Users -> User]
    <3>1. CASE RegisterWithGoogle(u)
      BY <3>1 DEF RegisterWithGoogle, TypeOK, User
    <3>2. CASE VerifyWithGoogle(u)
      <4>1. user' = [user EXCEPT ![u] = [user[u] EXCEPT !.verified = TRUE]]
        BY <3>2 DEF VerifyWithGoogle
      <4>2. QED
        BY <2>1, <4>1 DEF TypeOK
    <3>3. QED
      BY <1>2, <3>1, <3>2
  <2>3. QED
    BY <1>2, <2>2 DEF RegisterWithGoogle, VerifyWithGoogle, TypeOK, history, LocalInv
<1>3. ASSUME NEW p \in Requests, NEW u \in Users, NEW op \in {"forgot", "resend"}, Ask(p, u, op)
      PROVE  Good
  <2> DEFINE r == [Idle EXCEPT !.op = op, !.at = "begin", !.user = u]
  <2>1. r \in Request /\ Local(r) /\ Put(p, r)
    BY <1>3 DEF Ask, Local, Idle, Request, Accepting, Issuing, Stages, Ops, Locks
  <2>2. QED
    BY <1>3, <2>1, PutLift DEF Ask, TypeOK, history
<1>4. ASSUME NEW p \in Requests, BeginIssue(p)
      PROVE  Good
  <2> DEFINE seen == Live(req[p].user, KindOf(req[p].op))
             r    == [req[p] EXCEPT !.at = "rest", !.saw = seen, !.todo = seen]
  <2>1. seen \subseteq Tokens
    BY DEF Live
  <2>2. Put(p, r) /\ req[p].op \in Issuing /\ req[p].at = "begin"
    BY <1>4 DEF BeginIssue, Issuing
  <2>3. req[p] \in Request /\ Local(req[p])
    BY DEF TypeOK, LocalInv
  <2> HIDE DEF seen
  <2>4. r \in Request /\ Local(r)
    BY <2>1, <2>2, <2>3 DEF Local, Request, Accepting, Issuing, Stages
  <2>5. QED
    BY <1>4, <2>2, <2>4, PutLift DEF BeginIssue, TypeOK, history
<1>5. ASSUME NEW p \in Requests, NEW t \in Tokens, LockToken(p, t)
      PROVE  Good
  <2> DEFINE taken == {t} \cap {x \in Tokens : tok[x].status = "live" \/ req[p].op = "delete"}
             r     == [req[p] EXCEPT !.todo = @ \ {t}, !.mine = @ \cup taken]
  <2>1. taken \subseteq {t} /\ t \in req[p].todo /\ req[p].at = "rest"
    BY <1>5 DEF LockToken
  <2>2. Put(p, r)
    BY <1>5 DEF LockToken
  <2>3. req[p] \in Request /\ Local(req[p])
    BY DEF TypeOK, LocalInv
  <2> HIDE DEF taken
  <2>4. r \in Request /\ Local(r)
    BY <2>1, <2>3 DEF Local, Request, Accepting, Issuing
  <2>5. QED
    BY <1>5, <2>2, <2>4, PutLift DEF LockToken, TypeOK, history
<1>6. ASSUME NEW p \in Requests, CommitIssue(p)
      PROVE  Good
  <2>1. PICK t \in Tokens :
          /\ tok' = [Settled(p, "consumed") EXCEPT
                       ![t] = [status |-> "live", kind |-> KindOf(req[p].op),
                               owner |-> req[p].user, expired |-> FALSE]]
          /\ Put(p, [Idle EXCEPT !.op = req[p].op, !.at = "mail", !.user = req[p].user,
                                 !.token = t])
    BY <1>6 DEF CommitIssue
  <2>2. req[p].user \in Users /\ req[p].saw \subseteq Tokens /\ req[p].op \in Issuing
    BY <1>6 DEF CommitIssue, LocalInv, Local, TypeOK, Request, Issuing
  <2> DEFINE r == [Idle EXCEPT !.op = req[p].op, !.at = "mail", !.user = req[p].user,
                               !.token = t]
  <2>3. r \in Request /\ Local(r)
    BY <2>2, MailShape DEF Issuing
  <2>4. Settled(p, "consumed") \in [Tokens -> Row]
    BY SettledShape DEF RefersInv, Refers
  <2>5. KindOf(req[p].op) \in Kinds
    BY DEF KindOf, Kinds
  <2>6. tok' \in [Tokens -> Row]
    BY <2>1, <2>2, <2>4, <2>5 DEF Row, UsedRow
  <2>7. QED
    BY <1>6, <2>1, <2>2, <2>3, <2>6, PutLift DEF CommitIssue, TypeOK
<1>7. ASSUME NEW p \in Requests, SendMail(p)
      PROVE  Good
  <2>1. req[p].token \in Tokens
    BY <1>7 DEF SendMail, LocalInv, Local
  <2>2. QED
    BY <1>7, <2>1, IdleShape, PutLift DEF SendMail, End, TypeOK, history
<1>8. ASSUME NEW p \in Requests, NEW t \in Tokens, NEW op \in {"verify", "reset"},
             FindToken(p, t, op)
      PROVE  Good
  <2>1. tok[t].owner \in Users
    BY <1>8, RowShape DEF FindToken, NoRow, UsedRow
  <2>2. PICK late \in BOOLEAN :
          Put(p, [Idle EXCEPT !.op = op, !.at = "begin", !.user = tok[t].owner, !.token = t,
                              !.late = late])
    BY <1>8 DEF FindToken
  <2>3. req' \in [Requests -> Request] /\ LocalInv'
    BY <2>1, <2>2, PresentShape, PutLift DEF Accepting
  <2>4. QED
    BY <1>8, <2>3 DEF FindToken, TypeOK, history
<1>9. ASSUME NEW p \in Requests, ReadUser(p)
      PROVE  Good
  <2>1. PICK stage \in {"token", "email", "insert", "account"} :
          /\ Put(p, [req[p] EXCEPT !.at = stage])
          /\ req[p].at = "begin" /\ req[p].op \in Accepting
          /\ stage = "account" => req[p].op = "reset"
    BY <1>9 DEF ReadUser, Accepting
  <2>2. req[p] \in Request /\ Local(req[p])
    BY DEF TypeOK, LocalInv
  <2>3. [req[p] EXCEPT !.at = stage] \in Request /\ Local([req[p] EXCEPT !.at = stage])
    BY <2>1, <2>2 DEF Request, Local, Accepting, Issuing, Stages
  <2>4. QED
    BY <1>9, <2>1, <2>3, PutLift DEF ReadUser, TypeOK, history
<1>10. ASSUME NEW p \in Requests, LockUser(p) \/ InsertAccount(p)
      PROVE  Good
  <2>1. req[p] \in Request /\ Local(req[p]) /\ req[p].at \in {"email", "insert"}
    BY <1>10 DEF TypeOK, LocalInv, LockUser, InsertAccount
  <2>2. PICK lock \in {"update", "share"}, account \in BOOLEAN :
          Put(p, [req[p] EXCEPT !.at = "token", !.account = account, !.lock = lock])
    <3>1. CASE LockUser(p)
      <4>1. [req[p] EXCEPT !.at = "token", !.lock = "update"] =
            [req[p] EXCEPT !.at = "token", !.account = req[p].account, !.lock = "update"]
        BY <2>1 DEF Request
      <4>2. req[p].account \in BOOLEAN
        BY <2>1 DEF Request
      <4>3. QED
        BY <3>1, <4>1, <4>2 DEF LockUser
    <3>2. CASE InsertAccount(p)
      BY <3>2 DEF InsertAccount
    <3>3. QED
      BY <1>10, <3>1, <3>2
  <2> DEFINE r == [req[p] EXCEPT !.at = "token", !.account = account, !.lock = lock]
  <2>3. r \in Request /\ Local(r)
    BY <2>1, <2>2 DEF Request, Local, Accepting, Issuing, Stages, Locks
  <2>4. QED
    BY <1>10, <2>2, <2>3, PutLift DEF LockUser, InsertAccount, TypeOK, history
<1>11. ASSUME NEW p \in Requests, LockAccount(p)
      PROVE  Good
  <2> DEFINE rows == {t \in Tokens : tok[t].owner = req[p].user}
             d    == [req[p] EXCEPT !.at = "rest", !.account = TRUE, !.todo = rows]
             r    == [req[p] EXCEPT !.at = "token", !.account = TRUE]
  <2>1. req[p] \in Request /\ Local(req[p]) /\ req[p].at = "account"
    BY <1>11 DEF TypeOK, LocalInv, LockAccount
  <2>2. \/ req[p].op = "delete" /\ Put(p, d)
        \/ req[p].op # "delete" /\ Put(p, r)
    BY <1>11 DEF LockAccount
  <2>3. rows \subseteq Tokens
    OBVIOUS
  <2> HIDE DEF rows
  <2>4. req[p].op = "delete" => d \in Request /\ Local(d)
    BY <2>1, <2>3 DEF Request, Local, Accepting, Issuing, Stages
  <2>5. req[p].op # "delete" => r \in Request /\ Local(r)
    BY <2>1 DEF Request, Local, Accepting, Issuing, Stages
  <2>6. QED
    BY <1>11, <2>2, <2>4, <2>5, PutLift DEF LockAccount, TypeOK, history
<1>12. ASSUME NEW p \in Requests, LoseInsert(p)
      PROVE  Good
  <2> DEFINE r == [Idle EXCEPT !.at = "failed", !.op = "reset"]
  <2>1. Put(p, r) /\ r \in Request /\ Local(r)
    BY <1>12 DEF LoseInsert, Request, Local, Idle, Accepting, Issuing, Stages, Ops, Locks
  <2>2. QED
    BY <1>12, <2>1, PutLift DEF LoseInsert, TypeOK, history
<1>13. ASSUME NEW p \in Requests, ConsumeToken(p)
      PROVE  Good
  <2> DEFINE rest == Live(req[p].user, KindOf(req[p].op)) \ {req[p].token}
             r    == [req[p] EXCEPT !.at = "rest", !.mine = {req[p].token},
                                    !.saw = rest \cup {req[p].token}, !.todo = rest]
  <2>1. req[p] \in Request /\ Local(req[p]) /\ req[p].at = "token"
    BY <1>13 DEF TypeOK, LocalInv, ConsumeToken
  <2>2. rest \subseteq Tokens /\ req[p].token \notin rest /\ req[p].token \in Tokens
    BY <2>1 DEF Live, Local
  <2>3. Put(p, r)
    BY <1>13 DEF ConsumeToken
  <2> HIDE DEF rest
  <2>4. r \in Request /\ Local(r)
    BY <2>1, <2>2 DEF Request, Local, Accepting, Issuing, Stages
  <2>5. QED
    BY <1>13, <2>3, <2>4, PutLift DEF ConsumeToken, TypeOK, history
<1>14. ASSUME NEW p \in Requests, CommitReset(p) \/ CommitVerify(p) \/ CommitDelete(p)
      PROVE  Good
  <2>1. PICK status \in {"consumed", "deleted"} : tok' = Settled(p, status)
    BY <1>14 DEF CommitReset, CommitVerify, CommitDelete
  <2>2. tok' \in [Tokens -> Row]
    BY <2>1, SettledShape DEF RefersInv, Refers
  <2>3. req[p].user \in Users /\ req[p].saw \subseteq Tokens /\ req[p].late \in BOOLEAN
    BY <1>14 DEF CommitReset, CommitVerify, CommitDelete, LocalInv, Local, TypeOK, Request
  <2>4. req[p].op \in Accepting => req[p].token \in Tokens
    BY <1>14 DEF CommitReset, CommitVerify, CommitDelete, LocalInv, Local
  <2>5. user' \in [Users -> User]
    <3> DEFINE u == req[p].user
    <3>1. user[u] \in User
      BY <2>3 DEF TypeOK
    <3>2. CASE CommitReset(p)
      <4>1. [user[u] EXCEPT !.password = req[p].token] \in User
        BY <2>4, <3>1, <3>2 DEF CommitReset, User, Accepting
      <4>2. user' = [user EXCEPT ![u] = [user[u] EXCEPT !.password = req[p].token]]
        BY <3>2 DEF CommitReset
      <4>3. QED
        BY <4>1, <4>2 DEF TypeOK
    <3>3. CASE CommitVerify(p)
      <4>1. \A v \in BOOLEAN : [user[u] EXCEPT !.verified = v] \in User
        BY <3>1 DEF User
      <4>2. PICK v \in BOOLEAN : user' = [user EXCEPT ![u] = [user[u] EXCEPT !.verified = v]]
        BY <3>3 DEF CommitVerify
      <4>3. QED
        BY <4>1, <4>2 DEF TypeOK
    <3>4. CASE CommitDelete(p)
      BY <2>3, <3>4 DEF CommitDelete, TypeOK, User
    <3>5. QED
      BY <1>14, <3>2, <3>3, <3>4
  <2>6. /\ ended' \subseteq Tokens
        /\ accepted' \subseteq [token : Tokens, by : Requests, late : BOOLEAN]
    BY <1>14, <2>3, <2>4
       DEF CommitReset, CommitVerify, CommitDelete, TypeOK, Accepting, Use, history
  <2>7. Put(p, Idle) /\ mailed' = mailed
    BY <1>14 DEF CommitReset, CommitVerify, CommitDelete, End
  <2>8. QED
    BY <2>2, <2>5, <2>6, <2>7, IdleShape, PutLift DEF TypeOK
<1>15. ASSUME NEW p \in Requests, NEW u \in Users, BeginDelete(p, u)
      PROVE  Good
  <2> DEFINE r == [Idle EXCEPT !.op = "delete", !.at = "account", !.user = u, !.lock = "delete"]
  <2>1. Put(p, r) /\ r \in Request /\ Local(r)
    BY <1>15 DEF BeginDelete, Request, Local, Idle, Accepting, Issuing, Stages, Ops, Locks
  <2>2. QED
    BY <1>15, <2>1, PutLift DEF BeginDelete, TypeOK, history
<1>16. ASSUME NEW p \in Requests, Abort(p)
      PROVE  Good
  BY <1>16, IdleShape, PutLift DEF Abort, End, TypeOK, history
<1>17. ASSUME NEW t \in Tokens, Expire(t)
      PROVE  Good
  <2>1. tok[t] \in UsedRow
    BY <1>17, RowShape DEF Expire, NoRow
  <2>2. tok' = [tok EXCEPT ![t] = [tok[t] EXCEPT !.expired = TRUE]]
    BY <1>17 DEF Expire
  <2>3. [tok[t] EXCEPT !.expired = TRUE] \in UsedRow
    BY <2>1 DEF UsedRow
  <2>4. QED
    BY <1>17, <2>2, <2>3 DEF Expire, TypeOK, Row, LocalInv, history
<1>18. CASE UNCHANGED vars
  BY <1>18 DEF vars, history, TypeOK, LocalInv
<1> HIDE DEF Good
<1>19. ASSUME Next
       PROVE  Good
  <2>1. (\E p \in Requests, u \in Users, op \in {"forgot", "resend"} : Ask(p, u, op)) => Good
    BY <1>3, Zenon
  <2>2. (\E p \in Requests, t \in Tokens, op \in {"verify", "reset"} : FindToken(p, t, op)) => Good
    BY <1>8, Zenon
  <2>3. QED
    BY <1>1, <1>2, <1>4, <1>5, <1>6, <1>7, <1>9, <1>10, <1>11, <1>12, <1>13, <1>14,
       <1>15, <1>16, <1>17, <1>19, <2>1, <2>2 DEF Next
<1>20. QED
  BY <1>18, <1>19 DEF Good

-----------------------------------------------------------------------------
(* The table of tokens.                                                      *)

(* A token that a transaction has ended, or that has been accepted, is spent for good. *)
EndedSpent == \A t \in ended : tok[t] \in UsedRow /\ tok[t].status # "live"
AcceptedSpent ==
  \A a \in accepted : tok[a.token] \in UsedRow /\ tok[a.token].status # "live" /\ ~a.late
NeverLate == \A p \in Requests : req[p].late = FALSE

IInv ==
  TypeOK /\ LocalInv /\ RefersInv /\ Exclusive /\ EndedSpent /\ AcceptedSpent /\ NeverLate

(* The steps that write the table. *)
Issue   == \E p \in Requests : CommitIssue(p) \/ \E u \in Users : Register(p, u)
Accept  == \E p \in Requests : CommitReset(p) \/ CommitVerify(p)
Cascade == \E p \in Requests : CommitDelete(p)
Aging   == \E t \in Tokens : Expire(t)

(* Every other step leaves the table of tokens alone. *)
LEMMA TableStep ==
  ASSUME [Next]_vars
  PROVE  tok' = tok \/ Issue \/ Accept \/ Cascade \/ Aging
<1>1. ASSUME NEW p \in Requests, NEW u \in Users, NEW op, Ask(p, u, op)
      PROVE  tok' = tok
  BY <1>1 DEF Ask
<1>2. ASSUME NEW p \in Requests, NEW t \in Tokens, NEW op, FindToken(p, t, op)
      PROVE  tok' = tok
  BY <1>2 DEF FindToken
<1>3. ASSUME NEW p \in Requests, NEW t \in Tokens, LockToken(p, t)
      PROVE  tok' = tok
  BY <1>3 DEF LockToken
<1>4. ASSUME NEW p \in Requests,
             \/ BeginIssue(p) \/ SendMail(p) \/ ReadUser(p) \/ LockUser(p) \/ LockAccount(p)
             \/ InsertAccount(p) \/ LoseInsert(p) \/ ConsumeToken(p) \/ Abort(p)
      PROVE  tok' = tok
  BY <1>4 DEF BeginIssue, SendMail, ReadUser, LockUser, LockAccount, InsertAccount, LoseInsert,
     ConsumeToken, Abort
<1>5. ASSUME NEW u \in Users,
             \/ RegisterWithGoogle(u) \/ VerifyWithGoogle(u)
             \/ \E p \in Requests : BeginDelete(p, u)
      PROVE  tok' = tok
  BY <1>5 DEF RegisterWithGoogle, VerifyWithGoogle, BeginDelete
<1>6. UNCHANGED vars => tok' = tok
  BY DEF vars
<1>7. QED
  BY <1>1, <1>2, <1>3, <1>4, <1>5, <1>6 DEF Next, Issue, Accept, Cascade, Aging

(* Settling the rows a transaction holds moves each one forward or leaves it alone. *)
LEMMA SettledRows ==
  ASSUME TypeOK, RefersInv, NEW p \in Requests, NEW status \in {"consumed", "deleted"},
         NEW t \in Tokens, tok[t] \in UsedRow
  PROVE  /\ Settled(p, status)[t] \in UsedRow
         /\ Settled(p, status)[t].owner = tok[t].owner
         /\ Settled(p, status)[t].kind = tok[t].kind
         /\ Settled(p, status)[t].status = "live" => tok[t].status = "live"
<1>1. CASE t \in req[p].mine
  BY <1>1, SettledShape DEF RefersInv, Refers
<1>2. CASE t \notin req[p].mine
  BY <1>2 DEF Settled
<1>3. QED
  BY <1>1, <1>2

(* What an issue writes: one new row, and the rows it locked. *)
LEMMA IssueShape ==
  ASSUME TypeOK, LocalInv, RefersInv, Issue
  PROVE  \E n \in Tokens : /\ tok[n] = NoRow
                           /\ \A t \in Tokens \ {n} : RowKept(t)
<1>1. PICK p \in Requests : CommitIssue(p) \/ \E u \in Users : Register(p, u)
  BY DEF Issue
<1>2. CASE CommitIssue(p)
  <2>1. PICK n \in Tokens : /\ NewToken(n)
                            /\ \A t \in Tokens \ {n} : tok'[t] = Settled(p, "consumed")[t]
    BY <1>2 DEF CommitIssue, Settled
  <2>2. \A t \in Tokens \ {n} : RowKept(t)
    BY <2>1, SettledRows DEF RowKept
  <2>3. QED
    BY <2>1, <2>2 DEF NewToken
<1>3. CASE \E u \in Users : Register(p, u)
  <2>1. PICK n \in Tokens : NewToken(n) /\ \A t \in Tokens \ {n} : tok'[t] = tok[t]
    BY <1>3 DEF Register, TypeOK
  <2>2. QED
    BY <2>1 DEF NewToken, RowKept
<1>4. QED
  BY <1>1, <1>2, <1>3

(* Every step keeps the owner and the kind of every row, and revives none. *)
LEMMA RowsKept ==
  ASSUME TypeOK, LocalInv, RefersInv, [Next]_vars
  PROVE  \A t \in Tokens : RowKept(t)
<1>1. CASE tok' = tok
  BY <1>1 DEF RowKept
<1>2. CASE Issue
  BY <1>2, IssueShape DEF RowKept, NoRow, UsedRow
<1>3. CASE Accept \/ Cascade
  <2>1. PICK p \in Requests, status \in {"consumed", "deleted"} : tok' = Settled(p, status)
    BY <1>3 DEF Accept, Cascade, CommitReset, CommitVerify, CommitDelete
  <2>2. ASSUME NEW t \in Tokens, tok[t] \in UsedRow
        PROVE  /\ tok'[t] \in UsedRow
               /\ tok'[t].owner = tok[t].owner
               /\ tok'[t].kind = tok[t].kind
               /\ tok'[t].status = "live" => tok[t].status = "live"
    BY <2>1, <2>2, SettledRows
  <2>3. QED
    BY <2>2 DEF RowKept
<1>4. CASE Aging
  <2>1. PICK x \in Tokens : Expire(x)
    BY <1>4 DEF Aging
  <2>2. tok[x] \in UsedRow
    BY <2>1, RowShape DEF Expire, NoRow
  <2>3. tok'[x] = [tok[x] EXCEPT !.expired = TRUE]
    BY <2>1 DEF Expire, TypeOK
  <2>4. tok'[x] \in UsedRow
    BY <2>2, <2>3 DEF UsedRow
  <2>5. /\ tok'[x].owner = tok[x].owner
        /\ tok'[x].kind = tok[x].kind
        /\ tok'[x].status = tok[x].status
    BY <2>2, <2>3 DEF UsedRow
  <2>6. \A t \in Tokens \ {x} : tok'[t] = tok[t]
    BY <2>1 DEF Expire, TypeOK
  <2>7. QED
    BY <2>4, <2>5, <2>6 DEF RowKept
<1>5. QED
  BY <1>1, <1>2, <1>3, <1>4, TableStep

(* Only a deletion that holds the row deletes it. *)
LEMMA HeldRowStays ==
  ASSUME TypeOK, LocalInv, RefersInv, Exclusive, [Next]_vars,
         NEW q \in Requests, req'[q] = req[q], NEW t \in req[q].mine, tok[t].status # "deleted"
  PROVE  tok'[t].status # "deleted"
<1>1. t \in Tokens /\ tok[t] \in UsedRow
  BY DEF TypeOK, Request, RefersInv, Refers
<1>2. CASE tok' = tok
  BY <1>2
<1>3. CASE Issue
  <2>1. PICK p \in Requests : CommitIssue(p) \/ \E u \in Users : Register(p, u)
    BY <1>3 DEF Issue
  <2>2. CASE CommitIssue(p)
    <3>1. tok'[t] = Settled(p, "consumed")[t] \/ tok[t] = NoRow
      BY <1>1, <2>2 DEF CommitIssue, NewToken, Settled
    <3>2. QED
      BY <1>1, <3>1, SettledShape DEF RefersInv, Refers, NoRow, UsedRow
  <2>3. CASE \E u \in Users : Register(p, u)
    BY <1>1, <2>3 DEF Register, NewToken, NoRow, UsedRow, TypeOK
  <2>4. QED
    BY <2>1, <2>2, <2>3
<1>4. CASE Accept
  <2>1. PICK p \in Requests : tok' = Settled(p, "consumed")
    BY <1>4 DEF Accept, CommitReset, CommitVerify
  <2>2. QED
    BY <1>1, <2>1, SettledShape DEF RefersInv, Refers
<1>5. CASE Cascade
  <2>1. PICK p \in Requests : tok' = Settled(p, "deleted") /\ End(p)
    BY <1>5 DEF Cascade, CommitDelete
  <2>2. p # q
    <3>1. req'[p] = Idle
      BY <2>1 DEF End, Put, TypeOK
    <3>2. QED
      BY <3>1 DEF Idle
  <2>3. t \notin req[p].mine
    BY <2>2 DEF Exclusive
  <2>4. QED
    BY <1>1, <2>1, <2>3 DEF Settled
<1>6. CASE Aging
  BY <1>1, <1>6 DEF Aging, Expire, TypeOK, UsedRow
<1>7. QED
  BY <1>2, <1>3, <1>4, <1>5, <1>6, TableStep

-----------------------------------------------------------------------------
(* What the requests refer to.                                               *)

(* A request that holds no row and presents no token. *)
Blank(r) ==
  /\ r.saw = {} /\ r.todo = {} /\ r.mine = {}
  /\ r.at # "rest"
  /\ r.op \in Accepting => r.at = "failed"
  /\ r.late = FALSE

(* The steps in which q proceeds inside its transaction, the tables unchanged. *)
Proceed(q) ==
  \/ BeginIssue(q) \/ ReadUser(q) \/ LockUser(q) \/ LockAccount(q) \/ InsertAccount(q)
  \/ ConsumeToken(q)
  \/ \E t \in Tokens : LockToken(q, t)
  \/ \E t \in Tokens, op \in {"verify", "reset"} : FindToken(q, t, op)

(* A step of q proceeds, or leaves q without rows. *)
LEMMA RequestStep ==
  ASSUME TypeOK, [Next]_vars, NEW q \in Requests, req'[q] # req[q]
  PROVE  (Proceed(q) /\ tok' = tok) \/ Blank(req'[q])
<1> DEFINE Good == (Proceed(q) /\ tok' = tok) \/ Blank(req'[q])
<1>1. ASSUME NEW p \in Requests, NEW r, Put(p, r)
      PROVE  p = q /\ req'[q] = r
  BY <1>1 DEF Put, TypeOK
<1>2. ASSUME NEW p \in Requests, Proceed(p)
      PROVE  Good
  <2>1. PICK r : Put(p, r)
    BY <1>2 DEF Proceed, BeginIssue, ReadUser, LockUser, LockAccount, InsertAccount, ConsumeToken,
       LockToken, FindToken
  <2>2. p = q
    BY <2>1, <1>1
  <2>3. tok' = tok
    BY <1>2 DEF Proceed, BeginIssue, ReadUser, LockUser, LockAccount, InsertAccount, ConsumeToken,
       LockToken, FindToken
  <2>4. QED
    BY <1>2, <2>2, <2>3
<1>3. ASSUME NEW p \in Requests, End(p)
      PROVE  Good
  BY <1>1, <1>3 DEF End, Blank, Idle, Accepting
<1>4. ASSUME NEW p \in Requests,
             \/ SendMail(p) \/ CommitReset(p) \/ CommitVerify(p) \/ CommitDelete(p) \/ Abort(p)
      PROVE  Good
  <2>1. End(p)
    BY <1>4 DEF SendMail, CommitReset, CommitVerify, CommitDelete, Abort
  <2>2. QED
    BY <1>3, <2>1
<1>5. ASSUME NEW p \in Requests, LoseInsert(p)
      PROVE  Good
  <2>1. p = q
    BY <1>5 DEF LoseInsert, Put, TypeOK
  <2>2. Blank(req'[p])
    BY <1>5 DEF LoseInsert, Put, TypeOK, Blank, Idle, Accepting
  <2>3. QED
    BY <2>1, <2>2
<1>6. ASSUME NEW p \in Requests, NEW u \in Users, Register(p, u)
      PROVE  Good
  <2>1. p = q
    BY <1>6 DEF Register, Put, TypeOK
  <2>2. Blank(req'[p])
    BY <1>6 DEF Register, Put, TypeOK, Blank, Idle, Accepting
  <2>3. QED
    BY <2>1, <2>2
<1>7. ASSUME NEW p \in Requests, NEW u \in Users, NEW op \in {"forgot", "resend"}, Ask(p, u, op)
      PROVE  Good
  <2>1. p = q
    BY <1>7 DEF Ask, Put, TypeOK
  <2>2. Blank(req'[p])
    BY <1>7 DEF Ask, Put, TypeOK, Blank, Idle, Accepting
  <2>3. QED
    BY <2>1, <2>2
<1>8. ASSUME NEW p \in Requests, CommitIssue(p)
      PROVE  Good
  <2>1. p = q
    BY <1>8 DEF CommitIssue, Put, TypeOK
  <2>2. Blank(req'[p])
    BY <1>8 DEF CommitIssue, Put, TypeOK, Blank, Idle, Accepting
  <2>3. QED
    BY <2>1, <2>2
<1>9. ASSUME NEW p \in Requests, NEW u \in Users, BeginDelete(p, u)
      PROVE  Good
  <2>1. p = q
    BY <1>9 DEF BeginDelete, Put, TypeOK
  <2>2. Blank(req'[p])
    BY <1>9 DEF BeginDelete, Put, TypeOK, Blank, Idle, Accepting
  <2>3. QED
    BY <2>1, <2>2
<1>10. ASSUME NEW u \in Users, RegisterWithGoogle(u) \/ VerifyWithGoogle(u)
       PROVE  FALSE
  BY <1>10 DEF RegisterWithGoogle, VerifyWithGoogle
<1>11. ASSUME NEW t \in Tokens, Expire(t)
       PROVE  FALSE
  BY <1>11 DEF Expire
<1>12. Next
  BY DEF vars
<1> HIDE DEF Good
<1>13. (\E p \in Requests, u \in Users, op \in {"forgot", "resend"} : Ask(p, u, op)) => Good
  BY <1>7, Zenon
<1>14. (\E p \in Requests : Proceed(p)) => Good
  BY <1>2, Zenon
<1>15. Good
  BY <1>4, <1>5, <1>6, <1>8, <1>9, <1>10, <1>11, <1>12, <1>13, <1>14 DEF Next, Proceed
<1>16. QED
  BY <1>15 DEF Good

(* A request keeps its references while the table moves on, if its own row stays. *)
LEMMA RefersKept ==
  ASSUME TypeOK, NEW r \in Request, Local(r), Refers(r, tok),
         \A t \in Tokens : RowKept(t),
         r.at = "rest" /\ r.op \in Accepting => tok'[r.token].status # "deleted"
  PROVE  Refers(r, tok')
<1>1. ASSUME r.op \in Accepting, r.at # "failed"
      PROVE  /\ tok'[r.token] \in UsedRow
             /\ tok'[r.token].owner = r.user
             /\ tok'[r.token].kind = KindOf(r.op)
  <2>1. r.token \in Tokens /\ tok[r.token] \in UsedRow
    BY <1>1 DEF Local, Refers
  <2>2. QED
    BY <1>1, <2>1 DEF Refers, RowKept
<1>2. r.saw \cup r.mine \cup r.todo \subseteq Tokens
  BY DEF Request
<1>3. ASSUME NEW t \in r.saw \cup r.mine \cup r.todo
      PROVE  /\ tok'[t] \in UsedRow
             /\ tok'[t].owner = r.user
             /\ tok'[t].status = "live" => tok[t].status = "live"
  BY <1>2, <1>3 DEF Refers, RowKept
<1>4. ASSUME r.at = "rest", r.op # "delete", NEW t \in r.saw, t \notin r.todo \cup r.mine
      PROVE  tok'[t].status # "live"
  BY <1>3, <1>4 DEF Refers
<1>5. QED
  BY <1>1, <1>3, <1>4 DEF Refers

(* A request without rows refers to nothing. *)
LEMMA BlankRefers ==
  ASSUME NEW r, Blank(r), NEW rows
  PROVE  Refers(r, rows)
BY DEF Blank, Refers

(* A step of a transaction refers to rows that it has just read. *)
LEMMA ProceedRefers ==
  ASSUME TypeOK, LocalInv, RefersInv, NEW q \in Requests, Proceed(q)
  PROVE  Refers(req'[q], tok)
<1> DEFINE Good == Refers(req'[q], tok)
<1>1. req[q] \in Request /\ Local(req[q]) /\ Refers(req[q], tok)
  BY DEF TypeOK, LocalInv, RefersInv
<1>2. \A u \in Users : \A kind \in Kinds : \A t \in Live(u, kind) :
        tok[t] \in UsedRow /\ tok[t].owner = u
  BY RowShape DEF Live, NoRow
<1>3. \A r \in Request : KindOf(r.op) \in Kinds
  BY DEF KindOf, Kinds
<1>4. CASE BeginIssue(q)
  <2> DEFINE seen == Live(req[q].user, KindOf(req[q].op))
  <2>1. req'[q] = [req[q] EXCEPT !.at = "rest", !.saw = seen, !.todo = seen]
    BY <1>4 DEF BeginIssue, Put, TypeOK
  <2>2. req[q].op \in Issuing /\ req[q].at = "begin" /\ req[q].user \in Users /\ req[q].mine = {}
    BY <1>1, <1>4 DEF BeginIssue, Local, Issuing
  <2>3. \A t \in seen : tok[t] \in UsedRow /\ tok[t].owner = req[q].user
    BY <1>1, <1>2, <1>3, <2>2
  <2> HIDE DEF seen
  <2>4. QED
    BY <1>1, <2>1, <2>2, <2>3 DEF Refers, Accepting, Issuing, Request
<1>5. CASE ReadUser(q)
  <2>1. PICK stage \in {"token", "email", "insert", "account"} :
          req'[q] = [req[q] EXCEPT !.at = stage]
    BY <1>5 DEF ReadUser, Put, TypeOK
  <2>2. req[q].at = "begin"
    BY <1>5 DEF ReadUser
  <2>3. QED
    BY <1>1, <2>1, <2>2 DEF Refers, Request
<1>6. CASE LockUser(q)
  <2>1. req'[q] = [req[q] EXCEPT !.at = "token", !.lock = "update"] /\ req[q].at = "email"
    BY <1>6 DEF LockUser, Put, TypeOK
  <2>2. QED
    BY <1>1, <2>1 DEF Refers, Request
<1>7. CASE InsertAccount(q)
  <2>1. /\ req'[q] = [req[q] EXCEPT !.at = "token", !.account = TRUE, !.lock = "share"]
        /\ req[q].at = "insert"
    BY <1>7 DEF InsertAccount, Put, TypeOK
  <2>2. QED
    BY <1>1, <2>1 DEF Refers, Request
<1>8. CASE LockAccount(q)
  <2> DEFINE rows == {t \in Tokens : tok[t].owner = req[q].user}
  <2>1. \/ /\ req[q].op = "delete"
           /\ req'[q] = [req[q] EXCEPT !.at = "rest", !.account = TRUE, !.todo = rows]
        \/ /\ req[q].op # "delete"
           /\ req'[q] = [req[q] EXCEPT !.at = "token", !.account = TRUE]
    BY <1>8 DEF LockAccount, Put, TypeOK
  <2>2. req[q].user \in Users /\ req[q].at = "account"
    BY <1>1, <1>8 DEF LockAccount, Local
  <2>3. \A t \in rows : tok[t] \in UsedRow /\ tok[t].owner = req[q].user
    BY <2>2, RowShape, AbsentValues DEF NoRow
  <2>4. req[q].saw = {} /\ req[q].mine = {} /\ req[q].todo = {}
    BY <1>1, <2>2 DEF Local
  <2> HIDE DEF rows
  <2>5. CASE req[q].op = "delete"
    <3>1. /\ req'[q].op = "delete" /\ req'[q].user = req[q].user
          /\ req'[q].saw = {} /\ req'[q].mine = {} /\ req'[q].todo = rows
      BY <1>1, <2>1, <2>4, <2>5 DEF Request
    <3>2. QED
      BY <2>3, <3>1 DEF Refers, Accepting
  <2>6. CASE req[q].op # "delete"
    <3>1. req'[q] = [req[q] EXCEPT !.at = "token", !.account = TRUE]
      BY <2>1, <2>6
    <3>2. QED
      BY <1>1, <2>2, <3>1 DEF Refers, Request
  <2>7. QED
    BY <2>5, <2>6
<1>9. CASE ConsumeToken(q)
  <2> DEFINE rest == Live(req[q].user, KindOf(req[q].op)) \ {req[q].token}
  <2>1. /\ req'[q] = [req[q] EXCEPT !.at = "rest", !.mine = {req[q].token},
                                    !.saw = rest \cup {req[q].token}, !.todo = rest]
        /\ req[q].at = "token" /\ tok[req[q].token].status # "deleted"
    BY <1>9 DEF ConsumeToken, Put, TypeOK
  <2>2. req[q].user \in Users /\ req[q].op \in Accepting
    BY <1>1, <2>1 DEF Local
  <2>3. \A t \in rest : tok[t] \in UsedRow /\ tok[t].owner = req[q].user
    BY <1>1, <1>2, <1>3, <2>2
  <2> HIDE DEF rest
  <2>4. QED
    BY <1>1, <2>1, <2>2, <2>3 DEF Refers, Request
<1>10. CASE \E t \in Tokens : LockToken(q, t)
  <2>1. PICK t \in Tokens : LockToken(q, t)
    BY <1>10
  <2> DEFINE taken == {t} \cap {x \in Tokens : tok[x].status = "live" \/ req[q].op = "delete"}
  <2>2. /\ req'[q] = [req[q] EXCEPT !.todo = @ \ {t}, !.mine = @ \cup taken]
        /\ t \in req[q].todo
    BY <2>1 DEF LockToken, Put, TypeOK
  <2>3. taken \subseteq {t} /\ (req[q].op # "delete" => t \in taken \/ tok[t].status # "live")
    OBVIOUS
  <2> HIDE DEF taken
  <2>4. QED
    BY <1>1, <2>2, <2>3 DEF Refers, Request
<1>11. CASE \E t \in Tokens, op \in {"verify", "reset"} : FindToken(q, t, op)
  <2>1. PICK t \in Tokens, op \in {"verify", "reset"} : FindToken(q, t, op)
    BY <1>11
  <2>2. tok[t] \in UsedRow /\ tok[t].kind = KindOf(op)
    BY <2>1, RowShape DEF FindToken, NoRow
  <2>3. /\ req'[q].op = op /\ req'[q].at = "begin" /\ req'[q].user = tok[t].owner
        /\ req'[q].token = t /\ req'[q].saw = {} /\ req'[q].mine = {} /\ req'[q].todo = {}
    BY <2>1 DEF FindToken, Put, Idle, TypeOK
  <2>4. QED
    BY <2>2, <2>3 DEF Refers
<1>12. QED
  BY <1>4, <1>5, <1>6, <1>7, <1>8, <1>9, <1>10, <1>11 DEF Proceed

(* Every step keeps what the requests refer to. *)
LEMMA RefersStep ==
  ASSUME TypeOK, LocalInv, RefersInv, Exclusive, [Next]_vars
  PROVE  RefersInv'
<1>1. ASSUME NEW q \in Requests, req'[q] = req[q]
      PROVE  Refers(req'[q], tok')
  <2>1. req[q] \in Request /\ Local(req[q]) /\ Refers(req[q], tok)
    BY DEF TypeOK, LocalInv, RefersInv
  <2>2. ASSUME req[q].at = "rest", req[q].op \in Accepting
        PROVE  tok'[req[q].token].status # "deleted"
    <3>1. req[q].token \in req[q].mine /\ tok[req[q].token].status # "deleted"
      BY <2>1, <2>2 DEF Local, Refers
    <3>2. QED
      BY <1>1, <3>1, HeldRowStays
  <2>3. Refers(req[q], tok')
    BY <2>1, <2>2, RowsKept, RefersKept
  <2>4. QED
    BY <1>1, <2>3
<1>2. ASSUME NEW q \in Requests, req'[q] # req[q]
      PROVE  Refers(req'[q], tok')
  <2>1. CASE Proceed(q) /\ tok' = tok
    BY <2>1, ProceedRefers
  <2>2. CASE Blank(req'[q])
    BY <2>2, BlankRefers
  <2>3. QED
    BY <1>2, <2>1, <2>2, RequestStep
<1>3. QED
  BY <1>1, <1>2 DEF RefersInv


(* The steps that lock no token take none, and keep how late the request is. *)
Look(q) == BeginIssue(q) \/ ReadUser(q) \/ LockUser(q) \/ LockAccount(q) \/ InsertAccount(q)
LEMMA LookStep ==
  ASSUME TypeOK, NEW q \in Requests, Look(q)
  PROVE  req'[q].mine = req[q].mine /\ req'[q].late = req[q].late
<1>1. req[q] \in Request
  BY DEF TypeOK
<1>2. CASE BeginIssue(q)
  BY <1>1, <1>2 DEF BeginIssue, Put, TypeOK, Request
<1>3. CASE ReadUser(q)
  <2>1. PICK stage : req'[q] = [req[q] EXCEPT !.at = stage]
    BY <1>3 DEF ReadUser, Put, TypeOK
  <2>2. QED
    BY <1>1, <2>1 DEF Request
<1>4. CASE LockUser(q)
  BY <1>1, <1>4 DEF LockUser, Put, TypeOK, Request
<1>5. CASE LockAccount(q)
  <2>1. \/ req'[q] = [req[q] EXCEPT !.at = "rest", !.account = TRUE,
                                    !.todo = {t \in Tokens : tok[t].owner = req[q].user}]
        \/ req'[q] = [req[q] EXCEPT !.at = "token", !.account = TRUE]
    BY <1>5 DEF LockAccount, Put, TypeOK
  <2>2. QED
    BY <1>1, <2>1 DEF Request
<1>6. CASE InsertAccount(q)
  BY <1>1, <1>6 DEF InsertAccount, Put, TypeOK, Request
<1>7. QED
  BY <1>2, <1>3, <1>4, <1>5, <1>6 DEF Look

(* A step that locks a token takes that one only, the other requests unchanged. *)
LEMMA LockStep ==
  ASSUME TypeOK, NEW q \in Requests, ConsumeToken(q) \/ \E t \in Tokens : LockToken(q, t)
  PROVE  /\ \A t \in req'[q].mine : t \in req[q].mine \/ TokenHolders(q, t) = {}
         /\ req'[q].late = req[q].late
         /\ \A p \in Requests \ {q} : req'[p] = req[p]
<1>1. req[q] \in Request
  BY DEF TypeOK
<1>2. CASE ConsumeToken(q)
  BY <1>1, <1>2 DEF ConsumeToken, Put, TypeOK, Request
<1>3. CASE \E t \in Tokens : LockToken(q, t)
  <2>1. PICK t \in Tokens : LockToken(q, t)
    BY <1>3
  <2> DEFINE taken == {t} \cap {x \in Tokens : tok[x].status = "live" \/ req[q].op = "delete"}
  <2>2. /\ req'[q] = [req[q] EXCEPT !.todo = @ \ {t}, !.mine = @ \cup taken]
        /\ TokenHolders(q, t) = {}
        /\ \A p \in Requests \ {q} : req'[p] = req[p]
    BY <2>1 DEF LockToken, Put, TypeOK
  <2>3. taken \subseteq {t}
    OBVIOUS
  <2> HIDE DEF taken
  <2>4. QED
    BY <1>1, <2>2, <2>3 DEF Request
<1>4. QED
  BY <1>2, <1>3

(* Two requests never come to hold the same row: locking one waits for the other. *)
LEMMA ExclusiveStep ==
  ASSUME TypeOK, LocalInv, RefersInv, Exclusive, [Next]_vars
  PROVE  Exclusive'
<1>1. ASSUME NEW q \in Requests, NEW t \in req'[q].mine
      PROVE  t \in req[q].mine \/ \A p \in Requests \ {q} : t \notin req[p].mine /\ req'[p] = req[p]
  <2>1. CASE req'[q] = req[q]
    BY <1>1, <2>1
  <2>2. CASE Blank(req'[q])
    BY <1>1, <2>2 DEF Blank
  <2>3. CASE Look(q)
    BY <1>1, <2>3, LookStep
  <2>4. CASE \E x \in Tokens, op \in {"verify", "reset"} : FindToken(q, x, op)
    BY <1>1, <2>4 DEF FindToken, Put, Idle, TypeOK
  <2>5. CASE ConsumeToken(q) \/ \E x \in Tokens : LockToken(q, x)
    BY <1>1, <2>5, LockStep DEF TokenHolders
  <2>6. QED
    BY <2>1, <2>2, <2>3, <2>4, <2>5, RequestStep DEF Proceed, Look
<1>2. ASSUME NEW p \in Requests, NEW q \in Requests, p # q, NEW t \in req'[p].mine \cap req'[q].mine
      PROVE  FALSE
  BY <1>1, <1>2 DEF Exclusive
<1>3. QED
  BY <1>2 DEF Exclusive

(* No request presents a token that has been accepted before it started. *)
LEMMA LateStep ==
  ASSUME TypeOK, AcceptedSpent, NeverLate, [Next]_vars
  PROVE  NeverLate'
<1>1. ASSUME NEW q \in Requests, req'[q] # req[q]
      PROVE  req'[q].late = FALSE
  <2>1. req[q] \in Request /\ req[q].late = FALSE
    BY DEF TypeOK, NeverLate
  <2>2. CASE Blank(req'[q])
    BY <2>2 DEF Blank
  <2>3. CASE Look(q)
    BY <2>1, <2>3, LookStep
  <2>4. CASE ConsumeToken(q) \/ \E t \in Tokens : LockToken(q, t)
    BY <2>1, <2>4, LockStep
  <2>5. CASE \E t \in Tokens, op \in {"verify", "reset"} : FindToken(q, t, op)
    BY <2>5 DEF FindToken, AcceptedSpent, Put, Idle, TypeOK
  <2>6. QED
    BY <1>1, <2>2, <2>3, <2>4, <2>5, RequestStep DEF Proceed, Look
<1>2. QED
  BY <1>1 DEF NeverLate


(* A commit that issues or accepts leaves nothing of what it saw unconsumed. *)
LEMMA CommitSpends ==
  ASSUME TypeOK, LocalInv, RefersInv, NEW p \in Requests,
         CommitIssue(p) \/ CommitReset(p) \/ CommitVerify(p)
  PROVE  \A t \in req[p].saw : tok'[t].status # "live"
<1>1. /\ req[p].at = "rest" /\ req[p].todo = {} /\ req[p].op # "delete"
      /\ req[p] \in Request /\ Local(req[p]) /\ Refers(req[p], tok)
  BY DEF CommitIssue, CommitReset, CommitVerify, TypeOK, LocalInv, RefersInv
<1>2. ASSUME NEW t \in req[p].saw
      PROVE  tok'[t].status # "live"
  <2>1. t \in Tokens /\ tok[t] \in UsedRow /\ (t \in req[p].mine \/ tok[t].status # "live")
    BY <1>1, <1>2 DEF Request, Refers
  <2>2. Settled(p, "consumed")[t].status # "live"
    <3>1. CASE t \in req[p].mine
      BY <2>1, <3>1, SettledShape DEF RefersInv, Refers
    <3>2. CASE t \notin req[p].mine
      BY <2>1, <3>2 DEF Settled
    <3>3. QED
      BY <3>1, <3>2
  <2>3. CASE CommitIssue(p)
    <3>1. tok'[t] = Settled(p, "consumed")[t] \/ tok[t] = NoRow
      BY <2>1, <2>3 DEF CommitIssue, NewToken, Settled
    <3>2. QED
      BY <2>1, <2>2, <3>1 DEF NoRow, UsedRow
  <2>4. CASE CommitReset(p) \/ CommitVerify(p)
    BY <2>2, <2>4 DEF CommitReset, CommitVerify
  <2>5. QED
    BY <2>3, <2>4
<1>3. QED
  BY <1>2

(* What the steps add to the history. *)
LEMMA HistoryStep ==
  ASSUME [Next]_vars
  PROVE  \/ UNCHANGED history
         \/ \E p \in Requests : CommitIssue(p) /\ ended' = ended \cup req[p].saw /\ accepted' = accepted
         \/ \E p \in Requests : /\ CommitReset(p) \/ CommitVerify(p)
                                /\ ended' = ended \cup req[p].saw
                                /\ accepted' = accepted \cup {Use(p)}
<1>1. ASSUME NEW p \in Requests, NEW u \in Users, NEW op, Ask(p, u, op)
      PROVE  UNCHANGED history
  BY <1>1 DEF Ask
<1>2. ASSUME NEW p \in Requests, NEW t \in Tokens, NEW op, FindToken(p, t, op)
      PROVE  UNCHANGED history
  BY <1>2 DEF FindToken
<1>3. ASSUME NEW t \in Tokens, Expire(t) \/ \E p \in Requests : LockToken(p, t)
      PROVE  UNCHANGED history
  BY <1>3 DEF LockToken, Expire
<1>4. ASSUME NEW p \in Requests,
             \/ BeginIssue(p) \/ SendMail(p) \/ ReadUser(p) \/ LockUser(p) \/ LockAccount(p)
             \/ InsertAccount(p) \/ LoseInsert(p) \/ ConsumeToken(p) \/ CommitDelete(p) \/ Abort(p)
      PROVE  UNCHANGED history
  BY <1>4 DEF BeginIssue, SendMail, ReadUser, LockUser, LockAccount, InsertAccount, LoseInsert,
     ConsumeToken, CommitDelete, Abort
<1>5. ASSUME NEW u \in Users,
             \/ RegisterWithGoogle(u) \/ VerifyWithGoogle(u)
             \/ \E p \in Requests : BeginDelete(p, u) \/ Register(p, u)
      PROVE  UNCHANGED history
  BY <1>5 DEF RegisterWithGoogle, VerifyWithGoogle, BeginDelete, Register
<1>6. UNCHANGED vars => UNCHANGED history
  BY DEF vars
<1>7. ASSUME NEW p \in Requests, CommitIssue(p)
      PROVE  ended' = ended \cup req[p].saw /\ accepted' = accepted
  BY <1>7 DEF CommitIssue
<1>8. ASSUME NEW p \in Requests, CommitReset(p) \/ CommitVerify(p)
      PROVE  ended' = ended \cup req[p].saw /\ accepted' = accepted \cup {Use(p)}
  BY <1>8 DEF CommitReset, CommitVerify
<1>9. QED
  BY <1>1, <1>2, <1>3, <1>4, <1>5, <1>6, <1>7, <1>8 DEF Next

(* A step spends what it adds to the history, and revives nothing of what is there. *)
LEMMA SpentStep ==
  ASSUME TypeOK, LocalInv, RefersInv, EndedSpent, AcceptedSpent, NeverLate, [Next]_vars
  PROVE  EndedSpent' /\ AcceptedSpent'
<1>1. \A t \in Tokens : RowKept(t)
  BY RowsKept
<1>2. \A t \in ended : tok'[t] \in UsedRow /\ tok'[t].status # "live"
  BY <1>1 DEF EndedSpent, RowKept, TypeOK
<1>3. \A a \in accepted : tok'[a.token] \in UsedRow /\ tok'[a.token].status # "live" /\ ~a.late
  BY <1>1 DEF AcceptedSpent, RowKept, TypeOK
<1>4. ASSUME NEW p \in Requests, CommitIssue(p) \/ CommitReset(p) \/ CommitVerify(p),
             NEW t \in req[p].saw
      PROVE  tok'[t] \in UsedRow /\ tok'[t].status # "live"
  <2>1. t \in Tokens /\ tok[t] \in UsedRow
    BY <1>4 DEF TypeOK, Request, RefersInv, Refers
  <2>2. QED
    BY <1>1, <1>4, <2>1, CommitSpends DEF RowKept
<1>5. ASSUME NEW p \in Requests, CommitReset(p) \/ CommitVerify(p)
      PROVE  req[p].token \in req[p].saw /\ ~req[p].late
  BY <1>5 DEF CommitReset, CommitVerify, LocalInv, Local, Accepting, NeverLate
<1>6. CASE UNCHANGED history
  BY <1>2, <1>3, <1>6 DEF history, EndedSpent, AcceptedSpent
<1>7. ASSUME NEW p \in Requests, CommitIssue(p), ended' = ended \cup req[p].saw,
             accepted' = accepted
      PROVE  EndedSpent' /\ AcceptedSpent'
  BY <1>2, <1>3, <1>4, <1>7 DEF EndedSpent, AcceptedSpent
<1>8. ASSUME NEW p \in Requests, CommitReset(p) \/ CommitVerify(p),
             ended' = ended \cup req[p].saw, accepted' = accepted \cup {Use(p)}
      PROVE  EndedSpent' /\ AcceptedSpent'
  <2>1. EndedSpent'
    BY <1>2, <1>4, <1>8 DEF EndedSpent
  <2>2. /\ tok'[Use(p).token] \in UsedRow /\ tok'[Use(p).token].status # "live"
        /\ ~Use(p).late
    BY <1>4, <1>5, <1>8 DEF Use
  <2>3. QED
    BY <1>3, <1>8, <2>1, <2>2 DEF AcceptedSpent
<1>9. QED
  BY <1>6, <1>7, <1>8, HistoryStep


-----------------------------------------------------------------------------
(* The theorems.                                                             *)

(* The invariant holds at the start. *)
LEMMA InitIInv == ASSUME Init PROVE IInv
<1>1. TypeOK
  BY IdleShape DEF Init, TypeOK, User, Row
<1>2. LocalInv
  BY IdleShape DEF Init, LocalInv
<1>3. \A p \in Requests : req[p] = Idle
  BY DEF Init
<1>4. Blank(Idle)
  BY DEF Blank, Idle, Accepting
<1>5. RefersInv
  BY <1>3, <1>4, BlankRefers DEF RefersInv
<1>6. Exclusive /\ NeverLate
  BY <1>3 DEF Exclusive, NeverLate, Idle
<1>7. EndedSpent /\ AcceptedSpent
  BY DEF Init, EndedSpent, AcceptedSpent
<1>8. QED
  BY <1>1, <1>2, <1>5, <1>6, <1>7 DEF IInv

(* Every step keeps the invariant. *)
LEMMA NextIInv == ASSUME IInv, [Next]_vars PROVE IInv'
BY TypeStep, RefersStep, ExclusiveStep, SpentStep, LateStep DEF IInv

(* The inductive invariant holds in every state. *)
LEMMA Invariance == Spec => []IInv
<1>1. Init => IInv
  BY InitIInv
<1>2. IInv /\ [Next]_vars => IInv'
  BY NextIInv
<1>3. QED
  BY <1>1, <1>2, PTL DEF Spec

(* Every variable has its type, whatever the number of concurrent requests. *)
THEOREM TypeCorrect == Spec => []TypeOK
<1>1. IInv => TypeOK
  BY DEF IInv
<1>2. QED
  BY <1>1, Invariance, PTL

(* A token that a committed issue, reset or verification saw unconsumed stays unusable:     *)
(* the updateMany of createActiveToken and of the two services, with the locks, lets no     *)
(* overlapping transaction revive one.                                                      *)
THEOREM CommitEndsTokens == Spec => []CommitEndsWhatItSaw
<1>1. IInv => CommitEndsWhatItSaw
  BY DEF IInv, EndedSpent, CommitEndsWhatItSaw
<1>2. QED
  BY <1>1, Invariance, PTL

(* A request that starts after a use of its token has committed is never accepted: a token  *)
(* can only be used again by a request that was already past the check of consumedAt.       *)
THEOREM NoLateUse == Spec => []NoUseAfterUse
<1>1. IInv => NoUseAfterUse
  BY DEF IInv, AcceptedSpent, NoUseAfterUse
<1>2. QED
  BY <1>1, Invariance, PTL

(* A row that is consumed only leaves that state when the user is deleted with it. *)
LEMMA ConsumedStays ==
  ASSUME TypeOK, LocalInv, RefersInv, [Next]_vars,
         NEW t \in Tokens, tok[t] \in UsedRow, tok[t].status = "consumed"
  PROVE  \/ tok'[t].status = "consumed"
         \/ \E p \in Requests : CommitDelete(p) /\ tok[t].owner = req[p].user
<1>1. CASE tok' = tok
  BY <1>1
<1>2. CASE Issue
  <2>1. PICK p \in Requests : CommitIssue(p) \/ \E u \in Users : Register(p, u)
    BY <1>2 DEF Issue
  <2>2. CASE CommitIssue(p)
    <3>1. tok'[t] = Settled(p, "consumed")[t] \/ tok[t] = NoRow
      BY <2>2 DEF CommitIssue, NewToken, Settled
    <3>2. Settled(p, "consumed")[t].status = "consumed"
      <4>1. CASE t \in req[p].mine
        BY <4>1, SettledShape DEF RefersInv, Refers
      <4>2. CASE t \notin req[p].mine
        BY <4>2 DEF Settled
      <4>3. QED
        BY <4>1, <4>2
    <3>3. QED
      BY <3>1, <3>2 DEF NoRow, UsedRow
  <2>3. CASE \E u \in Users : Register(p, u)
    BY <2>3 DEF Register, NewToken, NoRow, TypeOK
  <2>4. QED
    BY <2>1, <2>2, <2>3
<1>3. CASE Accept
  <2>1. PICK p \in Requests : tok' = Settled(p, "consumed")
    BY <1>3 DEF Accept, CommitReset, CommitVerify
  <2>2. CASE t \in req[p].mine
    BY <2>1, <2>2, SettledShape DEF RefersInv, Refers
  <2>3. CASE t \notin req[p].mine
    BY <2>1, <2>3 DEF Settled
  <2>4. QED
    BY <2>2, <2>3
<1>4. CASE Cascade
  <2>1. PICK p \in Requests : CommitDelete(p) /\ tok' = Settled(p, "deleted")
    BY <1>4 DEF Cascade, CommitDelete
  <2>2. CASE t \in req[p].mine
    BY <2>1, <2>2 DEF RefersInv, Refers
  <2>3. CASE t \notin req[p].mine
    BY <2>1, <2>3 DEF Settled
  <2>4. QED
    BY <2>2, <2>3
<1>5. CASE Aging
  BY <1>5 DEF Aging, Expire, TypeOK, UsedRow
<1>6. QED
  BY <1>1, <1>2, <1>3, <1>4, <1>5, TableStep


(* The steps that write the table of users. *)
LEMMA UserStep ==
  ASSUME [Next]_vars
  PROVE  \/ user' = user
         \/ \E u \in Users : \/ RegisterWithGoogle(u) \/ VerifyWithGoogle(u)
                            \/ \E p \in Requests : Register(p, u)
         \/ \E p \in Requests : CommitReset(p) \/ CommitVerify(p) \/ CommitDelete(p)
<1>1. ASSUME NEW p \in Requests, NEW x \in Users, NEW op, Ask(p, x, op)
      PROVE  user' = user
  BY <1>1 DEF Ask
<1>2. ASSUME NEW p \in Requests, NEW t \in Tokens, NEW op, FindToken(p, t, op)
      PROVE  user' = user
  BY <1>2 DEF FindToken
<1>3. ASSUME NEW p \in Requests,
              \/ BeginIssue(p) \/ SendMail(p) \/ ReadUser(p) \/ LockUser(p) \/ LockAccount(p)
              \/ InsertAccount(p) \/ LoseInsert(p) \/ ConsumeToken(p) \/ CommitIssue(p) \/ Abort(p)
              \/ \E t \in Tokens : LockToken(p, t)
              \/ \E x \in Users : BeginDelete(p, x)
       PROVE  user' = user
  BY <1>3 DEF BeginIssue, SendMail, ReadUser, LockUser, LockAccount, InsertAccount, LoseInsert,
     ConsumeToken, CommitIssue, Abort, LockToken, BeginDelete
<1>4. ASSUME NEW t \in Tokens, Expire(t)
       PROVE  user' = user
  BY <1>4 DEF Expire
<1>5. UNCHANGED vars => user' = user
  BY DEF vars
<1>6. QED
  BY <1>1, <1>2, <1>3, <1>4, <1>5 DEF Next

(* A step changes a password only when a reset commits, a user appears or a user goes. *)
LEMMA PasswordStep ==
  ASSUME TypeOK, LocalInv, [Next]_vars, NEW u \in Users, user'[u].password \in Tokens
  PROVE  \/ /\ user'[u].password = user[u].password
            /\ \A p \in Requests : CommitDelete(p) => req[p].user # u
         \/ \E p \in Requests : CommitReset(p) /\ u = req[p].user
                                /\ user'[u].password = req[p].token
<1> DEFINE Good ==
      \/ /\ user'[u].password = user[u].password
         /\ \A p \in Requests : CommitDelete(p) => req[p].user # u
      \/ \E p \in Requests : CommitReset(p) /\ u = req[p].user
                             /\ user'[u].password = req[p].token
<1>1. ASSUME NEW p \in Requests, CommitDelete(p)
      PROVE  req[p].user # u
  BY <1>1, AbsentValues DEF CommitDelete, TypeOK
<1>2. user' = user => Good
  BY <1>1
<1>3. ASSUME NEW p \in Requests, CommitDelete(p)
      PROVE  Good
  BY <1>1, <1>3 DEF CommitDelete, TypeOK
<1>4. ASSUME NEW p \in Requests, CommitReset(p)
      PROVE  Good
  <2>1. user' = [user EXCEPT ![req[p].user] = [user[req[p].user] EXCEPT !.password = req[p].token]]
    BY <1>4 DEF CommitReset
  <2>2. CASE req[p].user = u
    <3>1. user[u] \in User
      BY DEF TypeOK
    <3>2. user'[u].password = req[p].token
      BY <2>1, <2>2, <3>1 DEF TypeOK, User
    <3>3. QED
      BY <1>4, <2>2, <3>2
  <2>3. CASE req[p].user # u
    BY <1>1, <2>1, <2>3 DEF TypeOK
  <2>4. QED
    BY <2>2, <2>3
<1>5. ASSUME NEW p \in Requests, CommitVerify(p)
      PROVE  Good
  <2>1. PICK v \in BOOLEAN :
          user' = [user EXCEPT ![req[p].user] = [user[req[p].user] EXCEPT !.verified = v]]
    BY <1>5 DEF CommitVerify, TypeOK, User, LocalInv, Local
  <2>2. user[u] \in User
    BY DEF TypeOK
  <2>3. user'[u].password = user[u].password
    BY <2>1, <2>2 DEF TypeOK, User
  <2>4. QED
    BY <1>1, <2>3
<1>6. ASSUME NEW x \in Users, RegisterWithGoogle(x) \/ \E p \in Requests : Register(p, x)
      PROVE  Good
  <2>1. \E v \in BOOLEAN, pw \in {None, Registered} :
          user' = [user EXCEPT ![x] = [status |-> "present", verified |-> v, password |-> pw]]
    BY <1>6 DEF RegisterWithGoogle, Register
  <2>2. user'[u].password = user[u].password
    BY <2>1, AbsentValues DEF TypeOK
  <2>3. QED
    BY <1>1, <2>2
<1>7. ASSUME NEW x \in Users, VerifyWithGoogle(x)
      PROVE  Good
  <2>1. user' = [user EXCEPT ![x] = [user[x] EXCEPT !.verified = TRUE]]
    BY <1>7 DEF VerifyWithGoogle
  <2>2. user[u] \in User
    BY DEF TypeOK
  <2>3. user'[u].password = user[u].password
    BY <2>1, <2>2 DEF TypeOK, User
  <2>4. QED
    BY <1>1, <2>3
<1> HIDE DEF Good
<1>8. Good
  BY <1>2, <1>3, <1>4, <1>5, <1>6, <1>7, UserStep
<1>9. QED
  BY <1>8 DEF Good

(* The step of the theorem below. *)
LEMMA PasswordSpends ==
  ASSUME IInv, PasswordSpendsItsToken, [Next]_vars
  PROVE  PasswordSpendsItsToken'
<1>1. ASSUME NEW u \in Users, user'[u].password \in Tokens
      PROVE  LET t == user'[u].password IN
             tok'[t].status = "consumed" /\ tok'[t].kind = "reset" /\ tok'[t].owner = u
  <2> DEFINE t == user'[u].password
  <2>1. CASE /\ user'[u].password = user[u].password
             /\ \A p \in Requests : CommitDelete(p) => req[p].user # u
    <3>1. tok[t].status = "consumed" /\ tok[t].kind = "reset" /\ tok[t].owner = u
      BY <1>1, <2>1 DEF PasswordSpendsItsToken
    <3>2. tok[t] \in UsedRow
      BY <1>1, <3>1, RowShape DEF NoRow, IInv
    <3>3. tok'[t].status = "consumed"
      BY <1>1, <2>1, <3>1, <3>2, ConsumedStays DEF IInv
    <3>4. QED
      BY <1>1, <3>1, <3>2, <3>3, RowsKept DEF IInv, RowKept
  <2>2. CASE \E p \in Requests : CommitReset(p) /\ u = req[p].user
                                 /\ user'[u].password = req[p].token
    <3>1. PICK p \in Requests : CommitReset(p) /\ u = req[p].user /\ t = req[p].token
      BY <2>2
    <3>2. t \in req[p].mine /\ req[p].op = "reset" /\ tok' = Settled(p, "consumed")
      BY <3>1 DEF CommitReset, IInv, LocalInv, Local, Accepting
    <3>3. tok[t] \in UsedRow /\ tok[t].owner = u /\ tok[t].kind = "reset"
      BY <3>1, <3>2 DEF CommitReset, IInv, RefersInv, Refers, Accepting, KindOf
    <3>4. QED
      BY <1>1, <3>2, <3>3, SettledShape DEF IInv, RefersInv, Refers
  <2>3. QED
    BY <1>1, <2>1, <2>2, PasswordStep DEF IInv
<1>2. QED
  BY <1>1 DEF PasswordSpendsItsToken

(* A password set by a reset comes from a reset token of that user, and that token is       *)
(* spent: resetPassword writes the hash and consumedAt in one transaction, and nothing but  *)
(* the deletion of the user touches the row afterwards.                                     *)
THEOREM ResetSpendsItsToken == Spec => []PasswordSpendsItsToken
<1>1. Init => PasswordSpendsItsToken
  BY AbsentValues DEF Init, PasswordSpendsItsToken
<1>2. IInv /\ PasswordSpendsItsToken /\ [Next]_vars => PasswordSpendsItsToken'
  BY PasswordSpends
<1>3. QED
  BY <1>1, <1>2, Invariance, PTL DEF Spec

(* A request that has locked a row and waits for another one met two usable tokens, or it   *)
(* deletes a user.                                                                          *)
LEMMA HoldAndWait ==
  ASSUME TypeOK, LocalInv, NEW P \in SUBSET Requests,
         \A p \in P : req[p].op # "delete",
         \A p \in P : ~\E t1, t2 \in req[p].saw : t1 # t2,
         NEW q \in P, WaitsFor(q) \cap P # {}
  PROVE  req[q].mine = {}
<1>1. req[q] \in Request /\ Local(req[q])
  BY DEF TypeOK, LocalInv
<1>2. SUFFICES ASSUME req[q].mine # {} PROVE FALSE
  OBVIOUS
<1>3. req[q].at = "rest"
  BY <1>1, <1>2 DEF Local
<1>4. CASE req[q].todo # {}
  BY <1>1, <1>2, <1>4 DEF Local
<1>5. CASE req[q].todo = {}
  <2>1. \A p \in P : ~Clash("share", req[p].lock)
    BY DEF Clash, LocalInv, Local
  <2>2. UserHolders(q, "share") \cap P = {}
    BY <2>1 DEF UserHolders
  <2>3. QED
    BY <1>3, <1>5, <2>2 DEF WaitsFor
<1>6. QED
  BY <1>4, <1>5

(* Issues, resets and verifications wait for each other in a circle only if one of them met *)
(* two usable tokens or a deletion takes part: otherwise the services lock users, accounts  *)
(* and tokens in one order.                                                                 *)
THEOREM DeadlockFreedom == Spec => []DeadlockNeedsTwoTokens
<1>1. ASSUME TypeOK, LocalInv, NEW P \in SUBSET Requests, Deadlocked(P),
             \A p \in P : req[p].op # "delete",
             \A p \in P : ~\E t1, t2 \in req[p].saw : t1 # t2
      PROVE  FALSE
  <2>1. P # {} /\ \A p \in P : WaitsFor(p) \cap P # {}
    BY <1>1 DEF Deadlocked
  <2>2. \A q \in P : req[q].mine = {}
    BY <1>1, <2>1, HoldAndWait
  <2>3. \A p, t : TokenHolders(p, t) \cap P = {}
    BY <2>2 DEF TokenHolders
  <2>4. \A q \in P : ~Clash("share", req[q].lock)
    BY <1>1 DEF Clash, LocalInv, Local
  <2>5. \A p \in P : UserHolders(p, "share") \cap P = {}
    BY <2>4 DEF UserHolders
  <2>6. \A p \in P : req[p].at \in {"email", "account", "insert"}
    BY <2>1, <2>3, <2>5 DEF WaitsFor
  <2>7. \A p \in P : req[p].lock = "none" /\ req[p].account = FALSE
    BY <1>1, <2>6 DEF LocalInv, Local, TypeOK, Request
  <2>8. \A p \in P : UserHolders(p, "update") \cap P = {} /\ AccountHolders(p) \cap P = {}
    BY <2>7 DEF UserHolders, AccountHolders, Clash
  <2>9. QED
    BY <2>1, <2>5, <2>6, <2>8 DEF WaitsFor
<1>2. IInv => DeadlockNeedsTwoTokens
  BY <1>1 DEF IInv, DeadlockNeedsTwoTokens
<1>3. QED
  BY <1>2, Invariance, PTL

-----------------------------------------------------------------------------
(* How many tokens of a kind a user can have.  The inductive invariant counts  *)
(* with the usable tokens the issues in flight that saw none of them: each may *)
(* still add a token without ending one.  It speaks of every part of the       *)
(* usable tokens, since an issue that commits ends the rest.                   *)

(* The issues for u in flight whose updateMany selected none of the tokens in S. *)
Blind(u, kind, S) ==
  {p \in Requests : /\ req[p].at = "rest" /\ req[p].op \in Issuing
                    /\ req[p].user = u /\ KindOf(req[p].op) = kind
                    /\ req[p].saw \cap S = {}}

CountInv ==
  \A u \in Users, kind \in Kinds :
    /\ IsFiniteSet(Live(u, kind))
    /\ \A S \in SUBSET Live(u, kind) :
         Cardinality(S) + Cardinality(Blind(u, kind, S)) <= Cardinality(Requests)

(* A user that does not exist yet has no tokens. *)
OwnersExist ==
  \A t \in Tokens : tok[t] \in UsedRow => user[tok[t].owner].status # "absent"

(* The issues in flight can be counted. *)
LEMMA BlindFinite ==
  ASSUME NEW u, NEW kind, NEW S
  PROVE  /\ IsFiniteSet(Blind(u, kind, S)) /\ Cardinality(Blind(u, kind, S)) \in Nat
         /\ Cardinality(Blind(u, kind, S)) <= Cardinality(Requests)
         /\ Cardinality(Requests) \in Nat
<1>1. Blind(u, kind, S) \in SUBSET Requests
  BY DEF Blind
<1>2. IsFiniteSet(Requests)
  BY RequestsAreFinite
<1>3. IsFiniteSet(Blind(u, kind, S)) /\ Cardinality(Blind(u, kind, S)) <= Cardinality(Requests)
  BY <1>1, <1>2, FS_Subset
<1>4. QED
  BY <1>2, <1>3, FS_CardinalityType

(* A bound on two sets that can be counted is a bound on their parts. *)
LEMMA PartsCount ==
  ASSUME NEW S, NEW T, NEW A \in SUBSET S, NEW B \in SUBSET T, NEW n \in Nat,
         IsFiniteSet(S), IsFiniteSet(T), Cardinality(S) + Cardinality(T) <= n
  PROVE  Cardinality(A) + Cardinality(B) <= n
<1>1. /\ IsFiniteSet(A) /\ Cardinality(A) <= Cardinality(S)
      /\ IsFiniteSet(B) /\ Cardinality(B) <= Cardinality(T)
  BY FS_Subset
<1>2. /\ Cardinality(A) \in Nat /\ Cardinality(S) \in Nat
      /\ Cardinality(B) \in Nat /\ Cardinality(T) \in Nat
  BY <1>1, FS_CardinalityType
<1>3. QED
  BY <1>1, <1>2

(* Nor does the sum grow when one set gains an element and the other loses one. *)
LEMMA MoveCounts ==
  ASSUME NEW S, NEW T, NEW s, NEW p \in T, NEW B \in SUBSET (T \ {p}), NEW n \in Nat,
         IsFiniteSet(S), IsFiniteSet(T), s \notin S, Cardinality(S) + Cardinality(T) <= n
  PROVE  Cardinality(S \cup {s}) + Cardinality(B) <= n
<1>1. IsFiniteSet(S \cup {s}) /\ Cardinality(S \cup {s}) = Cardinality(S) + 1
  BY FS_AddElement
<1>2. IsFiniteSet(T \ {p}) /\ Cardinality(T \ {p}) = Cardinality(T) - 1
  BY FS_RemoveElement
<1>3. Cardinality(S) \in Nat /\ Cardinality(T) \in Nat
  BY FS_CardinalityType
<1>4. Cardinality(S \cup {s}) + Cardinality(T \ {p}) <= n
  BY <1>1, <1>2, <1>3
<1>5. QED
  BY <1>1, <1>2, <1>4, PartsCount

(* What an issue in flight saw, and for whom, was settled when it began. *)
LEMMA IssueWaits ==
  ASSUME TypeOK, LocalInv, [Next]_vars, NEW q \in Requests,
         req'[q].at = "rest", req'[q].op \in Issuing
  PROVE  \/ BeginIssue(q)
         \/ /\ req[q].at = "rest" /\ req'[q].op = req[q].op
            /\ req'[q].user = req[q].user /\ req'[q].saw = req[q].saw
<1> USE DEF TypeOK, Put
<1>1. CASE req'[q] = req[q]
  BY <1>1
<1>2. CASE Blank(req'[q])
  BY <1>2 DEF Blank
<1>3. ASSUME ReadUser(q) \/ LockUser(q) \/ InsertAccount(q)
      PROVE  FALSE
  BY <1>3 DEF ReadUser, LockUser, InsertAccount, Request
<1>4. ASSUME LockAccount(q)
      PROVE  FALSE
  BY <1>4 DEF LockAccount, Request, Issuing
<1>5. ASSUME ConsumeToken(q)
      PROVE  FALSE
  <2>1. req'[q].op = req[q].op /\ req[q].at = "token"
    BY <1>5 DEF ConsumeToken, Request
  <2>2. QED
    BY <2>1 DEF LocalInv, Local, Accepting, Issuing
<1>6. ASSUME NEW t \in Tokens, LockToken(q, t)
      PROVE  /\ req[q].at = "rest" /\ req'[q].op = req[q].op
             /\ req'[q].user = req[q].user /\ req'[q].saw = req[q].saw
  BY <1>6 DEF LockToken, Request
<1>7. ASSUME NEW t \in Tokens, NEW op \in {"verify", "reset"}, FindToken(q, t, op)
      PROVE  FALSE
  BY <1>7 DEF FindToken, Idle
<1>8. QED
  BY <1>1, <1>2, <1>3, <1>4, <1>5, <1>6, <1>7, RequestStep DEF Proceed

(* Only an issue adds a row. *)
LEMMA NewRows ==
  ASSUME TypeOK, RefersInv, [Next]_vars, NEW t \in Tokens, tok[t] = NoRow
  PROVE  tok'[t] = NoRow \/ Issue
<1>1. CASE tok' = tok
  BY <1>1
<1>2. CASE Accept \/ Cascade
  <2>1. PICK p \in Requests, status \in {"consumed", "deleted"} : tok' = Settled(p, status)
    BY <1>2 DEF Accept, Cascade, CommitReset, CommitVerify, CommitDelete
  <2>2. t \in req[p].mine => tok[t] \in UsedRow
    BY DEF RefersInv, Refers
  <2>3. QED
    BY <2>1, <2>2 DEF Settled, NoRow, UsedRow
<1>3. CASE Aging
  <2>1. PICK x \in Tokens : Expire(x)
    BY <1>3 DEF Aging
  <2>2. t # x
    BY <2>1 DEF Expire, NoRow
  <2>3. QED
    BY <2>1, <2>2 DEF Expire, TypeOK
<1>4. QED
  BY <1>1, <1>2, <1>3, TableStep

(* Only an issue gives a user another usable token. *)
LEMMA LiveStep ==
  ASSUME TypeOK, LocalInv, RefersInv, [Next]_vars
  PROVE  Issue \/ \A u, kind : Live(u, kind)' \subseteq Live(u, kind)
<1>1. ASSUME NEW t \in Tokens, tok'[t].status = "live"
      PROVE  tok[t] # NoRow \/ Issue
  <2>1. tok'[t] # NoRow
    BY <1>1 DEF NoRow
  <2>2. QED
    BY <2>1, NewRows
<1>2. ASSUME NEW t \in Tokens, tok'[t].status = "live", ~Issue
      PROVE  /\ tok[t].status = "live" /\ tok'[t].owner = tok[t].owner
             /\ tok'[t].kind = tok[t].kind
  <2>1. tok[t] \in UsedRow
    BY <1>1, <1>2, RowShape
  <2>2. QED
    BY <1>2, <2>1, RowsKept DEF RowKept
<1>3. QED
  BY <1>2 DEF Live

(* An issue adds one token, and leaves none that it saw. *)
LEMMA IssueStep ==
  ASSUME TypeOK, LocalInv, RefersInv, NEW p \in Requests, CommitIssue(p)
  PROVE  \E n \in Tokens :
           /\ tok[n] = NoRow /\ req'[p].at = "mail" /\ \A q \in Requests \ {p} : req'[q] = req[q]
           /\ tok'[n] \in UsedRow /\ tok'[n].owner = req[p].user
           /\ tok'[n].kind = KindOf(req[p].op)
           /\ \A t \in Tokens \ {n} :
                /\ tok[t] = NoRow => tok'[t] = NoRow
                /\ tok'[t].status = "live" => tok'[t] = tok[t] /\ t \notin req[p].saw
<1>1. PICK n \in Tokens :
        /\ NewToken(n)
        /\ tok' = [Settled(p, "consumed") EXCEPT
                     ![n] = [status |-> "live", kind |-> KindOf(req[p].op),
                             owner |-> req[p].user, expired |-> FALSE]]
        /\ Put(p, [Idle EXCEPT !.op = req[p].op, !.at = "mail", !.user = req[p].user, !.token = n])
  BY DEF CommitIssue
<1>2. req'[p].at = "mail" /\ \A q \in Requests \ {p} : req'[q] = req[q]
  BY <1>1 DEF Put, TypeOK, Idle
<1>3. tok'[n] = [status |-> "live", kind |-> KindOf(req[p].op), owner |-> req[p].user,
                 expired |-> FALSE]
  BY <1>1 DEF Settled
<1>4. req[p].user \in Users /\ KindOf(req[p].op) \in Kinds
  BY DEF CommitIssue, LocalInv, Local, KindOf, Kinds
<1>5. tok'[n] \in UsedRow
  BY <1>3, <1>4 DEF UsedRow
<1>6. ASSUME NEW t \in Tokens \ {n}, tok'[t].status = "live"
      PROVE  tok'[t] = tok[t] /\ t \notin req[p].saw
  <2>1. tok'[t] = Settled(p, "consumed")[t]
    BY <1>1 DEF Settled
  <2>2. \A x \in req[p].mine : tok[x] \in UsedRow
    BY DEF RefersInv, Refers
  <2>3. t \notin req[p].mine /\ tok'[t] = tok[t]
    BY <1>6, <2>1, <2>2, SettledShape
  <2>4. req[p].at = "rest" /\ req[p].op # "delete" /\ req[p].todo = {}
    BY DEF CommitIssue
  <2>5. t \notin req[p].saw
    BY <1>6, <2>3, <2>4 DEF RefersInv, Refers
  <2>6. QED
    BY <2>3, <2>5
<1>7. ASSUME NEW t \in Tokens \ {n}, tok[t] = NoRow
      PROVE  tok'[t] = NoRow
  <2>1. tok'[t] = Settled(p, "consumed")[t]
    BY <1>1 DEF Settled
  <2>2. t \notin req[p].mine
    BY <1>7 DEF RefersInv, Refers, NoRow, UsedRow
  <2>3. QED
    BY <1>7, <2>1, <2>2 DEF Settled
<1>8. QED
  BY <1>1, <1>2, <1>3, <1>4, <1>5, <1>6, <1>7 DEF NewToken

(* A registration adds a token to a user that had none. *)
LEMMA RegisterStep ==
  ASSUME TypeOK, NEW p \in Requests, NEW v \in Users, Register(p, v)
  PROVE  \E n \in Tokens :
           /\ tok[n] = NoRow /\ req'[p].at = "mail" /\ \A q \in Requests \ {p} : req'[q] = req[q]
           /\ tok'[n] \in UsedRow /\ tok'[n].owner = v /\ tok'[n].kind = "verify"
           /\ \A t \in Tokens \ {n} : tok'[t] = tok[t]
<1>1. PICK n \in Tokens :
        /\ NewToken(n)
        /\ tok' = [tok EXCEPT ![n] = [status |-> "live", kind |-> "verify", owner |-> v,
                                      expired |-> FALSE]]
        /\ Put(p, [Idle EXCEPT !.op = "register", !.at = "mail", !.user = v, !.token = n])
  BY DEF Register
<1>2. req'[p].at = "mail" /\ \A q \in Requests \ {p} : req'[q] = req[q]
  BY <1>1 DEF Put, TypeOK, Idle
<1>3. tok'[n] = [status |-> "live", kind |-> "verify", owner |-> v, expired |-> FALSE]
      /\ \A t \in Tokens \ {n} : tok'[t] = tok[t]
  BY <1>1 DEF TypeOK
<1>4. tok'[n] \in UsedRow
  BY <1>3 DEF UsedRow, Kinds
<1>5. tok'[n].owner = v /\ tok'[n].kind = "verify"
  BY <1>3
<1>6. QED
  BY <1>1, <1>2, <1>3, <1>4, <1>5 DEF NewToken

(* Every step keeps the tokens with their owners: a user is never absent again. *)
LEMMA OwnersStep ==
  ASSUME TypeOK, LocalInv, RefersInv, OwnersExist, [Next]_vars
  PROVE  OwnersExist'
<1>1. ASSUME NEW v \in Users, user'[v].status = "absent"
      PROVE  user[v].status = "absent"
  <2> USE DEF TypeOK
  <2>1. CASE user' = user
    BY <1>1, <2>1
  <2>2. ASSUME NEW u \in Users, (\E p \in Requests : Register(p, u)) \/ RegisterWithGoogle(u)
        PROVE  user[v].status = "absent"
    BY <1>1, <2>2 DEF Register, RegisterWithGoogle
  <2>3. ASSUME NEW u \in Users, VerifyWithGoogle(u)
        PROVE  user[v].status = "absent"
    BY <1>1, <2>3 DEF VerifyWithGoogle, User
  <2>4. ASSUME NEW p \in Requests, CommitReset(p)
        PROVE  user[v].status = "absent"
    BY <1>1, <2>4 DEF CommitReset, User
  <2>5. ASSUME NEW p \in Requests, CommitVerify(p)
        PROVE  user[v].status = "absent"
    BY <1>1, <2>5 DEF CommitVerify, User
  <2>6. ASSUME NEW p \in Requests, CommitDelete(p)
        PROVE  user[v].status = "absent"
    BY <1>1, <2>6 DEF CommitDelete
  <2>7. QED
    BY <2>1, <2>2, <2>3, <2>4, <2>5, <2>6, UserStep
<1>2. ASSUME NEW t \in Tokens, tok'[t] \in UsedRow, tok[t] \in UsedRow
      PROVE  user'[tok'[t].owner].status # "absent"
  <2>1. tok'[t].owner = tok[t].owner /\ tok[t].owner \in Users
    BY <1>2, RowsKept DEF RowKept, UsedRow
  <2>2. user[tok[t].owner].status # "absent"
    BY <1>2 DEF OwnersExist
  <2>3. QED
    BY <1>1, <2>1, <2>2
<1>3. ASSUME NEW t \in Tokens, tok'[t] \in UsedRow, tok[t] \notin UsedRow
      PROVE  user'[tok'[t].owner].status # "absent"
  <2>1. tok[t] = NoRow /\ tok'[t] # NoRow
    BY <1>3, RowShape DEF NoRow, UsedRow
  <2>2. PICK p \in Requests : CommitIssue(p) \/ \E u \in Users : Register(p, u)
    BY <2>1, NewRows DEF Issue
  <2>3. CASE CommitIssue(p)
    <3>1. PICK n \in Tokens :
            /\ tok'[n].owner = req[p].user
            /\ \A x \in Tokens \ {n} : tok[x] = NoRow => tok'[x] = NoRow
      BY <2>3, IssueStep
    <3>2. user' = user /\ user[req[p].user].status = "present"
      BY <2>3 DEF CommitIssue, Present
    <3>3. QED
      BY <2>1, <3>1, <3>2
  <2>4. ASSUME NEW v \in Users, Register(p, v)
        PROVE  user'[tok'[t].owner].status # "absent"
    <3>1. PICK n \in Tokens :
            /\ tok'[n].owner = v
            /\ \A x \in Tokens \ {n} : tok'[x] = tok[x]
      BY <2>4, RegisterStep
    <3>2. user'[v].status = "present"
      BY <2>4 DEF Register, TypeOK
    <3>3. QED
      BY <2>1, <3>1, <3>2
  <2>5. QED
    BY <2>2, <2>3, <2>4
<1>4. QED
  BY <1>2, <1>3 DEF OwnersExist

(* Every step keeps the bound. *)
LEMMA CountStep ==
  ASSUME TypeOK, LocalInv, RefersInv, OwnersExist, CountInv, [Next]_vars
  PROVE  CountInv'
<1> SUFFICES ASSUME NEW u \in Users, NEW kind \in Kinds
             PROVE  /\ IsFiniteSet(Live(u, kind)')
                    /\ \A S \in SUBSET Live(u, kind)' :
                         Cardinality(S) + Cardinality(Blind(u, kind, S)') <= Cardinality(Requests)
  BY DEF CountInv
<1>1. Cardinality(Requests) \in Nat /\ IsFiniteSet(Requests)
  BY BlindFinite, RequestsAreFinite
<1>2. /\ IsFiniteSet(Live(u, kind))
      /\ \A S \in SUBSET Live(u, kind) :
           Cardinality(S) + Cardinality(Blind(u, kind, S)) <= Cardinality(Requests)
  BY DEF CountInv
<1>3. ASSUME NEW S \in SUBSET Live(u, kind), S # {},
             \A q \in Requests : BeginIssue(q) => Live(u, kind)' = Live(u, kind)
      PROVE  Blind(u, kind, S)' \in SUBSET Blind(u, kind, S)
  <2> SUFFICES ASSUME NEW q \in Blind(u, kind, S)'
               PROVE  q \in Blind(u, kind, S)
    OBVIOUS
  <2>1. /\ q \in Requests /\ req'[q].at = "rest" /\ req'[q].op \in Issuing
        /\ req'[q].user = u /\ KindOf(req'[q].op) = kind /\ req'[q].saw \cap S = {}
    BY DEF Blind
  <2>2. CASE BeginIssue(q)
    <3> DEFINE seen == Live(req[q].user, KindOf(req[q].op))
    <3>1. req'[q] = [req[q] EXCEPT !.at = "rest", !.saw = seen, !.todo = seen]
      BY <2>1, <2>2 DEF BeginIssue, Put, TypeOK
    <3> HIDE DEF seen
    <3>2. req'[q].saw = seen /\ req'[q].user = req[q].user /\ req'[q].op = req[q].op
      BY <2>1, <3>1 DEF TypeOK, Request
    <3>3. seen = Live(u, kind)
      BY <2>1, <3>2 DEF seen
    <3>4. QED
      BY <1>3, <2>1, <3>2, <3>3
  <2>3. CASE /\ req[q].at = "rest" /\ req'[q].op = req[q].op
             /\ req'[q].user = req[q].user /\ req'[q].saw = req[q].saw
    BY <2>1, <2>3 DEF Blind
  <2>4. QED
    BY <2>1, <2>2, <2>3, IssueWaits
<1>4. ASSUME NEW S, S = {}
      PROVE  Cardinality(S) + Cardinality(Blind(u, kind, S)') <= Cardinality(Requests)
  <2>1. Blind(u, kind, S)' \in SUBSET Requests
    BY DEF Blind
  <2>2. /\ IsFiniteSet(Blind(u, kind, S)')
        /\ Cardinality(Blind(u, kind, S)') <= Cardinality(Requests)
    BY <1>1, <2>1, FS_Subset
  <2>3. Cardinality(Blind(u, kind, S)') \in Nat /\ Cardinality(S) = 0
    BY <1>4, <2>2, FS_CardinalityType, FS_EmptySet
  <2>4. QED
    BY <2>2, <2>3
<1>5. CASE Live(u, kind)' \subseteq Live(u, kind)
  <2>1. IsFiniteSet(Live(u, kind)')
    BY <1>2, <1>5, FS_Subset
  <2>2. ASSUME NEW S \in SUBSET Live(u, kind)', S # {}
        PROVE  Cardinality(S) + Cardinality(Blind(u, kind, S)') <= Cardinality(Requests)
    <3>1. S \in SUBSET Live(u, kind) /\ IsFiniteSet(S)
      BY <1>2, <1>5, FS_Subset
    <3>2. \A q \in Requests : BeginIssue(q) => Live(u, kind)' = Live(u, kind)
      BY DEF BeginIssue, Live
    <3>3. Blind(u, kind, S)' \in SUBSET Blind(u, kind, S)
      BY <1>3, <2>2, <3>1, <3>2
    <3>4. QED
      BY <1>1, <1>2, <3>1, <3>3, BlindFinite, PartsCount
  <2>3. QED
    BY <1>4, <2>1, <2>2
<1>6. ASSUME NEW p \in Requests, CommitIssue(p)
      PROVE  /\ IsFiniteSet(Live(u, kind)')
             /\ \A S \in SUBSET Live(u, kind)' :
                  Cardinality(S) + Cardinality(Blind(u, kind, S)') <= Cardinality(Requests)
  <2>1. PICK n \in Tokens :
           /\ tok[n] = NoRow /\ req'[p].at = "mail"
           /\ \A q \in Requests \ {p} : req'[q] = req[q]
           /\ tok'[n].owner = req[p].user
           /\ tok'[n].kind = KindOf(req[p].op)
           /\ \A t \in Tokens \ {n} :
                tok'[t].status = "live" => tok'[t] = tok[t] /\ t \notin req[p].saw
    BY <1>6, IssueStep
  <2>2. n \notin Live(u, kind) /\ \A q \in Requests : n \notin req[q].saw
    BY <2>1 DEF Live, NoRow, UsedRow, RefersInv, Refers
  <2>3. Live(u, kind)' \subseteq Live(u, kind) \cup {n}
    BY <2>1 DEF Live
  <2>4. \A t \in Live(u, kind)' \ {n} : t \notin req[p].saw
    BY <2>1 DEF Live
  <2>5. IsFiniteSet(Live(u, kind)')
    BY <1>2, <2>3, FS_AddElement, FS_Subset
  <2>6. ASSUME NEW S \in SUBSET Live(u, kind)'
        PROVE  Cardinality(S) + Cardinality(Blind(u, kind, S)') <= Cardinality(Requests)
    <3>1. CASE n \notin S
      <4>1. S \in SUBSET Live(u, kind) /\ IsFiniteSet(S)
        BY <1>2, <2>3, <3>1, FS_Subset
      <4>2. Blind(u, kind, S)' \in SUBSET Blind(u, kind, S)
        BY <2>1 DEF Blind
      <4>3. QED
        BY <1>1, <1>2, <4>1, <4>2, BlindFinite, PartsCount
    <3>2. CASE n \in S
      <4> DEFINE T == S \ {n}
      <4>1. T \in SUBSET Live(u, kind) /\ IsFiniteSet(T)
        BY <1>2, <2>3, FS_Subset
      <4>2. u = req[p].user /\ kind = KindOf(req[p].op)
        BY <2>1, <3>2 DEF Live
      <4>3. p \in Blind(u, kind, T)
        BY <1>6, <2>4, <4>2 DEF Blind, CommitIssue, Issuing
      <4>4. Blind(u, kind, S)' \in SUBSET (Blind(u, kind, T) \ {p})
        BY <2>1 DEF Blind
      <4>5. S = T \cup {n} /\ n \notin T
        BY <3>2
      <4> HIDE DEF T
      <4>6. QED
        BY <1>1, <1>2, <4>1, <4>3, <4>4, <4>5, BlindFinite, MoveCounts
    <3>3. QED
      BY <3>1, <3>2
  <2>7. QED
    BY <2>5, <2>6
<1>7. ASSUME NEW p \in Requests, NEW v \in Users, Register(p, v)
      PROVE  /\ IsFiniteSet(Live(u, kind)')
             /\ \A S \in SUBSET Live(u, kind)' :
                  Cardinality(S) + Cardinality(Blind(u, kind, S)') <= Cardinality(Requests)
  <2>1. PICK n \in Tokens :
           /\ tok[n] = NoRow /\ req'[p].at = "mail"
           /\ \A q \in Requests \ {p} : req'[q] = req[q]
           /\ tok'[n] \in UsedRow /\ tok'[n].owner = v
           /\ \A t \in Tokens \ {n} : tok'[t] = tok[t]
    BY <1>7, RegisterStep
  <2>2. Live(u, kind)' \subseteq Live(u, kind) \cup {n}
    BY <2>1 DEF Live
  <2>3. IsFiniteSet(Live(u, kind)')
    BY <1>2, <2>2, FS_AddElement, FS_Subset
  <2>4. Live(v, kind) = {}
    BY <1>7, RowShape DEF Live, OwnersExist, Register, NoRow
  <2>5. ASSUME NEW S \in SUBSET Live(u, kind)'
        PROVE  Cardinality(S) + Cardinality(Blind(u, kind, S)') <= Cardinality(Requests)
    <3>1. CASE n \notin S
      <4>1. S \in SUBSET Live(u, kind) /\ IsFiniteSet(S)
        BY <1>2, <2>2, <3>1, FS_Subset
      <4>2. Blind(u, kind, S)' \in SUBSET Blind(u, kind, S)
        BY <2>1 DEF Blind
      <4>3. QED
        BY <1>1, <1>2, <4>1, <4>2, BlindFinite, PartsCount
    <3>2. CASE n \in S
      <4>1. u = v
        BY <2>1, <3>2 DEF Live
      <4>2. S = {} \cup {n}
        BY <2>2, <2>4, <3>2, <4>1
      <4>3. Blind(u, kind, S)' \in SUBSET (Requests \ {p})
        BY <2>1 DEF Blind
      <4>4. IsFiniteSet({}) /\ Cardinality({}) + Cardinality(Requests) <= Cardinality(Requests)
        BY <1>1, FS_EmptySet
      <4>5. QED
        BY <1>1, <4>2, <4>3, <4>4, MoveCounts
    <3>3. QED
      BY <3>1, <3>2
  <2>6. QED
    BY <2>3, <2>5
<1>8. QED
  BY <1>5, <1>6, <1>7, LiveStep DEF Issue

(* A user has at most as many usable tokens of a kind as the API serves requests at once:   *)
(* tokens that are usable together were issued by requests in flight together.              *)
THEOREM TokensAreBounded == Spec => []LiveBoundedByConcurrency
<1>1. Init => OwnersExist /\ CountInv
  <2> SUFFICES ASSUME Init PROVE OwnersExist /\ CountInv
    OBVIOUS
  <2>1. OwnersExist
    BY DEF Init, OwnersExist, NoRow, UsedRow
  <2>2. \A u, kind : Live(u, kind) = {}
    BY DEF Init, Live, NoRow
  <2>3. ASSUME NEW u, NEW kind
        PROVE  Cardinality({}) + Cardinality(Blind(u, kind, {})) <= Cardinality(Requests)
    BY BlindFinite, FS_EmptySet
  <2>4. QED
    BY <2>1, <2>2, <2>3, FS_EmptySet DEF CountInv
<1>2. IInv /\ OwnersExist /\ CountInv /\ [Next]_vars => (OwnersExist /\ CountInv)'
  BY OwnersStep, CountStep DEF IInv
<1>3. CountInv => LiveBoundedByConcurrency
  <2> SUFFICES ASSUME CountInv, NEW u \in Users, NEW kind \in Kinds
               PROVE  Cardinality(Live(u, kind)) <= Cardinality(Requests)
    BY DEF LiveBoundedByConcurrency
  <2>1. /\ IsFiniteSet(Live(u, kind))
        /\ Cardinality(Live(u, kind)) + Cardinality(Blind(u, kind, Live(u, kind)))
             <= Cardinality(Requests)
    BY DEF CountInv
  <2>2. Cardinality(Live(u, kind)) \in Nat
    BY <2>1, FS_CardinalityType
  <2>3. QED
    BY <2>1, <2>2, BlindFinite
<1>4. QED
  BY <1>1, <1>2, <1>3, Invariance, PTL DEF Spec
=============================================================================
