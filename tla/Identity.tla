------------------------------ MODULE Identity ------------------------------
(***************************************************************************)
(* Who an account belongs to: registration with a password, and Google     *)
(* sign-in with its automatic linking (GoogleAuthService in front of       *)
(* GoogleAccountService).  Two unique constraints of auth_accounts and one *)
(* of users decide every race; the loser of one reconciles in statements   *)
(* of their own, outside any transaction.                                  *)
(*                                                                         *)
(* A transaction that inserts waits for a concurrent one that inserted the *)
(* same key and sees its outcome, so "insert and commit" is one step here; *)
(* what a request read before is in its locals.                            *)
(***************************************************************************)
EXTENDS Naturals, FiniteSets

CONSTANTS
  Users,     \* users.id, numbered in order of creation: bounds how many are created
  Emails,    \* normalized addresses
  Subs,      \* Google subjects
  Requests,  \* Google sign-ins under way at the same time, all of one browser
  Claims,    \* what Google may say of its users: a bound
  None,      \* absent
  MaxLost    \* how many mails are lost: a bound

\* A validated ID token: its subject, its address, and whether Google verified that.
Claim == [sub : Subs, email : Emails \cup {None}, proven : BOOLEAN]

ASSUME ClaimsTyped == Claims \subseteq Claim
ASSUME UsersAreNumbers == Users \subseteq Nat
ASSUME NoneIsNobody == None \notin Users \cup Emails \cup Subs \cup Requests
ASSUME LossBounded == MaxLost \in Nat

VARIABLES
  user,      \* users with their CREDENTIALS account
  google,    \* the GOOGLE rows of auth_accounts, with how each came about
  req,       \* the local state of each Google sign-in between two awaits
  cookie,    \* the sign-in that the browser's OAuth transaction cookie belongs to
  mailed,    \* the users whose verification mail arrived
  lost,      \* mails lost so far
  (* history, read by no guard *)
  disturbed, \* of the sign-ins that need the cookie, those under way together with
             \* another one, and those whose cookie expired
  cut        \* users whose linking was cut off between its two statements

vars == <<user, google, req, cookie, mailed, lost, disturbed, cut>>

Unborn  == [email |-> None, verified |-> FALSE, password |-> FALSE]
Deleted == [email |-> None, verified |-> TRUE, password |-> FALSE]
Idle    == [at |-> "idle", claim |-> None, user |-> None, unverified |-> FALSE]

Exists(u)  == user[u].email # None
NextId(u)  == user[u] = Unborn /\ \A v \in Users : v < u => user[v] # Unborn

Init ==
  /\ user = [u \in Users |-> Unborn]
  /\ google = {}
  /\ req = [p \in Requests |-> Idle]
  /\ cookie = None
  /\ mailed = {} /\ lost = 0
  /\ disturbed = {} /\ cut = {}

Put(p, work)     == req' = [req EXCEPT ![p] = work]
GoTo(p, stage)   == Put(p, [req[p] EXCEPT !.at = stage])
SignIn(p, u)     == Put(p, [Idle EXCEPT !.at = "signin", !.claim = req[p].claim, !.user = u])
Tables           == <<user, google, mailed, lost>>
Browser          == <<cookie, disturbed>>

\* The unique constraints of auth_accounts for a new GOOGLE row.
Conflicts(u, s) == \E g \in google : g.user = u \/ g.sub = s

HasEmail(u, e)  == user[u].email = e
Taken(e)        == \E u \in Users : HasEmail(u, e)  \* the unique constraint of users
Holder(s)       == {g.user : g \in {x \in google : x.sub = s}}
Linked(u)       == \E g \in google : g.user = u

-----------------------------------------------------------------------------
(* Registration, verification and deletion.                                  *)

\* register: the user and its CREDENTIALS account in one transaction; an address in use
\* is a 409.  The mail is sent after the commit and may be lost.
Register(u, e) ==
  /\ NextId(u) /\ ~Taken(e)
  /\ user' = [user EXCEPT ![u] = [email |-> e, verified |-> FALSE, password |-> TRUE]]
  /\ \/ mailed' = mailed \cup {u} /\ UNCHANGED lost
     \/ lost < MaxLost /\ lost' = lost + 1 /\ UNCHANGED mailed
  /\ UNCHANGED <<google, req, Browser, cut>>

Eligible_Once(u) == Exists(u) /\ ~user[u].verified /\ user[u].password /\ lost = 0

\* resend: for an unverified user with a CREDENTIALS account.
Eligible(u) == Exists(u) /\ ~user[u].verified /\ user[u].password

Resend(u) ==
  /\ Eligible(u) /\ u \notin mailed
  /\ \/ mailed' = mailed \cup {u} /\ UNCHANGED lost
     \/ lost < MaxLost /\ lost' = lost + 1 /\ UNCHANGED mailed
  /\ UNCHANGED <<user, google, req, Browser, cut>>

\* verify.
Verify(u) ==
  /\ u \in mailed /\ Exists(u) /\ ~user[u].verified
  /\ user' = [user EXCEPT ![u].verified = TRUE]
  /\ UNCHANGED <<google, req, mailed, lost, Browser, cut>>

\* deleteUser: the accounts cascade.
Delete(u) ==
  /\ Exists(u)
  /\ user' = [user EXCEPT ![u] = Deleted]
  /\ google' = {g \in google : g.user # u}
  /\ mailed' = mailed \ {u} /\ cut' = cut \ {u}
  /\ UNCHANGED <<req, lost, Browser>>

-----------------------------------------------------------------------------
(* The OAuth transaction.                                                    *)

UnderWay(p)    == req[p].at # "idle"
NeedsCookie(p) == req[p].at \in {"google", "refused"}

\* The sign-ins that were not alone in the browser, once p is under way as well.
Crowd(p) ==
  IF \A q \in Requests \ {p} : ~UnderWay(q) THEN disturbed
  ELSE disturbed \cup {p} \cup {q \in Requests : NeedsCookie(q)}

Start_KeepsCookie(p) ==
  /\ req[p] = Idle
  /\ GoTo(p, "google")
  /\ cookie' = IF cookie = None THEN p ELSE cookie
  /\ disturbed' = Crowd(p)
  /\ UNCHANGED <<Tables, cut>>

\* start: fresh state, nonce and verifier go into the browser's one cookie.
Start(p) ==
  /\ req[p] = Idle
  /\ GoTo(p, "google")
  /\ cookie' = p
  /\ disturbed' = Crowd(p)
  /\ UNCHANGED <<Tables, cut>>

\* decodeOAuthTransaction: the payload passes its exp.
Expire ==
  /\ cookie # None
  /\ disturbed' = disturbed \cup {q \in {cookie} : NeedsCookie(q)}
  /\ cookie' = None
  /\ UNCHANGED <<Tables, req, cut>>

End(p) == Put(p, Idle) /\ disturbed' = disturbed \ {p}

\* The redirect that ends p, with the Set-Cookie that clears the transaction: it removes the
\* cookie that the browser has by then, whichever sign-in that belongs to.
Answer(p) == End(p) /\ cookie' = None

\* The user gives up at Google, or Google reports an error and the callback clears the cookie.
Deny(p) ==
  /\ req[p].at = "google"
  /\ Answer(p) \/ (End(p) /\ UNCHANGED cookie)
  /\ UNCHANGED <<Tables, cut>>

\* handleCallback, up to the exchange: the cookie is read here and cleared by the answer.
Callback(p, claim) ==
  /\ req[p].at = "google"
  /\ \/ /\ cookie = p
        /\ Put(p, [Idle EXCEPT !.at = "resolve", !.claim = claim])
        /\ disturbed' = disturbed \ {p}
     \/ /\ cookie # p
        /\ Put(p, [Idle EXCEPT !.at = "refused"])
        /\ UNCHANGED disturbed
  /\ UNCHANGED <<Tables, cookie, cut>>

\* The redirect to /prisijungti?oauth=failed.
Refuse(p) ==
  /\ req[p].at = "refused"
  /\ Answer(p)
  /\ UNCHANGED <<Tables, cut>>

-----------------------------------------------------------------------------
(* resolveIdentity.                                                          *)

Acceptable_Unproven(claim) == claim.email # None

\* A new subject needs an address that Google verified.
Acceptable(claim) == claim.email # None /\ claim.proven

\* findAccountBySub, then the checks of the claim.
Resolve(p) ==
  /\ req[p].at = "resolve"
  /\ \/ \E u \in Holder(req[p].claim.sub) : SignIn(p, u) /\ UNCHANGED Browser
     \/ /\ Holder(req[p].claim.sub) = {}
        /\ IF Acceptable(req[p].claim) THEN GoTo(p, "look") /\ UNCHANGED Browser ELSE Answer(p)
  /\ UNCHANGED <<Tables, cut>>

\* The user with the address, seen without a Google account.
Saw(p, u, stage) ==
  /\ Put(p, [req[p] EXCEPT !.at = stage, !.user = u, !.unverified = ~user[u].verified])
  /\ UNCHANGED Browser

\* The transaction reads the user with the address and its Google account.
Look(p) ==
  /\ req[p].at = "look"
  /\ \/ \E u \in Users :
          /\ HasEmail(u, req[p].claim.email)
          /\ IF Linked(u) THEN Answer(p) ELSE Saw(p, u, "insert")
     \/ ~Taken(req[p].claim.email) /\ GoTo(p, "insert") /\ UNCHANGED Browser
  /\ UNCHANGED <<Tables, cut>>

\* The account row, and the address that Google proved for it.
NewLink(u, claim) ==
  google \cup {[user |-> u, sub |-> claim.sub,
                proof |-> IF claim.proven THEN claim.email ELSE None]}

\* The transaction links the user it saw, verifies its address and commits.
LinkUser(p) ==
  LET u == req[p].user  claim == req[p].claim IN
  /\ req[p].at = "insert" /\ u # None
  /\ Exists(u) /\ ~Conflicts(u, claim.sub)
  /\ google' = NewLink(u, claim)
  /\ user' = [user EXCEPT ![u].verified = @ \/ req[p].unverified]
  /\ SignIn(p, u)
  /\ UNCHANGED <<mailed, lost, Browser, cut>>

\* The transaction creates the user and its account and commits.
CreateUser(p, u) ==
  LET claim == req[p].claim IN
  /\ req[p].at = "insert" /\ req[p].user = None
  /\ NextId(u) /\ ~Taken(claim.email) /\ ~Conflicts(u, claim.sub)
  /\ user' = [user EXCEPT ![u] = [email |-> claim.email, verified |-> TRUE, password |-> FALSE]]
  /\ google' = NewLink(u, claim)
  /\ SignIn(p, u)
  /\ UNCHANGED <<mailed, lost, Browser, cut>>

\* A unique constraint is violated (P2002).
Collide(p) ==
  LET u == req[p].user  claim == req[p].claim IN
  /\ req[p].at = "insert"
  /\ IF u = None THEN Taken(claim.email) \/ Holder(claim.sub) # {}
                 ELSE Exists(u) /\ Conflicts(u, claim.sub)
  /\ Put(p, [Idle EXCEPT !.at = "raced", !.claim = claim])
  /\ UNCHANGED <<Tables, Browser, cut>>

\* The reconciliation: the subject may be linked by now.
RacedSub(p) ==
  /\ req[p].at = "raced"
  /\ \/ \E u \in Holder(req[p].claim.sub) : SignIn(p, u)
     \/ Holder(req[p].claim.sub) = {} /\ GoTo(p, "racedUser")
  /\ UNCHANGED <<Tables, Browser, cut>>

\* Otherwise the address may have a user, with another Google account or with none.
RacedUser(p) ==
  /\ req[p].at = "racedUser"
  /\ \/ \E u \in Users :
          /\ HasEmail(u, req[p].claim.email)
          /\ IF Linked(u) THEN Answer(p) ELSE Saw(p, u, "racedLink")
     \/ ~Taken(req[p].claim.email) /\ Answer(p)
  /\ UNCHANGED <<Tables, cut>>

RacedLink_Unconfirmed(p) ==
  LET u == req[p].user  claim == req[p].claim IN
  /\ req[p].at = "racedLink"
  /\ Exists(u)
  /\ IF Conflicts(u, claim.sub) THEN GoTo(p, "again") /\ UNCHANGED google
     ELSE google' = NewLink(u, claim) /\ SignIn(p, u)
  /\ UNCHANGED <<user, mailed, lost, Browser, cut>>

\* The retried insert, a statement of its own; a second violation looks for the winner.
RacedLink(p) ==
  LET u == req[p].user  claim == req[p].claim IN
  /\ req[p].at = "racedLink"
  /\ Exists(u)
  /\ IF Conflicts(u, claim.sub) THEN GoTo(p, "again") /\ UNCHANGED google
     ELSE /\ google' = NewLink(u, claim)
          /\ IF req[p].unverified THEN GoTo(p, "confirm") ELSE SignIn(p, u)
  /\ UNCHANGED <<user, mailed, lost, Browser, cut>>

\* The second statement: the address is marked as verified.
Confirm(p) ==
  /\ req[p].at = "confirm" /\ Exists(req[p].user)
  /\ user' = [user EXCEPT ![req[p].user].verified = TRUE]
  /\ SignIn(p, req[p].user)
  /\ UNCHANGED <<google, mailed, lost, Browser, cut>>

Again_TrustsEmail(p) == req[p].at = "again" /\ SignIn(p, req[p].user)
                        /\ UNCHANGED <<Tables, Browser, cut>>

Again(p) ==
  /\ req[p].at = "again"
  /\ \/ \E u \in Holder(req[p].claim.sub) : SignIn(p, u) /\ UNCHANGED Browser
     \/ Holder(req[p].claim.sub) = {} /\ Answer(p)
  /\ UNCHANGED <<Tables, cut>>

\* createSession and the redirect to ?oauth=success; AuthSession has what happens there.
Finish(p) ==
  /\ req[p].at = "signin"
  /\ Answer(p)
  /\ UNCHANGED <<Tables, cut>>

\* A request dies or fails: a foreign key, a missing row, Google's refusal, a crash.  Its
\* answer may be lost, or clear the cookie like every other.
Abort(p) ==
  /\ req[p].at \notin {"idle", "google", "refused"}
  /\ Answer(p) \/ (End(p) /\ UNCHANGED cookie)
  /\ cut' = IF req[p].at = "confirm" /\ Exists(req[p].user) THEN cut \cup {req[p].user} ELSE cut
  /\ UNCHANGED Tables

Work(p) ==
  \/ Refuse(p) \/ Resolve(p) \/ Look(p) \/ LinkUser(p) \/ Collide(p)
  \/ \E u \in Users : CreateUser(p, u)
  \/ RacedSub(p) \/ RacedUser(p) \/ RacedLink(p) \/ Confirm(p) \/ Again(p) \/ Finish(p)
  \/ Abort(p)

Next ==
  \/ \E u \in Users : \E e \in Emails : Register(u, e)
  \/ \E u \in Users : Resend(u) \/ Verify(u) \/ Delete(u)
  \/ \E p \in Requests : Start(p) \/ Deny(p) \/ Work(p)
  \/ \E p \in Requests, claim \in Claims : Callback(p, claim)
  \/ Expire

\* A request that the API works on goes on, and the owner of an address asks for the mail
\* and follows its link.
Fairness ==
  /\ \A p \in Requests : WF_vars(Work(p))
  /\ \A u \in Users : WF_vars(Resend(u)) /\ WF_vars(Verify(u))

Spec == Init /\ [][Next]_vars /\ Fairness

-----------------------------------------------------------------------------
(* Properties                                                                *)

\* "A sub is never reassigned": whatever races and deletions happen on the way, a sign-in
\* ends as the user that holds its subject, or as a user deleted meanwhile (and then has
\* no session).
SignsInTheHolder ==
  \A p \in Requests : req[p].at = "signin" =>
    \/ req[p].user \in Holder(req[p].claim.sub)
    \/ ~Exists(req[p].user)

\* "A Google email is never an authorization to take over a different account": a user is
\* linked only to a subject for which Google proved the user's own address.
LinksProven ==
  \A g \in google : user[g.user].email = g.proof

\* "Its email is marked verified, because Google has proven control": a linked user is
\* unverified only while a request is between the two statements of the reconciliation, or
\* after one was cut off there.
LinkedIsVerified ==
  \A u \in Users : Linked(u) /\ ~user[u].verified =>
    u \in cut \/ \E p \in Requests : req[p].at = "confirm" /\ req[p].user = u

\* One cookie serves all tabs of the browser, and an answer clears it late: a callback is
\* refused only if another sign-in was under way at the same time as it, or its cookie
\* expired.  Nothing that an earlier sign-in left behind refuses one that is alone.
RefusedOnlyIfOverlapped == \A p \in Requests : req[p].at = "refused" => p \in disturbed

\* An account whose first mails were lost still comes to life: its owner can always get
\* another one.
AddressBecomesUsable ==
  \A u \in Users : [](~user[u].verified /\ Exists(u) => <>(user[u].verified \/ ~Exists(u)))
=============================================================================
