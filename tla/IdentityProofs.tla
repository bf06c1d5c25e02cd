--------------------------- MODULE IdentityProofs ---------------------------
(***************************************************************************)
(* Theorems about Identity, for every number of users, addresses, subjects *)
(* and sign-ins, and everything that Google may claim.                     *)
(***************************************************************************)
EXTENDS Identity, TLAPS

Stages  == {"idle", "google", "refused", "resolve", "look", "insert", "raced", "racedUser",
            "racedLink", "confirm", "again", "signin"}
Account == [email : Emails \cup {None}, verified : BOOLEAN, password : BOOLEAN]
Link    == [user : Users, sub : Subs, proof : Emails \cup {None}]
Request == [at : Stages, claim : Claims \cup {None}, user : Users \cup {None},
            unverified : BOOLEAN]

TypeOK ==
  /\ user \in [Users -> Account]
  /\ google \subseteq Link
  /\ req \in [Requests -> Request]
  /\ cookie \in Requests \cup {None}

(* What the locals of a request say of the tables us and gs.  The user that it saw still *)
(* has the claimed address, verified unless it saw otherwise, or is deleted; the user it *)
(* signs in holds the subject, or is deleted.                                            *)
Founded(w, us, gs) ==
  /\ w.at \notin {"idle", "google", "refused"} => w.claim \in Claims
  /\ w.at \in {"look", "insert", "raced", "racedUser", "racedLink", "confirm", "again"} =>
       Acceptable(w.claim)
  /\ w.at \in {"resolve", "look"} => w.user = None
  /\ w.at = "racedLink" \/ (w.at = "insert" /\ w.user # None) =>
       /\ w.user \in Users
       /\ \/ us[w.user] = Deleted
          \/ us[w.user].email = w.claim.email /\ (w.unverified \/ us[w.user].verified)
  /\ w.at \in {"confirm", "signin"} =>
       /\ w.user \in Users
       /\ us[w.user] = Deleted \/ \E g \in gs : g.user = w.user /\ g.sub = w.claim.sub

LocalsInv == \A p \in Requests : Founded(req[p], user, google)

(* The users of links exist. *)
LinksInv == \A g \in google : g.proof # None /\ user[g.user].email = g.proof

(* A sign-in at Google has the cookie, unless it is not alone or its cookie expired.  An *)
(* answer clears the cookie of whoever has it then: that one is not alone.               *)
CookieInv ==
  /\ \A p \in Requests : req[p].at = "google" => cookie = p \/ p \in disturbed
  /\ \A p \in Requests : req[p].at = "refused" => p \in disturbed
  /\ \A p, q \in Requests : p # q /\ UnderWay(p) /\ NeedsCookie(q) => q \in disturbed

IInv == TypeOK /\ LocalsInv /\ LinksInv /\ LinkedIsVerified /\ CookieInv

-----------------------------------------------------------------------------
(* Shapes.                                                                   *)

LEMMA IdleShape ==
  /\ Idle \in Request
  /\ Idle.at = "idle" /\ Idle.user = None
BY DEF Idle, Request, Stages

LEMMA StageShape ==
  ASSUME NEW w \in Request, NEW s \in Stages
  PROVE  LET n == [w EXCEPT !.at = s] IN
         /\ n \in Request
         /\ n.at = s /\ n.claim = w.claim /\ n.user = w.user /\ n.unverified = w.unverified
BY DEF Request

LEMMA SignInShape ==
  ASSUME NEW c \in Claims, NEW u \in Users
  PROVE  LET n == [Idle EXCEPT !.at = "signin", !.claim = c, !.user = u] IN
         n \in Request /\ n.at = "signin" /\ n.claim = c /\ n.user = u
BY DEF Idle, Request, Stages

LEMMA ClaimShape ==
  ASSUME NEW c \in Claims, NEW s \in Stages
  PROVE  LET n == [Idle EXCEPT !.at = s, !.claim = c] IN
         n \in Request /\ n.at = s /\ n.claim = c /\ n.user = None
BY DEF Idle, Request, Stages

LEMMA RequestTyped ==
  ASSUME IInv, NEW p \in Requests
  PROVE  req[p] \in Request /\ Founded(req[p], user, google)
BY DEF IInv, TypeOK, LocalsInv

LEMMA IdleIsFounded == \A us, gs : Founded(Idle, us, gs)
BY IdleShape DEF Founded

-----------------------------------------------------------------------------
(* What steps have in common.                                                *)

(* An existing user keeps its address and stays verified until it is deleted, for good; *)
(* a link goes only with its user.                                                      *)
TableStep ==
  /\ \A u \in Users : Exists(u) =>
       \/ user'[u] = Deleted
       \/ user'[u].email = user[u].email /\ (user[u].verified => user'[u].verified)
  /\ \A u \in Users : user[u] = Deleted => user'[u] = Deleted
  /\ \A g \in google : g \in google' \/ user'[g.user] = Deleted

LEMMA FoundedKept ==
  ASSUME TypeOK, TableStep, NEW w \in Request, Founded(w, user, google)
  PROVE  Founded(w, user', google')
<1>1. w.at = "racedLink" \/ (w.at = "insert" /\ w.user # None) =>
        /\ w.user \in Users
        /\ \/ user'[w.user] = Deleted
           \/ /\ user'[w.user].email = w.claim.email
              /\ w.unverified \/ user'[w.user].verified
  BY DEF Founded, TableStep, Exists, Acceptable
<1>2. w.at \in {"confirm", "signin"} =>
        /\ w.user \in Users
        /\ user'[w.user] = Deleted \/ \E g \in google' : g.user = w.user /\ g.sub = w.claim.sub
  BY DEF Founded, TableStep
<1>3. QED
  BY <1>1, <1>2 DEF Founded

(* A step of p's request keeps the locals of all requests founded. *)
LEMMA LocalsKept ==
  ASSUME IInv, TableStep, NEW w \in Request, NEW p \in Requests, Put(p, w),
         Founded(w, user', google')
  PROVE  /\ LocalsInv' /\ req' \in [Requests -> Request]
         /\ req'[p] = w
         /\ \A q \in Requests : q # p => req'[q] = req[q]
<1>1. /\ req' \in [Requests -> Request]
      /\ req'[p] = w
      /\ \A q \in Requests : q # p => req'[q] = req[q]
  BY DEF Put, IInv, TypeOK
<1>2. \A q \in Requests : Founded(req'[q], user', google')
  BY <1>1, RequestTyped, FoundedKept DEF IInv
<1>3. QED
  BY <1>1, <1>2 DEF LocalsInv

LEMMA NoTableStep == ASSUME UNCHANGED <<user, google>> PROVE TableStep
BY DEF TableStep

(* A request in the API that ends or goes on there does not concern the cookie. *)
LEMMA CookieKept ==
  ASSUME IInv, NEW p \in Requests, UnderWay(p), req'[p].at \notin {"google", "refused"},
         \A q \in Requests : q # p => req'[q] = req[q],
         UNCHANGED Browser
  PROVE  CookieInv' /\ cookie' \in Requests \cup {None}
BY DEF IInv, TypeOK, CookieInv, Browser, UnderWay, NeedsCookie

(* A step of one request that leaves the tables alone. *)
LEMMA PutKeeps ==
  ASSUME IInv, NEW p \in Requests, NEW w \in Request, Put(p, w),
         Founded(w, user, google), UNCHANGED <<user, google>>,
         cut \subseteq cut',
         req[p].at = "confirm" /\ Exists(req[p].user) => req[p].user \in cut',
         cookie' \in Requests \cup {None}, CookieInv'
  PROVE  IInv'
<1>1. /\ LocalsInv' /\ req' \in [Requests -> Request]
      /\ \A q \in Requests : q # p => req'[q] = req[q]
  BY NoTableStep, LocalsKept
<1>2. TypeOK' /\ LinksInv'
  BY <1>1 DEF IInv, TypeOK, LinksInv
<1>3. LinkedIsVerified'
  <2> SUFFICES ASSUME NEW u \in Users, Linked(u), ~user[u].verified
               PROVE  u \in cut' \/ \E q \in Requests : req'[q].at = "confirm" /\ req'[q].user = u
    BY DEF LinkedIsVerified, Linked
  <2>1. Exists(u)
    BY DEF IInv, LinksInv, Linked, Exists
  <2>2. CASE u \in cut
    BY <2>2
  <2>3. CASE \E q \in Requests : req[q].at = "confirm" /\ req[q].user = u
    BY <1>1, <2>1, <2>3
  <2>4. QED
    BY <2>2, <2>3 DEF IInv, LinkedIsVerified
<1>4. QED
  BY <1>1, <1>2, <1>3 DEF IInv

(* The same within the API. *)
LEMMA WorkKeeps ==
  ASSUME IInv, NEW p \in Requests, NEW w \in Request, Put(p, w),
         Founded(w, user, google), UNCHANGED <<user, google>>, UNCHANGED Browser,
         UnderWay(p), w.at \notin {"google", "refused"}, cut \subseteq cut',
         req[p].at = "confirm" /\ Exists(req[p].user) => req[p].user \in cut'
  PROVE  IInv'
<1>1. req'[p] = w /\ \A q \in Requests : q # p => req'[q] = req[q]
  BY DEF Put, IInv, TypeOK
<1>2. QED
  BY <1>1, CookieKept, PutKeeps

(* The request ends, and the browser's cookie stays or goes, whoever it belongs to. *)
LEMMA EndKeeps ==
  ASSUME IInv, NEW p \in Requests, UnderWay(p), End(p), cookie' \in {cookie, None},
         UNCHANGED <<user, google>>, cut \subseteq cut',
         req[p].at = "confirm" /\ Exists(req[p].user) => req[p].user \in cut'
  PROVE  IInv'
<1>1. Put(p, Idle) /\ disturbed' = disturbed \ {p}
  BY DEF End
<1>2. req'[p].at = "idle" /\ \A q \in Requests : q # p => req'[q] = req[q]
  BY <1>1, IdleShape DEF Put, IInv, TypeOK
<1>3. CookieInv'
  <2>1. \A q \in Requests : NeedsCookie(q)' => q # p /\ NeedsCookie(q) /\ q \in disturbed
    BY <1>2 DEF NeedsCookie, IInv, CookieInv
  <2>2. QED
    BY <1>1, <2>1 DEF CookieInv, NeedsCookie
<1>4. cookie' \in Requests \cup {None}
  BY DEF IInv, TypeOK
<1>5. QED
  BY <1>1, <1>3, <1>4, IdleShape, IdleIsFounded, PutKeeps

LEMMA AnswerKeeps ==
  ASSUME IInv, NEW p \in Requests, UnderWay(p), req[p].at # "confirm", Answer(p),
         UNCHANGED <<Tables, cut>>
  PROVE  IInv'
BY EndKeeps DEF Answer, Tables

LEMMA InvInit == Init => IInv
<1> SUFFICES ASSUME Init PROVE IInv
  OBVIOUS
<1>1. TypeOK
  BY IdleShape DEF Init, TypeOK, Account, Unborn
<1>2. LocalsInv
  BY IdleIsFounded DEF Init, LocalsInv
<1>3. LinksInv /\ LinkedIsVerified /\ CookieInv
  BY IdleShape DEF Init, LinksInv, LinkedIsVerified, Linked, CookieInv, NeedsCookie
<1>4. QED
  BY <1>1, <1>2, <1>3 DEF IInv

-----------------------------------------------------------------------------
(* The browser's steps.                                                      *)

LEMMA StartKeeps == ASSUME IInv, NEW p \in Requests, Start(p) PROVE IInv'
<1> DEFINE w == [req[p] EXCEPT !.at = "google"]
<1>1. /\ w \in Request /\ w.at = "google"
      /\ req[p].at = "idle"
  BY RequestTyped, StageShape, IdleShape DEF Start, Stages
<1> HIDE DEF w
<1>2. Put(p, w) /\ UNCHANGED <<user, google>> /\ UNCHANGED cut
  BY DEF Start, GoTo, Tables, w
<1>3. Founded(w, user, google)
  BY <1>1 DEF Founded
<1>4. req'[p] = w /\ \A q \in Requests : q # p => req'[q] = req[q]
  BY <1>2 DEF Put, IInv, TypeOK
<1>5. CookieInv' /\ cookie' \in Requests \cup {None}
  <2>1. CASE \A q \in Requests \ {p} : ~UnderWay(q)
    <3>1. \A q \in Requests : q # p => ~UnderWay(q)'
      BY <1>4, <2>1 DEF UnderWay
    <3>2. QED
      BY <1>1, <1>4, <3>1 DEF Start, CookieInv, UnderWay, NeedsCookie
  <2>2. CASE ~ \A q \in Requests \ {p} : ~UnderWay(q)
    <3>1. disturbed' = disturbed \cup {p} \cup {q \in Requests : NeedsCookie(q)}
      BY <2>2 DEF Start, Crowd
    <3>2. \A q \in Requests : NeedsCookie(q)' => q \in disturbed'
      BY <1>4, <3>1 DEF NeedsCookie
    <3>3. QED
      BY <3>2 DEF Start, CookieInv, NeedsCookie
  <2>3. QED
    BY <2>1, <2>2
<1>6. QED
  BY <1>1, <1>2, <1>3, <1>5, PutKeeps

LEMMA DenyKeeps == ASSUME IInv, NEW p \in Requests, Deny(p) PROVE IInv'
<1>1. /\ End(p) /\ cookie' \in {cookie, None} /\ UNCHANGED <<user, google>>
      /\ UNCHANGED cut /\ req[p].at = "google"
  BY DEF Deny, Answer, Tables
<1>2. QED
  BY <1>1, EndKeeps DEF UnderWay

LEMMA CallbackKeeps ==
  ASSUME IInv, NEW p \in Requests, NEW claim \in Claims, Callback(p, claim)
  PROVE  IInv'
<1>1. UNCHANGED <<user, google>> /\ UNCHANGED cut /\ req[p].at = "google"
  BY DEF Callback, Tables
<1>2. PICK w \in Request :
        /\ Put(p, w)
        /\ Founded(w, user, google)
        /\ \/ w.at = "resolve" /\ disturbed' = disturbed \ {p}
           \/ w.at = "refused" /\ cookie # p /\ UNCHANGED disturbed
  <2>1. CASE cookie = p /\ Put(p, [Idle EXCEPT !.at = "resolve", !.claim = claim])
                        /\ disturbed' = disturbed \ {p}
    <3> DEFINE n == [Idle EXCEPT !.at = "resolve", !.claim = claim]
    <3>1. n \in Request /\ n.at = "resolve" /\ n.claim = claim /\ n.user = None
      BY ClaimShape DEF Stages
    <3>2. Put(p, n)
      BY <2>1
    <3> HIDE DEF n
    <3>3. Founded(n, user, google)
      BY <3>1 DEF Founded
    <3>4. QED
      BY <2>1, <3>1, <3>2, <3>3
  <2>2. CASE cookie # p /\ Put(p, [Idle EXCEPT !.at = "refused"]) /\ UNCHANGED disturbed
    <3> DEFINE n == [Idle EXCEPT !.at = "refused"]
    <3>1. n \in Request /\ n.at = "refused"
      BY IdleShape, StageShape DEF Stages
    <3>2. Put(p, n)
      BY <2>2
    <3> HIDE DEF n
    <3>3. Founded(n, user, google)
      BY <3>1 DEF Founded
    <3>4. QED
      BY <2>2, <3>1, <3>2, <3>3
  <2>3. QED
    BY <2>1, <2>2 DEF Callback
<1>3. req'[p] = w /\ \A q \in Requests : q # p => req'[q] = req[q]
  BY <1>2 DEF Put, IInv, TypeOK
<1>4. CookieInv' /\ cookie' \in Requests \cup {None}
  <2>1. UNCHANGED cookie /\ cookie \in Requests \cup {None} /\ CookieInv
    BY DEF Callback, IInv, TypeOK
  <2>2. CASE w.at = "resolve" /\ disturbed' = disturbed \ {p}
    <3>1. \A q \in Requests : NeedsCookie(q)' => q # p /\ NeedsCookie(q)
      BY <1>3, <2>2 DEF NeedsCookie
    <3>2. \A q \in Requests : UnderWay(q)' => UnderWay(q)
      BY <1>1, <1>3 DEF UnderWay
    <3>3. QED
      BY <1>3, <2>1, <2>2, <3>1, <3>2 DEF CookieInv, NeedsCookie
  <2>3. CASE w.at = "refused" /\ cookie # p /\ UNCHANGED disturbed
    <3>1. \A q \in Requests : NeedsCookie(q)' => NeedsCookie(q)
      BY <1>1, <1>3 DEF NeedsCookie
    <3>2. \A q \in Requests : UnderWay(q)' => UnderWay(q)
      BY <1>1, <1>3 DEF UnderWay
    <3>3. QED
      BY <1>1, <1>3, <2>1, <2>3, <3>1, <3>2 DEF CookieInv, NeedsCookie
  <2>4. QED
    BY <1>2, <2>2, <2>3
<1>5. QED
  BY <1>1, <1>2, <1>4, PutKeeps

LEMMA RefuseKeeps == ASSUME IInv, NEW p \in Requests, Refuse(p) PROVE IInv'
BY AnswerKeeps DEF Refuse, UnderWay

LEMMA ExpireKeeps == ASSUME IInv, Expire PROVE IInv'
<1>1. UNCHANGED <<user, google, req>> /\ UNCHANGED cut
  BY DEF Expire, Tables
<1>2. CookieInv' /\ cookie' \in Requests \cup {None}
  BY <1>1, NoneIsNobody DEF Expire, IInv, CookieInv, UnderWay, NeedsCookie
<1>3. QED
  BY <1>1, <1>2 DEF IInv, TypeOK, LocalsInv, LinksInv, LinkedIsVerified, Linked

-----------------------------------------------------------------------------
(* The steps that read.                                                      *)

(* Where a read may lead. *)
LEMMA HolderKeeps ==
  ASSUME IInv, NEW p \in Requests, req[p].claim \in Claims,
         req[p].at \notin {"idle", "confirm"}, NEW u \in Holder(req[p].claim.sub), SignIn(p, u),
         UNCHANGED <<Tables, Browser, cut>>
  PROVE  IInv'
<1> DEFINE w == [Idle EXCEPT !.at = "signin", !.claim = req[p].claim, !.user = u]
<1>1. u \in Users /\ \E g \in google : g.user = u /\ g.sub = req[p].claim.sub
  BY DEF Holder, IInv, TypeOK, Link
<1>2. w \in Request /\ w.at = "signin" /\ w.claim = req[p].claim /\ w.user = u
  BY <1>1 DEF Idle, Request, Stages
<1>3. Put(p, w)
  BY DEF SignIn
<1> HIDE DEF w
<1>4. Founded(w, user, google)
  BY <1>1, <1>2 DEF Founded
<1>5. QED
  BY <1>2, <1>3, <1>4, WorkKeeps DEF Tables, UnderWay

LEMMA StageKeeps ==
  ASSUME IInv, NEW p \in Requests, NEW s \in Stages \ {"idle", "google", "refused"},
         GoTo(p, s), req[p].at \notin {"idle", "confirm"}, req[p].claim \in Claims,
         s # "resolve" => Acceptable(req[p].claim),
         s \in {"resolve", "look", "insert"} => req[p].user = None,
         s \notin {"racedLink", "confirm", "signin"},
         UNCHANGED <<Tables, Browser, cut>>
  PROVE  IInv'
<1> DEFINE w == [req[p] EXCEPT !.at = s]
<1>1. w \in Request /\ w.at = s /\ w.claim = req[p].claim /\ w.user = req[p].user
  BY RequestTyped, StageShape
<1>2. Put(p, w)
  BY DEF GoTo
<1> HIDE DEF w
<1>3. Founded(w, user, google)
  BY <1>1 DEF Founded
<1>4. QED
  BY <1>1, <1>2, <1>3, WorkKeeps DEF Tables, UnderWay

(* The user with the claimed address was found without a link. *)
LEMMA SawKeeps ==
  ASSUME IInv, NEW p \in Requests, NEW s \in {"insert", "racedLink"}, NEW u \in Users,
         HasEmail(u, req[p].claim.email), req[p].at \notin {"idle", "confirm"},
         req[p].claim \in Claims, Acceptable(req[p].claim), Saw(p, u, s),
         UNCHANGED <<Tables, cut>>
  PROVE  IInv'
<1> DEFINE w == [req[p] EXCEPT !.at = s, !.user = u, !.unverified = ~user[u].verified]
<1>1. user[u].verified \in BOOLEAN
  BY DEF IInv, TypeOK, Account
<1>2. /\ w \in Request /\ w.at = s /\ w.claim = req[p].claim
      /\ w.user = u /\ w.unverified = ~user[u].verified
  BY <1>1, RequestTyped DEF Request, Stages
<1> HIDE DEF w
<1>3. Founded(w, user, google)
  BY <1>1, <1>2 DEF Founded, HasEmail
<1>4. Put(p, w) /\ UNCHANGED Browser
  BY DEF Saw, w
<1>5. QED
  BY <1>2, <1>3, <1>4, WorkKeeps DEF Tables, UnderWay

LEMMA ResolveKeeps == ASSUME IInv, NEW p \in Requests, Resolve(p) PROVE IInv'
<1>1. req[p].at = "resolve" /\ req[p].claim \in Claims /\ req[p].user = None
  BY RequestTyped DEF Resolve, Founded
<1>2. CASE \E u \in Holder(req[p].claim.sub) : SignIn(p, u) /\ UNCHANGED Browser
  BY <1>1, <1>2, HolderKeeps DEF Resolve
<1>3. CASE Acceptable(req[p].claim) /\ GoTo(p, "look") /\ UNCHANGED Browser
  BY <1>1, <1>3, StageKeeps DEF Resolve, Stages
<1>4. CASE Answer(p)
  BY <1>1, <1>4, AnswerKeeps DEF Resolve, UnderWay
<1>5. QED
  BY <1>2, <1>3, <1>4 DEF Resolve

LEMMA LookKeeps == ASSUME IInv, NEW p \in Requests, Look(p) PROVE IInv'
<1>1. /\ req[p].at = "look" /\ req[p].claim \in Claims /\ Acceptable(req[p].claim)
      /\ req[p].user = None
  BY RequestTyped DEF Look, Founded
<1>2. CASE GoTo(p, "insert") /\ UNCHANGED Browser
  BY <1>1, <1>2, StageKeeps DEF Look, Stages
<1>3. CASE Answer(p)
  BY <1>1, <1>3, AnswerKeeps DEF Look, UnderWay
<1>4. ASSUME NEW u \in Users, HasEmail(u, req[p].claim.email), Saw(p, u, "insert")
      PROVE  IInv'
  BY <1>1, <1>4, SawKeeps DEF Look
<1>5. QED
  BY <1>2, <1>3, <1>4 DEF Look

LEMMA CollideKeeps == ASSUME IInv, NEW p \in Requests, Collide(p) PROVE IInv'
<1> DEFINE w == [Idle EXCEPT !.at = "raced", !.claim = req[p].claim]
<1>1. req[p].at = "insert" /\ req[p].claim \in Claims /\ Acceptable(req[p].claim)
  BY RequestTyped DEF Collide, Founded
<1>2. w \in Request /\ w.at = "raced" /\ w.claim = req[p].claim
  BY <1>1, ClaimShape DEF Stages
<1>3. Put(p, w) /\ UNCHANGED <<Tables, Browser, cut>>
  BY DEF Collide
<1> HIDE DEF w
<1>4. Founded(w, user, google)
  BY <1>1, <1>2 DEF Founded
<1>5. QED
  BY <1>1, <1>2, <1>3, <1>4, WorkKeeps DEF Tables, UnderWay

LEMMA RacedKeeps ==
  ASSUME IInv, NEW p \in Requests, RacedSub(p) \/ RacedUser(p) \/ Again(p)
  PROVE  IInv'
<1>1. /\ req[p].at \in {"raced", "racedUser", "again"}
      /\ req[p].claim \in Claims /\ Acceptable(req[p].claim)
      /\ UNCHANGED <<Tables, cut>>
  BY RequestTyped DEF RacedSub, RacedUser, Again, Founded
<1>2. CASE \E u \in Holder(req[p].claim.sub) : SignIn(p, u) /\ UNCHANGED Browser
  BY <1>1, <1>2, HolderKeeps
<1>3. CASE GoTo(p, "racedUser") /\ UNCHANGED Browser
  BY <1>1, <1>3, StageKeeps DEF Stages
<1>4. CASE Answer(p)
  BY <1>1, <1>4, AnswerKeeps DEF UnderWay
<1>5. ASSUME NEW u \in Users, HasEmail(u, req[p].claim.email), Saw(p, u, "racedLink")
      PROVE  IInv'
  BY <1>1, <1>5, SawKeeps
<1>6. QED
  BY <1>2, <1>3, <1>4, <1>5 DEF RacedSub, RacedUser, Again

LEMMA EndsKeep ==
  ASSUME IInv, NEW p \in Requests, Finish(p) \/ Abort(p)
  PROVE  IInv'
<1>1. /\ End(p) /\ cookie' \in {cookie, None} /\ UNCHANGED <<user, google>>
      /\ UnderWay(p) /\ cut \subseteq cut'
      /\ req[p].at = "confirm" /\ Exists(req[p].user) => req[p].user \in cut'
  BY DEF Finish, Abort, Answer, Tables, UnderWay
<1>2. QED
  BY <1>1, EndKeeps

-----------------------------------------------------------------------------
(* The steps that write.                                                     *)

(* The parts of the invariant other than LinkedIsVerified, after p's request wrote. *)
LEMMA WriteKeeps ==
  ASSUME IInv, TableStep, NEW p \in Requests, NEW w \in Request, Put(p, w),
         Founded(w, user', google'), UnderWay(p), w.at \notin {"google", "refused"},
         user' \in [Users -> Account], google' \subseteq Link, LinksInv',
         LinkedIsVerified', UNCHANGED Browser
  PROVE  IInv'
<1>1. /\ LocalsInv' /\ req' \in [Requests -> Request] /\ req'[p] = w
      /\ \A q \in Requests : q # p => req'[q] = req[q]
  BY LocalsKept
<1>2. CookieInv' /\ cookie' \in Requests \cup {None}
  BY <1>1, CookieKept
<1>3. QED
  BY <1>1, <1>2 DEF IInv, TypeOK

(* Unverified users of links stay accounted for, save p's. *)
LEMMA LinkedKept ==
  ASSUME IInv, NEW p \in Requests, NEW u \in Users, UNCHANGED cut,
         \A q \in Requests : q # p => req'[q] = req[q],
         req[p].at = "confirm" => req[p].user = u,
         \A v \in Users \ {u} : Linked(v)' => Linked(v) /\ user'[v] = user[v],
         user'[u].verified \/ (req'[p].at = "confirm" /\ req'[p].user = u)
  PROVE  LinkedIsVerified'
<1> SUFFICES ASSUME NEW v \in Users, Linked(v)', ~user'[v].verified
             PROVE  v \in cut \/ \E q \in Requests : req'[q].at = "confirm" /\ req'[q].user = v
  BY DEF LinkedIsVerified
<1>1. CASE v = u
  BY <1>1
<1>2. CASE v # u
  <2>1. v \in cut \/ \E q \in Requests : req[q].at = "confirm" /\ req[q].user = v
    BY <1>2 DEF IInv, LinkedIsVerified
  <2>2. QED
    BY <1>2, <2>1
<1>3. QED
  BY <1>1, <1>2

(* A subject's first link: Google proved the address that the user has. *)
LEMMA NewLinkShape ==
  ASSUME IInv, NEW claim \in Claims, Acceptable(claim), NEW u \in Users,
         google' = NewLink(u, claim), user' \in [Users -> Account],
         user'[u].email = claim.email,
         \A v \in Users \ {u} : user'[v] = user[v],
         Exists(u) => user'[u].email = user[u].email
  PROVE  /\ google' \subseteq Link /\ LinksInv'
         /\ google \subseteq google'
         /\ \E g \in google' : g.user = u /\ g.sub = claim.sub
         /\ \A v \in Users \ {u} : Linked(v)' => Linked(v) /\ user'[v] = user[v]
<1> DEFINE link == [user |-> u, sub |-> claim.sub, proof |-> claim.email]
<1>1. claim.email \in Emails /\ claim.sub \in Subs /\ claim.email # None /\ claim.proven
  BY ClaimsTyped DEF Claim, Acceptable
<1>2. google' = google \cup {link}
  BY <1>1 DEF NewLink
<1>3. link \in Link /\ link.user = u /\ link.sub = claim.sub /\ link.proof = claim.email
  BY <1>1 DEF Link
<1> HIDE DEF link
<1>4. google' \subseteq Link /\ google \subseteq google'
  BY <1>2, <1>3 DEF IInv, TypeOK
<1>5. \E g \in google' : g.user = u /\ g.sub = claim.sub
  BY <1>2, <1>3
<1>6. LinksInv'
  <2> SUFFICES ASSUME NEW g \in google' PROVE g.proof # None /\ user'[g.user].email = g.proof
    BY DEF LinksInv
  <2>1. CASE g = link
    BY <1>1, <1>3, <2>1
  <2>2. CASE g \in google
    <3>1. g.user \in Users /\ g.proof # None /\ user[g.user].email = g.proof
      BY <2>2 DEF IInv, TypeOK, Link, LinksInv
    <3>2. QED
      BY <3>1 DEF Exists
  <2>3. QED
    BY <1>2, <2>1, <2>2
<1>7. \A v \in Users \ {u} : Linked(v)' => Linked(v) /\ user'[v] = user[v]
  BY <1>2, <1>3 DEF Linked
<1>8. QED
  BY <1>4, <1>5, <1>6, <1>7

(* The sign-in of the user that was just linked. *)
LEMMA LinkingKeeps ==
  ASSUME IInv, NEW p \in Requests, NEW u \in Users, req[p].claim \in Claims,
         Acceptable(req[p].claim), req[p].at \notin {"idle", "confirm"}, SignIn(p, u),
         google' = NewLink(u, req[p].claim), user' \in [Users -> Account],
         user'[u].email = req[p].claim.email, user'[u].verified,
         \A v \in Users \ {u} : user'[v] = user[v],
         Exists(u) => user'[u].email = user[u].email, user[u] # Deleted,
         UNCHANGED Browser, UNCHANGED cut
  PROVE  IInv'
<1> DEFINE w == [Idle EXCEPT !.at = "signin", !.claim = req[p].claim, !.user = u]
<1>1. w \in Request /\ w.at = "signin" /\ w.claim = req[p].claim /\ w.user = u
  BY DEF Idle, Request, Stages
<1>2. Put(p, w)
  BY DEF SignIn
<1> HIDE DEF w
<1>3. /\ google' \subseteq Link /\ LinksInv' /\ google \subseteq google'
      /\ \E g \in google' : g.user = u /\ g.sub = req[p].claim.sub
      /\ \A v \in Users \ {u} : Linked(v)' => Linked(v) /\ user'[v] = user[v]
  BY NewLinkShape
<1>4. TableStep
  BY <1>3 DEF TableStep
<1>5. Founded(w, user', google')
  BY <1>1, <1>3 DEF Founded
<1>6. req'[p] = w /\ \A q \in Requests : q # p => req'[q] = req[q]
  BY <1>2 DEF Put, IInv, TypeOK
<1>7. LinkedIsVerified'
  BY <1>3, <1>6, LinkedKept
<1>8. QED
  BY <1>1, <1>2, <1>3, <1>4, <1>5, <1>7, WriteKeeps DEF UnderWay

LEMMA LinkUserKeeps == ASSUME IInv, NEW p \in Requests, LinkUser(p) PROVE IInv'
<1> DEFINE u == req[p].user
<1>1. /\ req[p].at = "insert" /\ u # None /\ Exists(u)
      /\ google' = NewLink(u, req[p].claim) /\ SignIn(p, u)
      /\ user' = [user EXCEPT ![u].verified = @ \/ req[p].unverified]
      /\ UNCHANGED Browser /\ UNCHANGED cut
  BY DEF LinkUser
<1>2. /\ req[p].claim \in Claims /\ Acceptable(req[p].claim) /\ u \in Users
      /\ user[u].email = req[p].claim.email
      /\ req[p].unverified \/ user[u].verified
      /\ user[u] # Deleted
  BY <1>1, RequestTyped DEF Founded, Exists, Deleted
<1>3. /\ user[u] \in Account /\ req[p].unverified \in BOOLEAN
      /\ user \in [Users -> Account]
  BY <1>2, RequestTyped DEF IInv, TypeOK, Request
<1>4. /\ user' \in [Users -> Account]
      /\ user'[u].email = user[u].email /\ user'[u].verified
      /\ \A v \in Users \ {u} : user'[v] = user[v]
  BY <1>1, <1>2, <1>3 DEF Account
<1> HIDE DEF u
<1>5. QED
  BY <1>1, <1>2, <1>4, LinkingKeeps

LEMMA CreateUserKeeps ==
  ASSUME IInv, NEW p \in Requests, NEW u \in Users, CreateUser(p, u)
  PROVE  IInv'
<1>1. /\ req[p].at = "insert" /\ user[u] = Unborn
      /\ google' = NewLink(u, req[p].claim) /\ SignIn(p, u)
      /\ user' = [user EXCEPT ![u] = [email |-> req[p].claim.email, verified |-> TRUE,
                                      password |-> FALSE]]
      /\ UNCHANGED Browser /\ UNCHANGED cut
  BY DEF CreateUser, NextId
<1>2. req[p].claim \in Claims /\ Acceptable(req[p].claim) /\ req[p].claim.email \in Emails
  BY <1>1, RequestTyped, ClaimsTyped DEF Founded, Claim, Acceptable
<1>3. /\ user' \in [Users -> Account]
      /\ user'[u].email = req[p].claim.email /\ user'[u].verified
      /\ \A v \in Users \ {u} : user'[v] = user[v]
  BY <1>1, <1>2 DEF Account, IInv, TypeOK
<1>4. ~Exists(u) /\ user[u] # Deleted
  BY <1>1 DEF Exists, Unborn, Deleted
<1>5. QED
  BY <1>1, <1>2, <1>3, <1>4, LinkingKeeps

LEMMA RacedLinkKeeps == ASSUME IInv, NEW p \in Requests, RacedLink(p) PROVE IInv'
<1> DEFINE u == req[p].user
<1>1. /\ req[p].at = "racedLink" /\ Exists(u) /\ UNCHANGED <<user, Browser, cut>>
      /\ UNCHANGED <<mailed, lost>>
  BY DEF RacedLink
<1>2. /\ req[p].claim \in Claims /\ Acceptable(req[p].claim) /\ u \in Users
      /\ user[u].email = req[p].claim.email
      /\ req[p].unverified \/ user[u].verified
      /\ user[u] # Deleted
  BY <1>1, RequestTyped DEF Founded, Exists, Deleted
<1>3. user \in [Users -> Account]
  BY DEF IInv, TypeOK
<1>4. CASE GoTo(p, "again") /\ UNCHANGED google
  BY <1>1, <1>2, <1>4, StageKeeps DEF Tables, Stages
<1>5. CASE google' = NewLink(u, req[p].claim) /\ ~req[p].unverified /\ SignIn(p, u)
  BY <1>1, <1>2, <1>3, <1>5, LinkingKeeps
<1>6. CASE google' = NewLink(u, req[p].claim) /\ GoTo(p, "confirm")
  <2> DEFINE w == [req[p] EXCEPT !.at = "confirm"]
  <2>1. w \in Request /\ w.at = "confirm" /\ w.claim = req[p].claim /\ w.user = u
    BY RequestTyped, StageShape DEF Stages
  <2>2. Put(p, w)
    BY <1>6 DEF GoTo
  <2> HIDE DEF w, u
  <2>3. /\ google' \subseteq Link /\ LinksInv' /\ google \subseteq google'
        /\ \E g \in google' : g.user = u /\ g.sub = req[p].claim.sub
        /\ \A v \in Users \ {u} : Linked(v)' => Linked(v) /\ user'[v] = user[v]
    BY <1>1, <1>2, <1>3, <1>6, NewLinkShape
  <2>4. TableStep
    BY <1>1, <2>3 DEF TableStep
  <2>5. Founded(w, user', google')
    BY <1>2, <2>1, <2>3 DEF Founded
  <2>6. req'[p] = w /\ \A q \in Requests : q # p => req'[q] = req[q]
    BY <2>2 DEF Put, IInv, TypeOK
  <2>7. LinkedIsVerified'
    BY <1>1, <1>2, <2>1, <2>3, <2>6, LinkedKept
  <2>8. QED
    BY <1>1, <1>3, <2>1, <2>2, <2>3, <2>4, <2>5, <2>7, WriteKeeps DEF UnderWay
<1>7. QED
  BY <1>4, <1>5, <1>6 DEF RacedLink

LEMMA ConfirmKeeps == ASSUME IInv, NEW p \in Requests, Confirm(p) PROVE IInv'
<1> DEFINE u == req[p].user
           w == [Idle EXCEPT !.at = "signin", !.claim = req[p].claim, !.user = u]
<1>1. /\ req[p].at = "confirm" /\ Exists(u)
      /\ user' = [user EXCEPT ![u].verified = TRUE]
      /\ UNCHANGED google /\ UNCHANGED Browser /\ UNCHANGED cut
      /\ Put(p, w)
  BY DEF Confirm, SignIn
<1>2. /\ req[p].claim \in Claims /\ u \in Users
      /\ user[u] = Deleted \/ \E g \in google : g.user = u /\ g.sub = req[p].claim.sub
  BY <1>1, RequestTyped DEF Founded
<1>3. w \in Request /\ w.at = "signin" /\ w.claim = req[p].claim /\ w.user = u
  BY <1>2 DEF Idle, Request, Stages
<1>4. user \in [Users -> Account] /\ user[u] \in Account /\ user[u] # Deleted
  BY <1>1, <1>2 DEF IInv, TypeOK, Exists, Deleted
<1>5. /\ user' \in [Users -> Account]
      /\ user'[u].email = user[u].email /\ user'[u].verified
      /\ \A v \in Users \ {u} : user'[v] = user[v]
  BY <1>1, <1>2, <1>4 DEF Account
<1> HIDE DEF w, u
<1>6. TableStep
  BY <1>1, <1>4, <1>5 DEF TableStep
<1>7. Founded(w, user', google')
  BY <1>1, <1>2, <1>3, <1>4 DEF Founded
<1>8. google' \subseteq Link /\ LinksInv'
  BY <1>1, <1>5 DEF IInv, TypeOK, Link, LinksInv
<1>9. req'[p] = w /\ \A q \in Requests : q # p => req'[q] = req[q]
  BY <1>1 DEF Put, IInv, TypeOK
<1>10. \A v \in Users \ {u} : Linked(v)' => Linked(v) /\ user'[v] = user[v]
  BY <1>1, <1>5 DEF Linked
<1>11. LinkedIsVerified'
  BY <1>1, <1>2, <1>5, <1>9, <1>10, LinkedKept DEF u
<1>12. QED
  BY <1>1, <1>3, <1>5, <1>6, <1>7, <1>8, <1>11, WriteKeeps DEF UnderWay

(* A step of no request. *)
LEMMA OutsideKeeps ==
  ASSUME IInv, TableStep, UNCHANGED req, UNCHANGED Browser,
         user' \in [Users -> Account], google' \subseteq Link, LinksInv', LinkedIsVerified'
  PROVE  IInv'
<1>1. LocalsInv'
  BY RequestTyped, FoundedKept DEF IInv, LocalsInv
<1>2. QED
  BY <1>1 DEF IInv, TypeOK, CookieInv, Browser, UnderWay, NeedsCookie

LEMMA RegisterKeeps ==
  ASSUME IInv, NEW u \in Users, NEW e \in Emails, Register(u, e)
  PROVE  IInv'
<1>1. /\ user[u] = Unborn /\ UNCHANGED <<google, req, cut>> /\ UNCHANGED Browser
      /\ user' = [user EXCEPT ![u] = [email |-> e, verified |-> FALSE, password |-> TRUE]]
  BY DEF Register, NextId
<1>2. ~Exists(u) /\ user[u] # Deleted
  BY <1>1 DEF Exists, Unborn, Deleted
<1>3. user' \in [Users -> Account] /\ \A v \in Users \ {u} : user'[v] = user[v]
  BY <1>1 DEF IInv, TypeOK, Account
<1>4. \A g \in google : g.user \in Users \ {u}
  BY <1>2 DEF IInv, TypeOK, Link, LinksInv, Exists
<1>5. TableStep
  BY <1>1, <1>2, <1>3 DEF TableStep
<1>6. google' \subseteq Link /\ LinksInv'
  BY <1>1, <1>3, <1>4 DEF IInv, TypeOK, LinksInv
<1>7. LinkedIsVerified'
  BY <1>1, <1>3, <1>4 DEF IInv, LinkedIsVerified, Linked
<1>8. QED
  BY <1>1, <1>3, <1>5, <1>6, <1>7, OutsideKeeps

LEMMA ResendKeeps == ASSUME IInv, NEW u \in Users, Resend(u) PROVE IInv'
<1>1. UNCHANGED <<user, google, req, cut>> /\ UNCHANGED Browser
  BY DEF Resend
<1>2. QED
  BY <1>1, NoTableStep, OutsideKeeps
    DEF IInv, TypeOK, LinksInv, LinkedIsVerified, Linked

LEMMA VerifyKeeps == ASSUME IInv, NEW u \in Users, Verify(u) PROVE IInv'
<1>1. /\ Exists(u) /\ UNCHANGED <<google, req, cut>> /\ UNCHANGED Browser
      /\ user' = [user EXCEPT ![u].verified = TRUE]
  BY DEF Verify
<1>2. user \in [Users -> Account] /\ user[u] \in Account /\ user[u] # Deleted
  BY <1>1 DEF IInv, TypeOK, Exists, Deleted
<1>3. /\ user' \in [Users -> Account]
      /\ user'[u].email = user[u].email /\ user'[u].verified
      /\ \A v \in Users \ {u} : user'[v] = user[v]
  BY <1>1, <1>2 DEF Account
<1>4. TableStep
  BY <1>1, <1>2, <1>3 DEF TableStep
<1>5. google' \subseteq Link /\ LinksInv'
  BY <1>1, <1>3 DEF IInv, TypeOK, Link, LinksInv
<1>6. LinkedIsVerified'
  BY <1>1, <1>3 DEF IInv, LinkedIsVerified, Linked
<1>7. QED
  BY <1>1, <1>3, <1>4, <1>5, <1>6, OutsideKeeps

LEMMA DeleteKeeps == ASSUME IInv, NEW u \in Users, Delete(u) PROVE IInv'
<1>1. /\ UNCHANGED req /\ UNCHANGED Browser
      /\ user' = [user EXCEPT ![u] = Deleted]
      /\ google' = {g \in google : g.user # u} /\ cut' = cut \ {u}
  BY DEF Delete
<1>2. user' \in [Users -> Account] /\ user'[u] = Deleted
  BY <1>1 DEF IInv, TypeOK, Account, Deleted
<1>3. \A v \in Users \ {u} : user'[v] = user[v]
  BY <1>1 DEF IInv, TypeOK
<1>4. TableStep
  BY <1>1, <1>2, <1>3 DEF TableStep, IInv, TypeOK
<1>5. google' \subseteq Link /\ LinksInv'
  BY <1>1, <1>3 DEF IInv, TypeOK, Link, LinksInv
<1>6. LinkedIsVerified'
  BY <1>1, <1>3 DEF IInv, LinkedIsVerified, Linked
<1>7. QED
  BY <1>1, <1>2, <1>4, <1>5, <1>6, OutsideKeeps

-----------------------------------------------------------------------------
LEMMA InvNext == IInv /\ [Next]_vars => IInv'
<1> SUFFICES ASSUME IInv, [Next]_vars PROVE IInv'
  OBVIOUS
<1>1. CASE UNCHANGED vars
  <2>1. UNCHANGED <<user, google, req, cut>> /\ UNCHANGED Browser
    BY <1>1 DEF vars, Browser
  <2>2. QED
    BY <2>1, NoTableStep, OutsideKeeps
      DEF IInv, TypeOK, LinksInv, LinkedIsVerified, Linked
<1>2. ASSUME NEW u \in Users, NEW e \in Emails, Register(u, e) PROVE IInv'
  BY <1>2, RegisterKeeps
<1>3. ASSUME NEW u \in Users, Resend(u) \/ Verify(u) \/ Delete(u) PROVE IInv'
  BY <1>3, ResendKeeps, VerifyKeeps, DeleteKeeps
<1>4. ASSUME NEW p \in Requests, Start(p) \/ Deny(p) PROVE IInv'
  BY <1>4, StartKeeps, DenyKeeps
<1>5. ASSUME NEW p \in Requests, Work(p) PROVE IInv'
  BY <1>5, RefuseKeeps, ResolveKeeps, LookKeeps, LinkUserKeeps, CollideKeeps, CreateUserKeeps,
     RacedKeeps, RacedLinkKeeps, ConfirmKeeps, EndsKeep DEF Work
<1>6. ASSUME NEW p \in Requests, NEW claim \in Claims, Callback(p, claim) PROVE IInv'
  BY <1>6, CallbackKeeps
<1>7. CASE Expire
  BY <1>7, ExpireKeeps
<1>8. QED
  BY <1>1, <1>2, <1>3, <1>4, <1>5, <1>6, <1>7 DEF Next

LEMMA Invariance == Spec => []IInv
BY InvInit, InvNext, PTL DEF Spec

(* A sign-in through Google ends as the user that holds the subject, or as one deleted *)
(* meanwhile, whichever of the three paths of the reconciliation it took.               *)
THEOREM HolderSignsIn == Spec => []SignsInTheHolder
<1>1. IInv => SignsInTheHolder
  BY DEF IInv, LocalsInv, Founded, SignsInTheHolder, Holder, Exists, Deleted
<1>2. QED
  BY <1>1, Invariance, PTL

(* No account is linked to a subject whose owner did not prove the account's address. *)
THEOREM OnlyProvenLinks == Spec => []LinksProven
<1>1. IInv => LinksProven
  BY DEF IInv, LinksInv, LinksProven
<1>2. QED
  BY <1>1, Invariance, PTL

(* Linking verifies the address, save for a request that is, or was cut off, between the *)
(* two statements of the reconciliation.                                                 *)
THEOREM LinkingVerifies == Spec => []LinkedIsVerified
<1>1. IInv => LinkedIsVerified
  BY DEF IInv
<1>2. QED
  BY <1>1, Invariance, PTL

(* A sign-in that is alone in its browser is not refused for its OAuth transaction while the *)
(* cookie lasts: what earlier sign-ins left behind, and answers that come late, do no harm.  *)
THEOREM RefusalHasCause == Spec => []RefusedOnlyIfOverlapped
<1>1. IInv => RefusedOnlyIfOverlapped
  BY DEF IInv, CookieInv, RefusedOnlyIfOverlapped
<1>2. QED
  BY <1>1, Invariance, PTL
=============================================================================
