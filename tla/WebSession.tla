----------------------------- MODULE WebSession -----------------------------
(***************************************************************************)
(* The web client's session state: one AuthProvider per tab, the tabs of a *)
(* browser sharing its refresh cookie, and the pages that read the state.  *)
(* The server side is SessionLedger, which AuthSession is shown to         *)
(* implement.  A request carries the cookie the browser has when it is     *)
(* sent, is served in any order, and its Set-Cookie applies with the step  *)
(* in which the tab handles its answer.                                    *)
(***************************************************************************)
EXTENDS Naturals

CONSTANTS
  Tabs,      \* tabs of one browser
  Callers,   \* those whose pages make authenticated requests (the administration screens)
  Calls,     \* the requests such a page makes at the same time
  Users,     \* the accounts that sign in
  Sessions,  \* auth_sessions.id, numbered: bounds their number
  Tokens,    \* refresh tokens, numbered: bounds their number
  None,      \* absent
  MaxLost,   \* bounds the requests that fail on the way or in the API
  MaxEvents  \* bounds the reloads, links followed, Google sign-ins, deletions and ends from outside

ASSUME NoneIsAbsent == None \notin Tabs \cup Users \cup Sessions \cup Tokens

VARIABLES
  tab,      \* what each tab holds
  net,      \* requests on their way, or their answers
  jar,      \* the browser's refresh cookie
  deleted,  \* users that no longer exist
  owner, current, spent,  \* the sessions on the server
  lost, events            \* counters of the two bounds

server == <<owner, current, spent>>
vars   == <<tab, net, jar, deleted, owner, current, spent, lost, events>>

Server == INSTANCE SessionLedger

Pages   == {"home", "login", "oauth", "own"}
Kinds   == {"refresh", "login", "logout", "me", "call"}
Statuses == {"unknown", "authenticated", "unauthenticated", "error"}
Tab     == [status : Statuses, user : Users \cup {None}, token : Users \cup {None},
            boot : {"no", "refresh", "me"},
            calls : [Calls -> {"no", "run", "wait", "again"}], page : Pages, leaves : BOOLEAN]
Request == [tab : Tabs \cup {None}, kind : Kinds, by : Calls \cup {"boot", "user"},
            carries : Tokens \cup {None}, user : Users \cup {None},
            answer : {"none", "ok", "denied", "error"}, sets : Tokens \cup {None},
            crossed : BOOLEAN]

\* Every variable has its type; a tab that is signed in knows its user.
TypeOK ==
  /\ tab \in [Tabs -> Tab]
  /\ net \subseteq Request
  /\ jar \in Tokens \cup {None} /\ deleted \subseteq Users
  /\ \A t \in Tabs :
       tab[t].status = "authenticated" => tab[t].user # None

\* AuthProvider's first render, on a page just loaded.
Loaded(page) == [status |-> "unknown", user |-> None, token |-> None,
                 boot |-> "refresh", calls |-> [c \in Calls |-> "no"], page |-> page, leaves |-> FALSE]

Clear_NotStatus(x) == [x EXCEPT !.user = None, !.token = None]

\* clear
Clear(x) == [x EXCEPT !.status = "unauthenticated", !.user = None, !.token = None]

-----------------------------------------------------------------------------
(* Requests.  crossed is history: the request met one that its own tab does  *)
(* not line up with it: of another tab or an earlier page, a sign-in or      *)
(* sign-out, or a refresh for a call while bootstrap awaits fetchMe.         *)

Crosses(a, b) ==
  /\ {a.kind, b.kind} \cap {"call"} = {}
  /\ \/ a.tab # b.tab
     \/ {a.kind, b.kind} \cap {"login", "logout"} # {}
     \/ {a.kind, b.kind} = {"me", "refresh"}

\* apiRequest: m leaves.
Send(msgs, m) ==
  {[a EXCEPT !.crossed = @ \/ Crosses(a, m)] : a \in msgs} \cup
  {[m EXCEPT !.crossed = @ \/ \E a \in msgs : Crosses(a, m)]}

CrossAll(msgs) == {[a EXCEPT !.crossed = TRUE] : a \in msgs}

\* A request that carries the cookie, and one that carries an access token.
Cookie(t, kind, by) ==
  [tab |-> t, kind |-> kind, by |-> by, carries |-> jar, user |-> None,
   answer |-> "none", sets |-> None, crossed |-> FALSE]
Bearer(t, kind, by, user) == [Cookie(t, kind, by) EXCEPT !.carries = None, !.user = user]

Refreshing_NotShared(msgs, t, by) ==
  \E m \in msgs : m.tab = t /\ m.kind = "refresh" /\ m.by = by

\* refreshInFlight: one promise for all callers of the tab.
Refreshing(msgs, t, by) == \E m \in msgs : m.tab = t /\ m.kind = "refresh"

\* refreshAccessToken: joins the refresh under way, or starts one.
WithRefresh(msgs, t, by) ==
  IF Refreshing(msgs, t, by) THEN msgs ELSE Send(msgs, Cookie(t, "refresh", by))

\* The page in t is gone: answers to it are dropped, their cookies with them, but what the
\* API has not served yet is still on its way (only what can change something is kept).
Orphaned(msgs, t) ==
  {m \in msgs : m.tab # t} \cup
  {[m EXCEPT !.tab = None, !.by = "user", !.crossed = TRUE] :
     m \in {n \in msgs : n.tab = t /\ n.answer = "none" /\ n.kind \notin {"me", "call"}}}

Init ==
  /\ tab = [t \in Tabs |-> Loaded(IF t \in Callers THEN "own" ELSE "login")]
  /\ jar = None /\ deleted = {} /\ lost = 0 /\ events = 0
  /\ Server!Init
  /\ net = {[Cookie(t, "refresh", "boot") EXCEPT !.crossed = TRUE] : t \in Tabs}

-----------------------------------------------------------------------------
(* What the tab's pages start.                                               *)

\* One of the events the instance bounds.
Counted == events < MaxEvents /\ events' = events + 1

\* What the visitor sees of the page: AccountClient and AdminArea, LoginForm inside
\* RedirectIfAuthenticated, a public page.
Shows(t) ==
  CASE tab[t].page = "home" -> "content"
    [] tab[t].page = "own" /\ tab[t].status = "authenticated" -> "content"
    [] tab[t].page = "own" /\ tab[t].status = "error" -> "error"
    [] tab[t].page = "own" /\ tab[t].status \in {"unknown", "unauthenticated"} -> "loading"
    [] tab[t].page \in {"login", "oauth"}
         /\ tab[t].status \in {"unauthenticated", "error"} -> "form"
    [] tab[t].page \in {"login", "oauth"}
         /\ tab[t].status \in {"unknown", "authenticated"} -> "loading"

\* SiteHeader's right-hand action and drawer.
HeaderOffers(t) ==
  CASE tab[t].status = "authenticated" -> {"logout"}
    [] tab[t].status = "unauthenticated" -> {"login"}
    [] OTHER -> {}

\* bootstrap, unless one is under way.
Bootstrap(t) ==
  /\ tab[t].boot = "no"
  /\ tab' = [tab EXCEPT ![t].status = "unknown", ![t].boot = "refresh"]
  /\ net' = WithRefresh(net, t, "boot")
  /\ UNCHANGED <<jar, deleted, server, lost, events>>

\* onRetry of AccountClient and AdminArea.
Retry(t) == Shows(t) = "error" /\ Bootstrap(t)

\* LoginForm's effect on ?oauth=success: bootstrap, then leave.
OAuthEffect(t) ==
  /\ tab[t].page = "oauth" /\ Shows(t) = "form"
  /\ tab[t].boot = "no"
  /\ tab' = [tab EXCEPT ![t].status = "unknown", ![t].boot = "refresh", ![t].leaves = TRUE]
  /\ net' = WithRefresh(net, t, "boot")
  /\ UNCHANGED <<jar, deleted, server, lost, events>>

\* LoginForm's onSubmit; the button is disabled while a submission is under way.
Login(t) ==
  /\ tab[t].page = "login" /\ Shows(t) = "form"
  /\ ~\E m \in net : m.tab = t /\ m.kind = "login"
  /\ \E u \in Users : net' = Send(net, [Cookie(t, "login", "user") EXCEPT !.user = u])
  /\ UNCHANGED <<tab, jar, deleted, server, lost, events>>

\* logout, from the header, its drawer or the account page.
Logout(t) ==
  /\ "logout" \in HeaderOffers(t)
  /\ ~\E m \in net : m.tab = t /\ m.kind = "logout"
  /\ net' = Send(net, Cookie(t, "logout", "user"))
  /\ UNCHANGED <<tab, jar, deleted, server, lost, events>>

\* authedRequest: the first attempt.
Call(t, c) ==
  /\ t \in Callers /\ tab[t].page = "own" /\ Shows(t) = "content"
  /\ tab[t].calls[c] = "no"
  /\ tab' = [tab EXCEPT ![t].calls[c] = "run"]
  /\ net' = Send(net, Bearer(t, "call", c, tab[t].token))
  /\ UNCHANGED <<jar, deleted, server, lost, events>>

\* The redirect effects: guests to the login form, signed-in users away from it.
MayRedirect(t) ==
  /\ tab[t].status = IF tab[t].page = "own" THEN "unauthenticated" ELSE "authenticated"
  /\ tab[t].page # "home"

Redirect(t) ==
  LET to == IF tab[t].page = "own" THEN "login" ELSE "own" IN
  /\ MayRedirect(t)
  /\ tab' = [tab EXCEPT ![t].page = to]
  /\ UNCHANGED <<net, jar, deleted, server, lost, events>>

\* The visitor follows a link; the provider and its promises stay.
Navigate(t, page) ==
  /\ page \in {"home", "own"} \/ (page = "login" /\ "login" \in HeaderOffers(t))
  /\ page # tab[t].page
  /\ Counted
  /\ tab' = [tab EXCEPT ![t].page = page]
  /\ UNCHANGED <<net, jar, deleted, server, lost>>

\* The visitor reloads the tab: the mount effect bootstraps.
Reload(t) ==
  /\ Counted
  /\ tab' = [tab EXCEPT ![t] = Loaded(tab[t].page)]
  /\ net' = Send(Orphaned(net, t), Cookie(t, "refresh", "boot"))
  /\ UNCHANGED <<jar, deleted, server, lost>>

-----------------------------------------------------------------------------
(* The API.                                                                  *)

Unused(S, used) == {x \in S : x \notin used}
UsedTokens      == spent \cup {current[s] : s \in Sessions}
UsedSessions    == {s \in Sessions : owner[s] # None}
CanIssue == Unused(Tokens, UsedTokens) # {} /\ Unused(Sessions, UsedSessions) # {}

\* Ids are taken in order (the instance has too few to tell them apart otherwise).
InOrder ==
  /\ \A s, x \in Sessions : x < s /\ owner'[s] # None => owner'[x] # None
  /\ \A t, x \in Tokens :
       x < t /\ t \in spent' \cup {current'[s] : s \in Sessions}
         => x \in spent' \cup {current'[s] : s \in Sessions}

\* The token that is current now and was not before.
Issued == CHOOSE t \in Tokens :
  /\ \E s \in Sessions : current'[s] = t
  /\ \A s \in Sessions : current[s] # t

JarLive == jar # None /\ \E s \in Sessions : current[s] = jar

\* m is answered, if a page is still there to take the answer.
Answered(m, answer, sets, user) ==
  (net \ {m}) \cup
  {n \in {[m EXCEPT !.answer = answer, !.sets = sets, !.user = user]} : n.tab # None}

\* login: one session, ending the user's others; 401 for a user that is gone.
ServeLogin(m) ==
  \/ /\ m.user \notin deleted /\ CanIssue
     /\ Server!Open(m.user, Server!Live(m.user)) /\ InOrder
     /\ net' = Answered(m, "ok", Issued, m.user)
  \/ /\ m.user \in deleted
     /\ net' = Answered(m, "denied", None, None)
     /\ UNCHANGED server

\* refresh: the cookie's session rotates its token; 401 without one.
ServeRefresh(m) ==
  \/ /\ CanIssue
     /\ \E s \in Sessions :
          /\ current[s] = m.carries /\ Server!Redeem(s) /\ InOrder
          /\ net' = Answered(m, "ok", Issued, owner[s])
  \/ /\ ~\E s \in Sessions : current[s] = m.carries /\ m.carries # None
     /\ net' = Answered(m, "denied", None, None)
     /\ UNCHANGED server

\* logout: the cookie's session, if any, is closed, and the cookie cleared.
ServeLogout(m) ==
  /\ Server!Close({s \in Sessions : m.carries # None /\ current[s] = m.carries})
  /\ net' = Answered(m, "ok", None, None)

\* AccessTokenGuard and me, which needs the user.  They change nothing, so they are served
\* as they are answered.
MeAnswer(m) ==
  IF m.answer = "error" THEN "error" ELSE IF m.user \in deleted THEN "denied" ELSE "ok"

Serve(t, kind) ==
  /\ \E m \in net :
       /\ m.tab = t /\ m.kind = kind /\ m.answer = "none"
       /\ \/ kind = "login" /\ ServeLogin(m)
          \/ kind = "refresh" /\ ServeRefresh(m)
          \/ kind = "logout" /\ ServeLogout(m)
  /\ UNCHANGED <<tab, jar, deleted, lost, events>>

\* The request or its answer is lost, or the API fails (it does, too, once the instance has
\* no ids left to issue).  To the tab, a call that fails is one that succeeds.
Fail(t, kind) ==
  /\ \E m \in net :
       /\ m.tab = t /\ m.kind = kind /\ kind # "call" /\ m.answer # "error"
       /\ \/ lost < MaxLost /\ lost' = lost + 1
          \/ m.answer = "none" /\ ~CanIssue /\ lost' = lost
       /\ net' = Answered(m, "error", None, None)
  /\ UNCHANGED <<tab, jar, deleted, server, events>>

\* Google sends the visitor back: a session, its cookie, and a fresh page.
GoogleReturn(t, u) ==
  /\ tab[t].page = "login" /\ Shows(t) = "form"
  /\ Counted /\ CanIssue /\ u \notin deleted
  /\ Server!Open(u, Server!Live(u)) /\ InOrder
  /\ jar' = Issued
  /\ tab' = [tab EXCEPT ![t] = Loaded("oauth")]
  /\ net' = LET back == [Cookie(t, "refresh", "boot") EXCEPT !.carries = jar'] IN
            Send(CrossAll(Orphaned(net, t)), back)
  /\ UNCHANGED <<deleted, lost>>

\* Another device signs the user in, or a password reset ends the sessions.
EndElsewhere(u) ==
  /\ Counted /\ Server!Live(u) # {}
  /\ Server!Close(Server!Live(u))
  /\ net' = CrossAll(net)
  /\ UNCHANGED <<tab, jar, deleted, lost>>

\* An administrator deletes the user; the sessions cascade.
Delete(u) ==
  /\ Counted /\ u \notin deleted
  /\ deleted' = deleted \cup {u}
  /\ Server!Close(Server!Live(u))
  /\ net' = CrossAll(net)
  /\ UNCHANGED <<tab, jar, lost>>

-----------------------------------------------------------------------------
(* The tab handles an answer.  Whoever awaits it goes on in the same step.   *)

\* bootstrap is over; the OAuth effect leaves for returnTo.
Booted(x) == [x EXCEPT !.boot = "no", !.leaves = FALSE,
                       !.page = IF x.leaves THEN "own" ELSE @]

\* The calls of x that wait for the refresh go on as next.
Released(x, next) ==
  [x EXCEPT !.calls = [c \in Calls |-> IF @[c] = "wait" THEN next ELSE @[c]]]

\* refreshAccessToken rejects: bootstrap reports a recoverable error, a call gives up.
RefreshFailed(x) ==
  LET y == Released(x, "no") IN
  IF x.boot = "refresh" THEN Booted([y EXCEPT !.status = "error"]) ELSE y

\* refreshAccessToken resolves to null: cleared, bootstrap returns, a call rethrows its 401.
RefreshDenied(x) ==
  LET y == Clear(Released(x, "no")) IN IF x.boot = "refresh" THEN Booted(y) ELSE y

\* refreshAccessToken resolves: bootstrap goes on to fetchMe, a call is retried once.
RefreshGranted(x, u) ==
  [Released(x, "again") EXCEPT !.token = u,
                               !.boot = IF @ = "refresh" THEN "me" ELSE @]

\* The requests those two then send.  fetchMe is part of the bootstrap the refresh began.
Resumed(x, t, u, crossed, msgs) ==
  LET me    == [Bearer(t, "me", "boot", u) EXCEPT !.crossed = crossed]
      sent  == IF x.boot = "refresh" THEN Send(msgs, me) ELSE msgs IN
  sent \cup {Bearer(t, "call", c, u) : c \in {d \in Calls : x.calls[d] = "wait"}}

OnRefresh(t, m) ==
  LET x == tab[t] IN
  /\ jar' = IF m.answer = "ok" THEN m.sets ELSE jar
  /\ tab' = [tab EXCEPT ![t] = CASE m.answer = "ok"     -> RefreshGranted(x, m.user)
                                 [] m.answer = "denied" -> RefreshDenied(x)
                                 [] m.answer = "error"  -> RefreshFailed(x)]
  /\ net' = IF m.answer = "ok" THEN Resumed(x, t, m.user, m.crossed, net \ {m})
                               ELSE net \ {m}

OnMe_NoError(t, m) ==
  /\ tab' = [tab EXCEPT ![t] =
       CASE MeAnswer(m) = "ok" ->
              Booted([tab[t] EXCEPT !.user = m.user, !.status = "authenticated"])
         [] MeAnswer(m) = "denied" -> Booted(Clear(tab[t]))
         [] MeAnswer(m) = "error"  -> Booted(tab[t])]
  /\ net' = net \ {m}
  /\ UNCHANGED jar

\* bootstrap after fetchMe.
OnMe(t, m) ==
  /\ tab' = [tab EXCEPT ![t] =
       CASE MeAnswer(m) = "ok" ->
              Booted([tab[t] EXCEPT !.user = m.user, !.status = "authenticated"])
         [] MeAnswer(m) = "denied" -> Booted(Clear(tab[t]))
         [] MeAnswer(m) = "error"  -> Booted([tab[t] EXCEPT !.status = "error"])]
  /\ net' = net \ {m}
  /\ UNCHANGED jar

\* login; the form then leaves for returnTo.  On an error it stays.
OnLogin(t, m) ==
  /\ jar' = IF m.answer = "ok" THEN m.sets ELSE jar
  /\ tab' = IF m.answer # "ok" THEN tab
            ELSE [tab EXCEPT ![t].token = m.user, ![t].user = m.user,
                             ![t].status = "authenticated", ![t].page = "own"]
  /\ net' = net \ {m}

\* logout, whatever the answer; then the home page, unless the redirect effect of the page
\* it was called from comes second.
OnLogout(t, m) ==
  /\ jar' = IF m.answer = "ok" THEN None ELSE jar
  /\ \E page \in IF tab[t].page = "own" THEN {"home", "login"} ELSE {"home"} :
       tab' = [tab EXCEPT ![t] = [Clear(tab[t]) EXCEPT !.page = page]]
  /\ net' = net \ {m}

\* authedRequest: a first attempt may get a 401, its access token having expired (15
\* minutes), and asks for a new one; the retry has a fresh one.
OnCall(t, m) ==
  \E asks \in IF tab[t].calls[m.by] = "run" THEN BOOLEAN ELSE {FALSE} :
    /\ tab' = [tab EXCEPT ![t].calls[m.by] = IF asks THEN "wait" ELSE "no"]
    /\ net' = IF asks THEN WithRefresh(net \ {m}, t, m.by) ELSE net \ {m}
    /\ UNCHANGED jar

Receive(t, kind) ==
  /\ \E m \in net :
       /\ m.tab = t /\ m.kind = kind /\ (m.answer = "none" => kind \in {"me", "call"})
       /\ \/ kind = "refresh" /\ OnRefresh(t, m)
          \/ kind = "me" /\ OnMe(t, m)
          \/ kind = "login" /\ OnLogin(t, m)
          \/ kind = "logout" /\ OnLogout(t, m)
          \/ kind = "call" /\ OnCall(t, m)
  /\ UNCHANGED <<deleted, server, lost, events>>

Next ==
  \/ \E t \in Tabs : Retry(t)
  \/ \E t \in Tabs : OAuthEffect(t)
  \/ \E t \in Tabs : Login(t)
  \/ \E t \in Tabs : Logout(t)
  \/ \E t \in Tabs, c \in Calls : Call(t, c)
  \/ \E t \in Tabs : Redirect(t)
  \/ \E t \in Tabs, page \in Pages : Navigate(t, page)
  \/ \E t \in Tabs : Reload(t)
  \/ \E t \in Tabs, u \in Users : GoogleReturn(t, u)
  \/ \E u \in Users : EndElsewhere(u)
  \/ \E u \in Users : Delete(u)
  \/ \E t \in Tabs \cup {None}, kind \in Kinds : Serve(t, kind)
  \/ \E t \in Tabs \cup {None}, kind \in Kinds : Fail(t, kind)
  \/ \E t \in Tabs, kind \in Kinds : Receive(t, kind)

Spec == Init /\ [][Next]_vars

-----------------------------------------------------------------------------
(* Properties.                                                               *)

\* The request whose answer tab t handles in this step.
Handled(t) ==
  {m \in net : m.tab = t /\ \A n \in net' : [n EXCEPT !.crossed = m.crossed] # m}

\* Within a tab, requests are lined up so that it is never wrong about the session: it turns
\* to signed out with a good cookie in the browser, or to signed in without one, only when
\* the answer it acts on crossed a request of another tab or page, a sign-in or sign-out, a
\* refresh beside a fetchMe, or the end of the session from outside; or when its logout
\* request failed.
WrongOnlyIfCrossed ==
  [][\A t \in Tabs :
       LET turnsTo(status) == tab[t].status # status /\ tab'[t].status = status IN
       (turnsTo("unauthenticated") /\ JarLive') \/ (turnsTo("authenticated") /\ ~JarLive')
         => \E m \in Handled(t) : m.crossed \/ (m.kind = "logout" /\ m.answer = "error")]_vars

\* No tab is left on a placeholder ("Kraunama", "Nukreipiama"), and nothing in it waits for
\* an answer that is not under way, whatever requests fail, pages go, and sessions end.
NeverStranded ==
  \A t \in Tabs :
    /\ tab[t].boot # "no" => \E m \in net : m.tab = t /\ m.kind = tab[t].boot
    /\ \A c \in Calls :
         /\ tab[t].calls[c] = "wait" => \E m \in net : m.tab = t /\ m.kind = "refresh"
         /\ tab[t].calls[c] \in {"run", "again"} => \E m \in net : m.tab = t /\ m.by = c
    /\ Shows(t) = "loading" => tab[t].boot # "no" \/ MayRedirect(t)
=============================================================================
