---------------------------- MODULE UsersManager ----------------------------
(***************************************************************************)
(* The administrator's page of users and the summary beside it.  A role    *)
(* that was changed is put into the page shown without fetching it again;  *)
(* a deletion fetches the page, or the one before when its last row went.  *)
(* One variable, pendingId, says which row has a request in flight, and    *)
(* the dialog's isBusy is derived from it.  The page behind the dialog     *)
(* takes input: Tab leaves a dialog whose buttons are disabled.            *)
(*                                                                         *)
(* The row of the administrator at work offers nothing; users leave the    *)
(* table only here.                                                        *)
(***************************************************************************)
EXTENDS Naturals, FiniteSets

CONSTANTS
  Users,     \* user ids: the order of the list
  Self,      \* the administrator at work
  PageSize,  \* rows of a page
  MaxLoads,  \* bound: how often a page or the summary is fetched
  MaxSent    \* bound: changes in flight

\* Whoever instantiates the module assumes this of the constants.
UsersAreIds == Users \subseteq Nat \ {0}

VARIABLES
  table,      \* each user's role on the server, or "gone"
  view,       \* the screen shown: "users" or "summary"
  page,       \* the page asked for
  data,       \* the page shown, or None
  summary,    \* the counts shown, or None
  status,     \* "loading", "ready", "error"
  token,      \* the run of the effect whose answer counts
  loads,      \* requests for a page or a summary in flight
  pendingId,  \* the row whose controls are disabled, 0 for none
  target,     \* confirmUser, 0 for none
  sent,       \* role changes and deletions in flight
  behind,     \* history: the table changed and this screen will not hear of it
  shared,     \* history: a request was sent while another row's was in flight
  turned      \* history: the page was turned while a deletion that will turn it was in flight

vars == <<table, view, page, data, summary, status, token, loads, pendingId, target, sent,
          behind, shared, turned>>

Roles == {"user", "editor"}
None  == {}

\* The table as a page shows it, and as the summary does.
Present(rows) == {u \in Users : rows[u] # "gone"}
PageOf(rows, u) == (Cardinality({v \in Present(rows) : v < u}) \div PageSize) + 1
Pages(rows) == (Cardinality(Present(rows)) + PageSize - 1) \div PageSize
Listed(rows, p) ==
  [page  |-> p, pages |-> Pages(rows),
   rows  |-> {<<u, rows[u]>> : u \in {v \in Present(rows) : PageOf(rows, v) = p}}]
Counted(rows) == [r \in Roles |-> Cardinality({u \in Users : rows[u] = r})]

Init ==
  /\ table \in [Users -> Roles]
  /\ view = "users" /\ page = 1 /\ data = None /\ summary = None /\ status = "loading"
  /\ token = 1 /\ loads = {[token |-> 1, view |-> view, page |-> 1, seen |-> None]}
  /\ pendingId = 0 /\ target = 0 /\ sent = {} /\ behind = FALSE
  /\ shared = FALSE /\ turned = FALSE

\* The effect of the screen shown: it runs when the screen is mounted, when the page
\* changes and when the reload token changes, and cancels its previous run.
Fetch(v, p) ==
  /\ token < MaxLoads
  /\ token' = token + 1
  /\ loads' = loads \union {[token |-> token + 1, view |-> v, page |-> p, seen |-> None]}
  /\ status' = "loading"

Cancelled(l) == l.token # token

\* reload and goToPage: asking for the page already shown changes nothing but the status.
Reload == Fetch(view, page) /\ UNCHANGED page
GoToPage(p) ==
  /\ page' = p
  /\ IF p = page THEN status' = "loading" /\ UNCHANGED <<token, loads>> ELSE Fetch("users", p)

Read(l) ==
  /\ l.seen = None
  /\ loads' = (loads \ {l}) \union
       {[l EXCEPT !.seen = IF l.view = "users" THEN {Listed(table, l.page)} ELSE {Counted(table)}]}
  /\ behind' = (behind /\ Cancelled(l))
  /\ UNCHANGED <<table, view, page, data, summary, status, token, pendingId, target, sent,
                 shared, turned>>

OnPage(l) ==
  /\ l.seen # None
  /\ loads' = loads \ {l}
  /\ IF Cancelled(l) THEN UNCHANGED <<data, summary, status>>
     ELSE /\ status' = "ready"
          /\ data'    = IF l.view = "users" THEN l.seen ELSE data
          /\ summary' = IF l.view = "summary" THEN l.seen ELSE summary
  /\ UNCHANGED <<table, view, page, token, pendingId, target, sent, behind, shared, turned>>

OnLoadError(l) ==
  /\ loads' = loads \ {l}
  /\ status' = IF Cancelled(l) THEN status ELSE "error"
  /\ UNCHANGED <<table, view, page, data, summary, token, pendingId, target, sent, behind,
                 shared, turned>>

\* "Bandyti dar kartą" of the page of users, and of the summary.
RetryUsers ==
  /\ view = "users" /\ status = "error" /\ data = None
  /\ Reload
  /\ UNCHANGED <<table, view, data, summary, pendingId, target, sent, behind, shared, turned>>

RetrySummary ==
  /\ view = "summary" /\ status = "error" /\ summary = None
  /\ Reload
  /\ UNCHANGED <<table, view, data, summary, pendingId, target, sent, behind, shared, turned>>

\* "Atgal" and "Toliau"
Turn ==
  /\ view = "users" /\ status # "loading"
  /\ \E d \in data : \E p \in {page - 1, page + 1} : p \in 1..d.pages /\ GoToPage(p)
  /\ turned' = (turned \/ \E s \in sent : s.here /\ s.op = "delete" /\ s.back)
  /\ UNCHANGED <<table, view, data, summary, pendingId, target, sent, behind, shared>>

\* The controls of a row: those of the row with a request in flight are disabled.
RowOffers(u) ==
  /\ view = "users" /\ pendingId # u /\ u # Self
  /\ \E d \in data : \E x \in d.rows : x[1] = u

\* What a handler keeps for the time after its "await" is what it saw when it started.
LastOfPage == page > 1 /\ \A d \in data : Cardinality(d.rows) = 1
Send(op, u, r) ==
  /\ Cardinality(sent) < MaxSent
  /\ sent' = sent \union {[op |-> op, user |-> u, role |-> r, at |-> "sent", here |-> TRUE,
                           back |-> LastOfPage, page |-> page]}
  /\ pendingId' = u
  /\ shared' = (shared \/ \E s \in sent : s.here /\ s.user # u)
  /\ UNCHANGED turned

\* onSaveRole: the role chosen differs from the one shown.
SaveRole(u, r) ==
  /\ RowOffers(u)
  /\ \A d \in data : <<u, r>> \notin d.rows
  /\ Send("role", u, r)
  /\ UNCHANGED <<table, view, page, data, summary, status, token, loads, target, behind>>

AskDelete(u) ==
  /\ RowOffers(u)
  /\ target' = u
  /\ UNCHANGED <<table, view, page, data, summary, status, token, loads, pendingId, sent, behind,
                 shared, turned>>

\* A slip of the pen: the dialog is never busy.
DialogListens_NeverBusy == target # 0

\* The dialog is busy while pendingId is its user.
DialogListens == target # 0 /\ pendingId # target

Dismiss ==
  /\ DialogListens
  /\ target' = 0
  /\ UNCHANGED <<table, view, page, data, summary, status, token, loads, pendingId, sent, behind,
                 shared, turned>>

Confirm ==
  /\ DialogListens
  /\ Send("delete", target, "gone")
  /\ UNCHANGED <<table, view, page, data, summary, status, token, loads, target, behind>>

\* The server's part; a user who is gone is not found.
CarryOut(s) ==
  /\ s.at = "sent" /\ table[s.user] # "gone"
  /\ table' = [table EXCEPT ![s.user] = s.role]
  /\ sent' = (sent \ {s}) \union {t \in {[s EXCEPT !.at = "done"]} : s.here}
  /\ behind' = (behind \/ ~s.here)
  /\ UNCHANGED <<view, page, data, summary, status, token, loads, pendingId, target, shared,
                 turned>>

\* The request is refused, or it or its answer is lost: an error is shown, the dialog
\* stays, and the row is free again.
GoWrong(s) ==
  /\ sent' = sent \ {s}
  /\ behind' = (behind \/ s.at = "done")
  /\ pendingId' = IF s.here THEN 0 ELSE pendingId
  /\ UNCHANGED <<table, view, page, data, summary, status, token, loads, target, shared, turned>>

\* The page shown with the role of request s put into it.
Patched(pages, s) ==
  {[page |-> d.page, pages |-> d.pages,
    rows |-> {IF x[1] = s.user THEN <<s.user, s.role>> ELSE x : x \in d.rows}] : d \in pages}

\* The role is put into the page shown, whatever was done to the user since; a page read
\* earlier and still on its way will put the old one back.
OnRoleSaved(s) ==
  /\ s.op = "role" /\ s.at = "done"
  /\ data' = Patched(data, s)
  /\ behind' = (behind \/ table[s.user] \notin {s.role, "gone"}
                       \/ \E l \in loads : ~Cancelled(l) /\ l.seen # None)
  /\ sent' = sent \ {s}
  /\ pendingId' = 0
  /\ UNCHANGED <<table, view, page, summary, status, token, loads, target, shared, turned>>

OnDeleted(s) ==
  /\ s.op = "delete" /\ s.at = "done"
  /\ IF s.back THEN GoToPage(s.page - 1) ELSE Reload
  /\ sent' = sent \ {s}
  /\ pendingId' = 0 /\ target' = 0
  /\ UNCHANGED <<table, view, data, summary, behind, shared, turned>>

\* The other screen is mounted anew; of what was sent from the one that is gone, only
\* what the server still has to carry out matters.
Visit ==
  /\ view' \in {"users", "summary"} \ {view}
  /\ Fetch(view', 1)
  /\ page' = 1 /\ data' = None /\ summary' = None /\ pendingId' = 0 /\ target' = 0
  /\ sent' = {[s EXCEPT !.here = FALSE] : s \in {t \in sent : t.at = "sent"}}
  /\ UNCHANGED <<table, behind, shared, turned>>

OnLoad(l)  == Read(l) \/ OnPage(l) \/ OnLoadError(l)
OnReply(s) == CarryOut(s) \/ GoWrong(s) \/ OnRoleSaved(s) \/ OnDeleted(s)

Next ==
  \/ \E l \in loads : OnLoad(l)
  \/ \E s \in sent : OnReply(s)
  \/ \E u \in Users : AskDelete(u) \/ \E r \in Roles : SaveRole(u, r)
  \/ RetryUsers \/ RetrySummary \/ Turn \/ Dismiss \/ Confirm \/ Visit

-----------------------------------------------------------------------------
Quiet == (\A l \in loads : Cancelled(l)) /\ sent = {}

\* Once every request is answered the screen waits for nothing, and what it calls ready is
\* what the server has, unless the answer to a change was lost, came to a screen no longer
\* there, was overtaken by a page read before it or by a later change of the same user, two
\* rows' requests were in flight at once, or the page was turned while a deletion that turns
\* it was in flight.
ScreenCatchesUp ==
  Quiet /\ ~shared /\ ~turned =>
    /\ status # "loading"
    /\ status = "ready" /\ ~behind =>
         IF view = "users" THEN data = {Listed(table, page)} ELSE summary = {Counted(table)}

\* While a deletion of the screen shown is in flight no second one is sent, as long as no
\* other row's request is in flight with it.
DeletesTakeTurns ==
  ~shared => \A s, t \in sent : s.op = "delete" /\ t.op = "delete" /\ s.here /\ t.here => s = t
=============================================================================
