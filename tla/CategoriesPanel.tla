--------------------------- MODULE CategoriesPanel ---------------------------
(***************************************************************************)
(* The administrator's category screen.  Unlike the products, the list of  *)
(* categories belongs to the page (useScopedCategories), not to the panel: *)
(* a change of scope mounts the panel anew but leaves the old list on      *)
(* screen until the new scope's list arrives, and a panel that is gone can *)
(* still have the list fetched.                                            *)
(*                                                                         *)
(* As in ProductsPanel, the page behind a dialog takes input, and a row is *)
(* known by the opening of the form it was last saved in, 1 at the start   *)
(* and 0 when it is not there.                                             *)
(***************************************************************************)
EXTENDS Naturals

CONSTANTS
  Categories,   \* category ids, per scope
  MaxOpenings,  \* bound: how often a form is opened, plus 1
  MaxLoads      \* bound: how often the list is fetched

\* Whoever instantiates the module assumes this of the constants.
CategoriesAreIds == Categories \subseteq Nat \ {0}

VARIABLES
  table,     \* the categories of each scope, on the server
  scope,     \* the tab shown
  list,      \* the page's list: the rows and the scope they are of
  status,    \* "loading", "ready", "error"
  token,     \* the run of the list effect whose answer counts
  loads,     \* list requests in flight
  form,      \* the category the open form is about (0 a new one) and its opening, or Closed
  openings,  \* how many openings have been numbered
  target,    \* confirmTarget: the category the dialog asks about, 0 for none
  sent,      \* saves and deletes in flight
  behind     \* history: something was stored whose answer the page did not get

vars == <<table, scope, list, status, token, loads, form, openings, target, sent, behind>>

Scopes == {"CATALOG", "SHOP"}
Gone   == 0
Closed == [category |-> 0, opening |-> 0]

Init ==
  /\ table \in [Scopes -> [Categories -> {Gone, 1}]]
  /\ scope = "CATALOG" /\ status = "loading"
  /\ list = [of |-> scope, rows |-> [c \in Categories |-> Gone]]
  /\ token = 1 /\ loads = {[token |-> 1, of |-> scope, seen |-> {}]}
  /\ form = Closed /\ openings = 1 /\ target = 0 /\ sent = {} /\ behind = FALSE

Busy(op) == \E s \in sent : s.op = op /\ s.here

\* The effect of the hook: it runs anew when the scope or the reload token changes.
Fetch(sc) ==
  /\ token < MaxLoads
  /\ token' = token + 1
  /\ loads' = loads \union {[token |-> token + 1, of |-> sc, seen |-> {}]}

\* A slip of the pen: the effect does not cancel its previous run.
Cancelled_Never(l) == FALSE

Cancelled(l) == l.token # token

ReadList(l) ==
  /\ l.seen = {}
  /\ loads' = (loads \ {l}) \union {[l EXCEPT !.seen = {table[l.of]}]}
  /\ behind' = (behind /\ Cancelled(l))
  /\ UNCHANGED <<table, scope, list, status, token, form, openings, target, sent>>

OnList(l) ==
  /\ l.seen # {}
  /\ loads' = loads \ {l}
  /\ IF Cancelled(l)
     THEN UNCHANGED <<list, status>>
     ELSE list' \in {[of |-> l.of, rows |-> rows] : rows \in l.seen} /\ status' = "ready"
  /\ UNCHANGED <<table, scope, token, form, openings, target, sent, behind>>

OnListError(l) ==
  /\ loads' = loads \ {l}
  /\ status' = IF Cancelled(l) THEN status ELSE "error"
  /\ UNCHANGED <<table, scope, list, token, form, openings, target, sent, behind>>

\* reload: the one way a list is asked for again in the same scope.
Reload == Fetch(scope) /\ status' = "loading"

Empty == \A c \in Categories : list.rows[c] = Gone

\* "Bandyti dar kartą"
Retry ==
  /\ status = "error" /\ Empty
  /\ Reload
  /\ UNCHANGED <<table, scope, list, form, openings, target, sent, behind>>

\* openCreate (c = 0) and openEdit
OpenForm(c) ==
  /\ openings < MaxOpenings
  /\ c # 0 => list.rows[c] # Gone
  /\ form' = [category |-> c, opening |-> openings + 1]
  /\ openings' = openings + 1
  /\ UNCHANGED <<table, scope, list, status, token, loads, target, sent, behind>>

CancelForm ==
  /\ form # Closed /\ ~Busy("save")
  /\ form' = Closed
  /\ UNCHANGED <<table, scope, list, status, token, loads, openings, target, sent, behind>>

\* A request names the scope of the panel; "of" is the scope its category was listed in.
Request(op, what) ==
  [op |-> op, what |-> what, scope |-> scope, of |-> list.of, here |-> TRUE, at |-> "sent"]

Submit ==
  /\ form # Closed /\ ~Busy("save")
  /\ sent' = sent \union {Request("save", form)}
  /\ UNCHANGED <<table, scope, list, status, token, loads, form, openings, target, behind>>

AskDelete(c) ==
  /\ list.rows[c] # Gone
  /\ target' = c
  /\ UNCHANGED <<table, scope, list, status, token, loads, form, openings, sent, behind>>

DialogListens == target # 0 /\ ~Busy("delete")

Dismiss ==
  /\ DialogListens
  /\ target' = 0
  /\ UNCHANGED <<table, scope, list, status, token, loads, form, openings, sent, behind>>

Confirm ==
  /\ DialogListens
  /\ sent' = sent \union {Request("delete", [Closed EXCEPT !.category = target])}
  /\ UNCHANGED <<table, scope, list, status, token, loads, form, openings, target, behind>>

\* The server looks a category up in the scope of the path, so one of the other scope is
\* not found; a second category with the slug of the form is refused.
Places(s) ==
  IF s.what.category = 0
  THEN {c \in Categories : table[s.scope][c] = Gone
                           /\ \A d \in Categories : table[s.scope][d] # s.what.opening}
  ELSE {c \in {s.what.category} : s.of = s.scope /\ table[s.scope][c] # Gone}

CarryOut(s) ==
  /\ s.at = "sent"
  /\ \E c \in Places(s) :
       table' = [table EXCEPT ![s.scope][c] = IF s.op = "delete" THEN Gone ELSE s.what.opening]
  /\ sent' = (sent \ {s}) \union {[s EXCEPT !.at = "done"]}
  /\ UNCHANGED <<scope, list, status, token, loads, form, openings, target, behind>>

\* The request is refused, or it or its answer is lost: the panel shows an error.
GoWrong(s) ==
  /\ sent' = sent \ {s}
  /\ behind' = (behind \/ s.at = "done")
  /\ UNCHANGED <<table, scope, list, status, token, loads, form, openings, target>>

\* The handler goes on after its answer: the panel closes form or dialog if it is still
\* there, and the page fetches the list of the scope it shows now.
OnDone(s) ==
  /\ s.at = "done"
  /\ form'   = IF s.op = "save" /\ s.here THEN Closed ELSE form
  /\ target' = IF s.op = "delete" /\ s.here THEN 0 ELSE target
  /\ Reload
  /\ sent' = sent \ {s}
  /\ UNCHANGED <<table, scope, list, openings, behind>>

\* The other tab: the panel is mounted anew, the page's list and its status stay.
Switch ==
  /\ scope' \in Scopes \ {scope}
  /\ Fetch(scope')
  /\ form' = Closed /\ target' = 0
  /\ sent' = {[s EXCEPT !.here = FALSE] : s \in sent}
  /\ UNCHANGED <<table, list, status, openings, behind>>

OnLoad(l)  == ReadList(l) \/ OnList(l) \/ OnListError(l)
OnReply(s) == CarryOut(s) \/ GoWrong(s) \/ OnDone(s)

Next ==
  \/ \E l \in loads : OnLoad(l)
  \/ \E s \in sent : OnReply(s)
  \/ \E c \in Categories : AskDelete(c) \/ OpenForm(c)
  \/ OpenForm(0) \/ CancelForm \/ Submit \/ Retry \/ Dismiss \/ Confirm \/ Switch

-----------------------------------------------------------------------------
\* Once every request is answered, a list that says it is ready is the server's list of
\* the scope shown, unless the answer to something stored was lost.
ListCatchesUp ==
  (\A l \in loads : Cancelled(l)) /\ sent = {} /\ status = "ready" /\ ~behind =>
    list = [of |-> scope, rows |-> table[scope]]

\* While a delete of the panel shown is in flight a dialog is open, and no second one is sent.
DeletesTakeTurns ==
  \A s \in sent : s.op = "delete" /\ s.here =>
    target # 0 /\ \A t \in sent : t.op = "delete" /\ t.here => t = s
=============================================================================
