---------------------------- MODULE ProductsPanel ----------------------------
(***************************************************************************)
(* The administrator's product screen: the list of one scope, the form     *)
(* that creates or edits a product, the picture and tag requests that fill *)
(* the form while it is open, the delete dialog, and the tabs that switch  *)
(* the scope.                                                              *)
(*                                                                         *)
(* A row of the table is known by the opening of the form it was last      *)
(* saved in.  Openings are numbered from 2; what the table holds at the    *)
(* start counts as opening 1, and 0 is a product that is not there.        *)
(* One administrator works; the requests are answered by the endpoints of  *)
(* CatalogTags, ShopProducts and the catalogue, whose own rules are        *)
(* modelled there: here a request is carried out, refused or lost.         *)
(*                                                                         *)
(* ConfirmDialog does not keep the page behind it from taking input: while *)
(* it is busy both its buttons are disabled, and Tab leaves it.            *)
(***************************************************************************)
EXTENDS Naturals, FiniteSets

CONSTANTS
  Products,     \* product ids, per scope
  PageSize,     \* PAGE_SIZE: rows of the one page that is fetched
  MaxOpenings,  \* bound: how often a form is opened, plus 1
  MaxLoads      \* bound: how often the list is fetched

\* Whoever instantiates the module assumes this of the constants.
ProductsAreIds == Products \subseteq Nat \ {0}

VARIABLES
  table,     \* the products of each scope, on the server
  scope,     \* the tab shown
  items,     \* the list shown
  status,    \* "loading", "ready", "error"
  token,     \* the run of the list effect whose answer counts
  loads,     \* list requests in flight
  form,      \* the form while it is open (opening one fills it anew), else Blank
  openings,  \* how many openings have been numbered
  target,    \* confirmTarget: the product the dialog asks about, 0 for none
  sent,      \* saves, deletes, uploads and new tags in flight
  behind     \* history: something was stored that this list will not hear of

vars == <<table, scope, items, status, token, loads, form, openings, target, sent, behind>>

Kinds  == {"picture", "tag"}
Scopes == {"CATALOG", "SHOP"}
Gone   == 0
Unread == [p \in Products |-> Gone]

\* What the list shows of a scope: its first page (the ids stand for the order of the list).
FirstPage(rows) ==
  [p \in Products |->
     IF Cardinality({q \in Products : q < p /\ rows[q] # Gone}) < PageSize THEN rows[p] ELSE Gone]

\* A form holds a picture or not yet; "stray" says that something it holds was obtained
\* in another opening, "clean" that no upload and no new tag was on its way when it was
\* opened.
Blank == [product |-> 0, opening |-> 0, picture |-> FALSE, stray |-> FALSE, clean |-> TRUE]

Init ==
  /\ table \in [Scopes -> [Products -> {Gone, 1}]]
  /\ scope = "CATALOG" /\ items = Unread /\ status = "loading"
  /\ token = 1 /\ loads = {[token |-> 1, scope |-> scope, seen |-> {}]}
  /\ form = Blank /\ openings = 1 /\ target = 0 /\ sent = {} /\ behind = FALSE

\* The flags saving, deleting, uploading and tagBusy: each is set when its request
\* leaves and cleared in the "finally" of the same handler.
Busy(op) == \E s \in sent : s.op = op /\ s.here

\* The effect that fetches the list: it runs when the component mounts and when the
\* reload token or the scope changes, and cancels its previous run.
Fetch(sc) ==
  /\ token < MaxLoads
  /\ token' = token + 1
  /\ loads' = loads \union {[token |-> token + 1, scope |-> sc, seen |-> {}]}
  /\ status' = "loading"

Cancelled(l) == l.token # token

ReadList(l) ==
  /\ l.seen = {}
  /\ loads' = (loads \ {l}) \union {[l EXCEPT !.seen = {FirstPage(table[l.scope])}]}
  /\ behind' = (behind /\ Cancelled(l))
  /\ UNCHANGED <<table, scope, items, status, token, form, openings, target, sent>>

OnList(l) ==
  /\ l.seen # {}
  /\ loads' = loads \ {l}
  /\ IF Cancelled(l)
     THEN UNCHANGED <<items, status>>
     ELSE items' \in l.seen /\ status' = "ready"
  /\ UNCHANGED <<table, scope, token, form, openings, target, sent, behind>>

OnListError(l) ==
  /\ loads' = loads \ {l}
  /\ status' = IF Cancelled(l) THEN status ELSE "error"
  /\ UNCHANGED <<table, scope, items, token, form, openings, target, sent, behind>>

\* "Bandyti dar kartą": only over an empty list that failed to load.
Retry ==
  /\ status = "error" /\ items = Unread
  /\ Fetch(scope)
  /\ UNCHANGED <<table, scope, items, form, openings, target, sent, behind>>

\* A slip of the pen: "Nauja prekė" does not empty the form that is open.
FreshForm_NotEmptied(p) ==
  LET kept == p = 0 /\ form.picture
  IN  [product |-> p, opening |-> openings + 1, picture |-> p # 0 \/ kept, stray |-> kept,
       clean |-> ~Busy("picture") /\ ~Busy("tag")]

\* openCreate and openEdit: the form is filled anew, from nothing or from the row shown.
FreshForm(p) ==
  [product |-> p, opening |-> openings + 1, picture |-> p # 0, stray |-> FALSE,
   clean |-> ~Busy("picture") /\ ~Busy("tag")]

OpenForm(p) ==
  /\ openings < MaxOpenings
  /\ p # 0 => items[p] # Gone
  /\ form' = FreshForm(p)
  /\ openings' = openings + 1
  /\ UNCHANGED <<table, scope, items, status, token, loads, target, sent, behind>>

\* "Atšaukti" hides the form; it is disabled while a save is in flight.
CancelForm ==
  /\ form # Blank /\ ~Busy("save")
  /\ form' = Blank
  /\ UNCHANGED <<table, scope, items, status, token, loads, openings, target, sent, behind>>

Request(op, contents) == [op |-> op, form |-> contents, scope |-> scope, here |-> TRUE, at |-> "sent"]

\* The file input, the tag controls and the submit button are those of the open form.
FormOffers(op) == form # Blank /\ ~Busy(op)

\* onFileSelected: the picture is uploaded at once.
PickPicture ==
  /\ FormOffers("picture")
  /\ sent' = sent \union {Request("picture", [Blank EXCEPT !.opening = form.opening])}
  /\ UNCHANGED <<table, scope, items, status, token, loads, form, openings, target, behind>>

\* onAddTag: a tag typed into the catalogue's form is created at once.
AddTag ==
  /\ FormOffers("tag") /\ scope = "CATALOG"
  /\ sent' = sent \union {Request("tag", [Blank EXCEPT !.opening = form.opening])}
  /\ UNCHANGED <<table, scope, items, status, token, loads, form, openings, target, behind>>

\* The answer to an upload or a new tag goes into the form as it is now, whichever
\* opening it belongs to; an error leaves the form alone.
OnFilled(s) ==
  /\ s.op \in Kinds
  /\ sent' = sent \ {s}
  /\ \/ UNCHANGED form
     \/ /\ form # Blank
        /\ form' = [product |-> form.product, opening |-> form.opening, clean |-> form.clean,
                    picture |-> form.picture \/ s.op = "picture",
                    stray |-> form.stray \/ s.form.opening # form.opening]
  /\ UNCHANGED <<table, scope, items, status, token, loads, openings, target, behind>>

\* onSubmit: a new product needs an uploaded picture; the other required fields are
\* taken as filled in.
Submit ==
  /\ FormOffers("save")
  /\ form.product = 0 => form.picture
  /\ sent' = sent \union {Request("save", form)}
  /\ UNCHANGED <<table, scope, items, status, token, loads, form, openings, target, behind>>

\* The server's part of a save or a delete.  A second product with the slug of the form
\* is refused, and so is a product that is gone.
Places(s) ==
  IF s.form.product = 0
  THEN {p \in Products : table[s.scope][p] = Gone
                         /\ \A q \in Products : table[s.scope][q] # s.form.opening}
  ELSE {s.form.product} \ {p \in Products : table[s.scope][p] = Gone}

Answered(s, at) == (sent \ {s}) \union {[s EXCEPT !.at = at]}

CarryOut(s) ==
  /\ s.op \in {"save", "delete"} /\ s.at = "sent"
  /\ \E p \in Places(s) : table' = [table EXCEPT ![s.scope][p] = s.form.opening]
  /\ sent' = IF s.here THEN Answered(s, "done") ELSE sent \ {s}
  /\ behind' = (behind \/ (~s.here /\ s.scope = scope))
  /\ UNCHANGED <<scope, items, status, token, loads, form, openings, target>>

\* The request is refused, or it or its answer is lost: the page shows an error, and the
\* form or the dialog stays as it is.
GoWrong(s) ==
  /\ s.op \in {"save", "delete"}
  /\ sent' = sent \ {s}
  /\ behind' = (behind \/ s.at = "done")
  /\ UNCHANGED <<table, scope, items, status, token, loads, form, openings, target>>

\* A save that succeeded closes the form shown, whichever it is, and fetches the list.
OnSaved(s) ==
  /\ s.op = "save" /\ s.at = "done"
  /\ form' = Blank
  /\ Fetch(scope)
  /\ sent' = sent \ {s}
  /\ UNCHANGED <<table, scope, items, openings, target, behind>>

OnDeleted(s) ==
  /\ s.op = "delete" /\ s.at = "done"
  /\ target' = 0
  /\ Fetch(scope)
  /\ sent' = sent \ {s}
  /\ UNCHANGED <<table, scope, items, form, openings, behind>>

\* A row's bin, also that of another row while a dialog is open.
AskDelete(p) ==
  /\ items[p] # Gone
  /\ target' = p
  /\ UNCHANGED <<table, scope, items, status, token, loads, form, openings, sent, behind>>

\* ConfirmDialog takes neither an answer nor Escape, a click outside or "Atšaukti"
\* while a delete is in flight.
DialogListens == target # 0 /\ ~Busy("delete")

Dismiss ==
  /\ DialogListens
  /\ target' = 0
  /\ UNCHANGED <<table, scope, items, status, token, loads, form, openings, sent, behind>>

Confirm ==
  /\ DialogListens
  /\ sent' = sent \union {Request("delete", [Blank EXCEPT !.product = target])}
  /\ UNCHANGED <<table, scope, items, status, token, loads, form, openings, target, behind>>

\* The other tab: the panel's key changes, so it is mounted anew; of what the old one
\* had sent, only what the server still has to carry out matters.
Switch ==
  /\ scope' \in Scopes \ {scope}
  /\ Fetch(scope')
  /\ items' = Unread /\ form' = Blank /\ target' = 0
  /\ sent' = {[s EXCEPT !.here = FALSE] : s \in {t \in sent : t.op \notin Kinds /\ t.at = "sent"}}
  /\ UNCHANGED <<table, openings, behind>>

OnLoad(l)  == ReadList(l) \/ OnList(l) \/ OnListError(l)
OnReply(s) == OnFilled(s) \/ CarryOut(s) \/ GoWrong(s) \/ OnSaved(s) \/ OnDeleted(s)

Next ==
  \/ \E l \in loads : OnLoad(l)
  \/ \E s \in sent : OnReply(s)
  \/ \E p \in Products : AskDelete(p) \/ OpenForm(p)
  \/ OpenForm(0) \/ CancelForm \/ PickPicture \/ AddTag \/ Submit
  \/ Retry \/ Dismiss \/ Confirm \/ Switch

-----------------------------------------------------------------------------
Quiet == (\A l \in loads : Cancelled(l)) /\ (\A s \in sent : s.op \in Kinds)

\* Once every request of the screen is answered, a list that says it is ready is the
\* first page of the server's list, unless something was stored whose answer was lost or came to a panel
\* no longer there.
ListCatchesUp == Quiet /\ status = "ready" /\ ~behind => items = FirstPage(table[scope])

\* While a delete of the panel shown is in flight a dialog is open, and no second one is sent.
DeletesTakeTurns ==
  \A s \in sent : s.op = "delete" /\ s.here =>
    target # 0 /\ \A t \in sent : t.op = "delete" /\ t.here => t = s

\* What is saved was picked in that opening of the form or was the product's before,
\* unless an upload or a new tag was already on its way when the form was opened.
SavedAsFilled == \A s \in sent : s.op = "save" /\ s.form.stray => ~s.form.clean
=============================================================================
