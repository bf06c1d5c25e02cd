--------------------------- MODULE ContactsScreen ---------------------------
(***************************************************************************)
(* The administrator's page of cities, stores and contact groups.  All     *)
(* three lists are fetched together, once when the page opens and again    *)
(* after every change; the fetches that follow a change are not ordered,   *)
(* and each is awaited by the handler that made the change.                *)
(*                                                                         *)
(* A list is known by the number of changes made to it.  A section is      *)
(* mounted when its tab is chosen, and its handlers run on after it is     *)
(* gone.  Two stores and one contact group stand for those in the lists.   *)
(***************************************************************************)
EXTENDS Naturals, FiniteSets

CONSTANTS
  MaxChanges, \* bound: changes made or on their way
  MaxMounts   \* bound: how often a section or the form of a store is mounted, plus 1

\* Whoever instantiates the module assumes this of the constants.
MountsArePositive == MaxMounts \in Nat \ {0}

VARIABLES
  table,    \* the number of changes to each list, on the server
  shown,    \* the lists shown, each by that number
  status,   \* "loading", "ready", "error"
  tab,      \* the section shown
  mount,    \* the mounting of that section
  mounts,   \* mountings counted so far
  form,     \* the store's form: its mounting and what it is for, or Closed
  dialog,   \* pendingDelete is set in the section shown
  jobs,     \* handlers under way, each at its next step
  made,     \* history: for each mounting of the form, the stores it made
  mislaid,  \* history: the mountings of a form for a new store that were shown an error
  crossed   \* history: two fetches were under way at once, or one failed after a change

vars == <<table, shown, status, tab, mount, mounts, form, dialog, jobs, made, mislaid, crossed>>

Tabs   == {"cities", "stores", "groups"}
Mounts == 0..MaxMounts
Closed == [mount |-> 0, for |-> "none"]
Unread == [t \in Tabs |-> 0]

\* What each handler does, the tab it belongs to, and the list it changes.
Ops == {"add city", "remove city", "add store", "change store", "remove store", "save group"}
Changes(op) ==
  CASE op \in {"add city", "remove city"} -> "cities"
    [] op \in {"add store", "change store", "remove store"} -> "stores"
    [] op = "save group" -> "groups"

Init ==
  /\ table = Unread /\ shown = table /\ status = "loading"
  /\ tab = "cities" /\ mount = 1 /\ mounts = 1 /\ form = Closed /\ dialog = FALSE
  /\ jobs = {} /\ made = [m \in Mounts |-> 0] /\ mislaid = {} /\ crossed = FALSE

\* The first fetch: nothing else happens before it is answered, and it is not repeated.
Opened ==
  /\ status = "loading"
  /\ status' \in {"ready", "error"}
  /\ UNCHANGED <<table, shown, tab, mount, mounts, form, dialog, jobs, made, mislaid, crossed>>

\* A component's busy flag: set when its handler starts, cleared when the handler ends.
Busy(m) == \E j \in jobs : j.by = m

\* Handler op of component m, in the section now mounted.
Start(op, m) ==
  /\ table.cities + table.stores + table.groups
       + Cardinality({j \in jobs : j.at = "asked"}) < MaxChanges
  /\ jobs' = jobs \union
       {[op |-> op, by |-> m, in |-> mount, at |-> "asked", left |-> {}, saw |-> Unread]}

Fetching(j) == j.at = "fetching"

\* The sections take input, also behind an open dialog.
Offers(t) == status = "ready" /\ tab = t

\* CitiesSection.create; the section's one flag covers its form and its dialog.
AddCity ==
  /\ Offers("cities") /\ ~Busy(mount)
  /\ Start("add city", mount)
  /\ UNCHANGED <<table, shown, status, tab, mount, mounts, form, dialog, made, mislaid, crossed>>

\* GroupCard.submit
SaveGroup ==
  /\ Offers("groups") /\ ~Busy(mount)
  /\ Start("save group", mount)
  /\ UNCHANGED <<table, shown, status, tab, mount, mounts, form, dialog, made, mislaid, crossed>>

\* "Pridėti parduotuvę", which an open form hides, and "Redaguoti": the form of another
\* store is another component.
OpenForm(for) ==
  /\ Offers("stores") /\ mounts < MaxMounts /\ form.for # for
  /\ for = "new" => form = Closed
  /\ form' = [mount |-> mounts + 1, for |-> for]
  /\ mounts' = mounts + 1
  /\ UNCHANGED <<table, shown, status, tab, mount, dialog, jobs, made, mislaid, crossed>>

\* "Atšaukti" is there when a store is edited, also while it is being saved.
CancelForm ==
  /\ Offers("stores") /\ form.for \in {"s1", "s2"}
  /\ form' = Closed
  /\ UNCHANGED <<table, shown, status, tab, mount, mounts, dialog, jobs, made, mislaid, crossed>>

\* The submit button of the form.
MaySubmit == ~Busy(form.mount)

\* StoreForm.submit
SubmitStore ==
  /\ Offers("stores") /\ form # Closed /\ MaySubmit
  /\ Start(IF form.for = "new" THEN "add store" ELSE "change store", form.mount)
  /\ UNCHANGED <<table, shown, status, tab, mount, mounts, form, dialog, made, mislaid, crossed>>

\* "Ištrinti" of a row, in the section of cities and in that of stores.
AskRemove ==
  /\ Offers("cities") \/ Offers("stores")
  /\ dialog' = TRUE
  /\ UNCHANGED <<table, shown, status, tab, mount, mounts, form, jobs, made, mislaid, crossed>>

DialogListens == dialog /\ ~Busy(mount)

Dismiss ==
  /\ DialogListens
  /\ dialog' = FALSE
  /\ UNCHANGED <<table, shown, status, tab, mount, mounts, form, jobs, made, mislaid, crossed>>

Remove ==
  /\ DialogListens
  /\ Start(IF tab = "cities" THEN "remove city" ELSE "remove store", mount)
  /\ UNCHANGED <<table, shown, status, tab, mount, mounts, form, dialog, made, mislaid, crossed>>

Choose(t) ==
  /\ status = "ready" /\ t # tab /\ mounts < MaxMounts
  /\ tab' = t
  /\ mount' = mounts + 1 /\ mounts' = mounts + 1
  /\ form' = Closed /\ dialog' = FALSE
  /\ UNCHANGED <<table, shown, status, jobs, made, mislaid, crossed>>

Advance(j, to) == (jobs \ {j}) \union {to}

\* A handler that waits for the lists still left, with those that it saw.
Awaiting(j, left, saw) ==
  [op |-> j.op, by |-> j.by, in |-> j.in, at |-> "fetching", left |-> left, saw |-> saw]

\* The server makes the change.
Change(j) ==
  /\ j.at = "asked"
  /\ table' = [table EXCEPT ![Changes(j.op)] = @ + 1]
  /\ made'  = [made EXCEPT ![j.by] = IF j.op = "add store" THEN @ + 1 ELSE @]
  /\ jobs'  = Advance(j, [j EXCEPT !.at = "changed"])
  /\ UNCHANGED <<shown, status, tab, mount, mounts, form, dialog, mislaid, crossed>>

\* The answer to the change: a removal closes its dialog, and the three lists are asked for.
Refresh(j) ==
  /\ j.at = "changed"
  /\ dialog' = (dialog /\ ~(j.op \in {"remove city", "remove store"} /\ j.in = mount))
  /\ crossed' = \E i \in jobs : Fetching(i)
  /\ jobs' = Advance(j, Awaiting(j, Tabs, j.saw))
  /\ UNCHANGED <<table, shown, status, tab, mount, mounts, form, made, mislaid>>

\* Each list is read by a request of its own.
Serve(j, t) ==
  /\ Fetching(j) /\ t \in j.left
  /\ jobs' = Advance(j, Awaiting(j, j.left \ {t}, [j.saw EXCEPT ![t] = table[t]]))
  /\ UNCHANGED <<table, shown, status, tab, mount, mounts, form, dialog, made, mislaid, crossed>>

\* All three have arrived: the page shows them, and the store's form reports to its section
\* that it is done, which closes whichever form is open there.
Finish(j) ==
  /\ Fetching(j) /\ j.left = {}
  /\ shown' = j.saw
  /\ form'  = IF j.op \in {"add store", "change store"} /\ j.in = mount THEN Closed ELSE form
  /\ jobs'  = jobs \ {j}
  /\ UNCHANGED <<table, status, tab, mount, mounts, dialog, made, mislaid, crossed>>

\* The change is refused, or one of the requests or answers is lost: the component shows an
\* error and can be used again.
GoWrong(j) ==
  /\ jobs' = jobs \ {j}
  /\ mislaid' = mislaid \union {m \in {j.by} : j.op = "add store"}
  /\ crossed' = (crossed \/ j.at # "asked")
  /\ UNCHANGED <<table, shown, status, tab, mount, mounts, form, dialog, made>>

OnJob(j) ==
  Change(j) \/ Refresh(j) \/ Finish(j) \/ GoWrong(j) \/ \E t \in Tabs : Serve(j, t)

Next ==
  \/ \E j \in jobs : OnJob(j)
  \/ \E t \in Tabs : Choose(t)
  \/ \E for \in {"new", "s1", "s2"} : OpenForm(for)
  \/ Opened \/ AddCity \/ SaveGroup \/ CancelForm \/ SubmitStore \/ AskRemove \/ Dismiss \/ Remove

-----------------------------------------------------------------------------
\* Once no handler runs, the lists shown are the server's, unless two fetches crossed or a
\* change was made whose lists never arrived.
ListsCatchUp == status = "ready" /\ jobs = {} /\ ~crossed => shown = table

\* While a removal of the section shown is in flight its dialog is open, and no second one is
\* sent.
DeletesTakeTurns ==
  LET removals == {j \in jobs : /\ j.op \in {"remove city", "remove store"} /\ j.at = "asked"
                                /\ j.in = mount}
  IN  \A j \in removals : dialog /\ removals = {j}

\* A form that adds a store adds one, unless it was shown an error.
AddedOnce == \A m \in Mounts \ mislaid : made[m] <= 1
=============================================================================
