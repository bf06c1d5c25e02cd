---------------------------- MODULE AdminScreens ----------------------------
(***************************************************************************)
(* The administrator's four screens.  The administration area shows one of *)
(* them at a time and mounts it anew, so a behaviour is about one screen;  *)
(* variables of the same name stand for that screen's, and those it does   *)
(* not have stay unused.                                                   *)
(***************************************************************************)
EXTENDS Naturals

CONSTANTS
  ProductIds, CategoryIds, UserIds,  \* rows of the three tables
  PageSize,                          \* rows of a page
  Self,                              \* of UsersManager
  MaxOpenings, MaxLoads, MaxSent,    \* bounds of the first three screens
  MaxChanges, MaxMounts              \* bounds of ContactsScreen

VARIABLES
  part,
  table, scope, items, list, status, token, loads, form, openings, target, sent, behind,
  view, page, data, summary, pendingId, shared, turned,
  shown, tab, mount, mounts, dialog, jobs, made, mislaid, crossed

listVars    == <<table, status, token, loads, target, sent, behind>>
scopeVars   == <<scope, form, openings>>
userVars    == <<view, page, data, summary, pendingId, shared, turned>>
contactVars == <<shown, tab, mount, mounts, dialog, jobs, made, mislaid, crossed>>
screenVars  == <<part, listVars, scopeVars, items, list, userVars, contactVars>>

Products   == INSTANCE ProductsPanel WITH Products <- ProductIds
Categories == INSTANCE CategoriesPanel WITH Categories <- CategoryIds
Users      == INSTANCE UsersManager WITH Users <- UserIds
Contacts   == INSTANCE ContactsScreen

ASSUME IdsArePositive ==
  Products!ProductsAreIds /\ Categories!CategoriesAreIds /\ Users!UsersAreIds
ASSUME SectionIsMounted == Contacts!MountsArePositive

Unused(x) == x = "unused"
NoUsers    == Unused(view) /\ Unused(page) /\ Unused(data) /\ Unused(summary) /\ Unused(pendingId)
              /\ Unused(shared) /\ Unused(turned)
NoContacts == Unused(shown) /\ Unused(tab) /\ Unused(mount) /\ Unused(mounts) /\ Unused(dialog)
              /\ Unused(jobs) /\ Unused(made) /\ Unused(mislaid) /\ Unused(crossed)
NoScope    == Unused(scope) /\ Unused(openings)

ScreenInit ==
  \/ part = "products" /\ Products!Init /\ Unused(list) /\ NoUsers /\ NoContacts
  \/ part = "categories" /\ Categories!Init /\ Unused(items) /\ NoUsers /\ NoContacts
  \/ part = "users" /\ Users!Init /\ Unused(items) /\ Unused(list) /\ Unused(form) /\ NoScope
     /\ NoContacts
  \/ part = "contacts" /\ Contacts!Init /\ Unused(items) /\ Unused(list) /\ Unused(token)
     /\ Unused(loads) /\ Unused(target) /\ Unused(sent) /\ Unused(behind) /\ NoScope /\ NoUsers

ScreenNext ==
  \/ part = "products" /\ Products!Next /\ UNCHANGED <<part, list, userVars, contactVars>>
  \/ part = "categories" /\ Categories!Next /\ UNCHANGED <<part, items, userVars, contactVars>>
  \/ part = "users" /\ Users!Next /\ UNCHANGED <<part, scopeVars, items, list, contactVars>>
  \/ part = "contacts" /\ Contacts!Next
     /\ UNCHANGED <<part, items, list, token, loads, target, sent, behind, scope, openings,
                    userVars>>

ScreenSpec == ScreenInit /\ [][ScreenNext]_screenVars

-----------------------------------------------------------------------------
\* Every screen: once its requests are answered, what it calls ready is what the server has,
\* but for the answers each screen is known to lose (ListCatchesUp of ProductsPanel and
\* CategoriesPanel, ScreenCatchesUp of UsersManager, ListsCatchUp of ContactsScreen).
ScreensCatchUp ==
  /\ part = "products" => Products!ListCatchesUp
  /\ part = "categories" => Categories!ListCatchesUp
  /\ part = "users" => Users!ScreenCatchesUp
  /\ part = "contacts" => Contacts!ListsCatchUp

\* Every screen: while a deletion that it sent is in flight it sends no second one, whatever
\* else is pressed behind the dialog, and a dialog stays open; on the users' screen, whose busy
\* flag is one for all rows, it may be dismissed, and deletions take turns only as long as no
\* other row's request is in flight.
DeletesTakeTurns ==
  /\ part = "products" => Products!DeletesTakeTurns
  /\ part = "categories" => Categories!DeletesTakeTurns
  /\ part = "users" => Users!DeletesTakeTurns
  /\ part = "contacts" => Contacts!DeletesTakeTurns

\* The forms: a product is saved with the picture and the tags of its own form, and a form
\* that adds a store adds one, but for the answers these forms are known to mistake.
FormsSaveTheirOwn ==
  /\ part = "products" => Products!SavedAsFilled
  /\ part = "contacts" => Contacts!AddedOnce
=============================================================================
