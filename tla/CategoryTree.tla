---------------------------- MODULE CategoryTree ----------------------------
(***************************************************************************)
(* Categories of the two product areas, the products that refer to them,   *)
(* and the checks that the administration API makes before it writes.      *)
(* CategoriesService, and the category side of CatalogProductsService and  *)
(* ShopProductsService.                                                    *)
(*                                                                         *)
(* Every check is a statement outside a transaction: what it read may be   *)
(* different when the write runs.  Only foreign keys hold at the write.    *)
(***************************************************************************)
EXTENDS Naturals

CONSTANTS
  Categories,  \* categories.id, numbered in order of creation: a bound
  Products,    \* ids of catalog_products and shop_products, in order of creation: a bound
  Requests,    \* requests the API serves at the same time
  MaxDepth,    \* how many ancestors assertNoCycle looks at
  None         \* absent

ASSUME IdsAreNumbers == Categories \subseteq Nat /\ Products \subseteq Nat
ASSUME NoneIsNoId == None \notin Categories \cup Products
ASSUME DepthIsNumber == MaxDepth \in Nat

VARIABLES
  category,  \* categories
  product,   \* catalog_products and shop_products: the area and the category
  req,       \* the local state of each request between two awaits
  (* history, read by no guard *)
  raced,     \* re-parentings were written whose walk another one had overtaken
  tooDeep    \* re-parentings were written whose walk ended at MaxDepth

vars == <<category, product, req, raced, tooDeep>>

Scopes   == {"CATALOG", "SHOP"}
ASSUME NoneIsNoScope == None \notin Scopes \cup {"gone"}

Unused   == [scope |-> None, parent |-> None]
Gone     == [scope |-> "gone", parent |-> None]
Category == [scope : Scopes, parent : Categories \cup {None}]
NoRow    == [scope |-> None, category |-> None]
Product  == [scope : Scopes, category : Categories]
Idle     == [at |-> "idle"]
Request  == [at : {"create", "insert", "parent", "write", "count", "drop", "move"},
             scope : Scopes, id : Categories \cup Products \cup {None},
             to : Categories \cup {None}]
Walk     == [at : {"walk"}, scope : Scopes, id : Categories, to : Categories,
             current : Categories \cup {None}, depth : 0..MaxDepth, overtaken : BOOLEAN]
Set      == [at : {"set"}, scope : Scopes, id : Categories, to : Categories,
             deep : BOOLEAN, overtaken : BOOLEAN]

\* Every variable has its type.
TypeOK ==
  /\ category \in [Categories -> Category \cup {Unused, Gone}]
  /\ product \in [Products -> Product \cup {NoRow}]
  /\ req \in [Requests -> {Idle} \cup Request \cup Walk \cup Set]
  /\ raced \in BOOLEAN /\ tooDeep \in BOOLEAN

Init ==
  /\ category = [c \in Categories |-> Unused]
  /\ product = [x \in Products |-> NoRow]
  /\ req = [p \in Requests |-> Idle]
  /\ raced = FALSE /\ tooDeep = FALSE

Exists(c)   == category[c].scope \in Scopes
NewId(c)    == category[c] = Unused /\ \A d \in Categories : d < c => category[d] # Unused
Children(c) == {d \in Categories : Exists(d) /\ category[d].parent = c}
Uses(c)     == {x \in Products : product[x].category = c}

Put(p, work) == req' = [req EXCEPT ![p] = work]

\* ON DELETE RESTRICT.
RestrictsDelete(c) == Children(c) # {} \/ Uses(c) # {}

-----------------------------------------------------------------------------
(* Creating and deleting a category.                                         *)

\* assertParent, assertCatalogCategory and assertShopCategory.
Fits(c, scope) == category[c].scope = scope

\* create: a parent is looked up first.
BeginCreate(p, scope, parent) ==
  /\ req[p] = Idle
  /\ parent # None => Fits(parent, scope)
  /\ Put(p, [at |-> "create", scope |-> scope, id |-> None, to |-> parent])
  /\ UNCHANGED <<category, product, raced, tooDeep>>

\* create: the insert, refused by the foreign key if the parent is gone.
Create(p, c) ==
  /\ req[p].at = "create"
  /\ NewId(c)
  /\ req[p].to # None => Exists(req[p].to)
  /\ category' = [category EXCEPT ![c] = [scope |-> req[p].scope, parent |-> req[p].to]]
  /\ Put(p, Idle)
  /\ UNCHANGED <<product, raced, tooDeep>>

\* delete: findFirst({ id, scope }).
BeginDelete(p, c) ==
  /\ req[p] = Idle /\ Exists(c)
  /\ Put(p, [at |-> "count", scope |-> category[c].scope, id |-> c, to |-> None])
  /\ UNCHANGED <<category, product, raced, tooDeep>>

\* delete: the counts; products or children are a 409.
CountUses(p) ==
  /\ req[p].at = "count"
  /\ Put(p, IF Uses(req[p].id) # {} \/ Children(req[p].id) # {} THEN Idle
            ELSE [req[p] EXCEPT !.at = "drop"])
  /\ UNCHANGED <<category, product, raced, tooDeep>>

\* delete: the statement, which the foreign keys may still refuse.
Delete(p) ==
  /\ req[p].at = "drop"
  /\ Exists(req[p].id) /\ ~RestrictsDelete(req[p].id)
  /\ category' = [category EXCEPT ![req[p].id] = Gone]
  /\ Put(p, Idle)
  /\ UNCHANGED <<product, raced, tooDeep>>

-----------------------------------------------------------------------------
(* Moving a category below another.                                          *)

Finds_AnyScope(c, scope) == Exists(c)

\* update: findFirst({ id, scope }), and never below itself.
Finds(c, scope) == Fits(c, scope)

BeginMove(p, c, scope, parent) ==
  /\ req[p] = Idle
  /\ Finds(c, scope) /\ parent # c
  /\ Put(p, [at |-> "parent", scope |-> scope, id |-> c, to |-> parent])
  /\ UNCHANGED <<category, product, raced, tooDeep>>

\* update with parentId null: nothing to check.
Detach(p, c) ==
  /\ req[p] = Idle /\ Exists(c)
  /\ Put(p, [at |-> "write", scope |-> category[c].scope, id |-> c, to |-> None])
  /\ UNCHANGED <<category, product, raced, tooDeep>>

\* assertParent.
CheckParent(p) ==
  /\ req[p].at = "parent"
  /\ Put(p, IF Fits(req[p].to, req[p].scope)
            THEN [at |-> "walk", scope |-> req[p].scope, id |-> req[p].id, to |-> req[p].to,
                  current |-> req[p].to, depth |-> 0, overtaken |-> FALSE]
            ELSE Idle)
  /\ UNCHANGED <<category, product, raced, tooDeep>>

ParentOf(c) == IF Exists(c) THEN category[c].parent ELSE None

WalkOver_NoLimit(w)    == w.current = None
WalkOver_ParentOnly(w) == w.depth = 1

\* The loop of assertNoCycle ends.
WalkOver(w) == w.depth = MaxDepth \/ w.current = None

\* assertNoCycle: one ancestor per statement; the category itself is a 400.
WalkUp(p) ==
  /\ req[p].at = "walk"
  /\ Put(p, IF WalkOver(req[p])
            THEN [at |-> "set", scope |-> req[p].scope, id |-> req[p].id, to |-> req[p].to,
                  deep |-> req[p].depth = MaxDepth /\ req[p].current # None,
                   overtaken |-> req[p].overtaken]
            ELSE IF req[p].current = req[p].id THEN Idle
            ELSE [req[p] EXCEPT !.current = ParentOf(req[p].current), !.depth = @ + 1])
  /\ UNCHANGED <<category, product, raced, tooDeep>>

\* A write of c's parent overtakes the walks under way.
Overtake(p, q) ==
  IF q = p THEN Idle
  ELSE IF req[q].at \in {"walk", "set"} THEN [req[q] EXCEPT !.overtaken = TRUE] ELSE req[q]

\* update: the statement by id; the parent's foreign key holds.
Move(p) ==
  /\ req[p].at \in {"set", "write"}
  /\ Exists(req[p].id)
  /\ req[p].to # None => Exists(req[p].to)
  /\ category' = [category EXCEPT ![req[p].id].parent = req[p].to]
  /\ req' = [q \in Requests |-> Overtake(p, q)]
  /\ raced' = (raced \/ (req[p].at = "set" /\ req[p].overtaken))
  /\ tooDeep' = (tooDeep \/ (req[p].at = "set" /\ req[p].deep))
  /\ UNCHANGED product

-----------------------------------------------------------------------------
(* Products.                                                                 *)

\* create of either products service: the category is looked up, then the row inserted.
BeginInsert(p, scope, c) ==
  /\ req[p] = Idle /\ Fits(c, scope)
  /\ Put(p, [at |-> "insert", scope |-> scope, id |-> None, to |-> c])
  /\ UNCHANGED <<category, product, raced, tooDeep>>

Insert(p, x) ==
  /\ req[p].at = "insert"
  /\ product[x] = NoRow /\ \A y \in Products : y < x => product[y] # NoRow
  /\ Exists(req[p].to)
  /\ product' = [product EXCEPT ![x] = [scope |-> req[p].scope, category |-> req[p].to]]
  /\ Put(p, Idle)
  /\ UNCHANGED <<category, raced, tooDeep>>

\* update of either products service, when it names a category.
BeginReassign(p, x, c) ==
  /\ req[p] = Idle /\ product[x] # NoRow /\ Fits(c, product[x].scope)
  /\ Put(p, [at |-> "move", scope |-> product[x].scope, id |-> x, to |-> c])
  /\ UNCHANGED <<category, product, raced, tooDeep>>

Reassign(p) ==
  /\ req[p].at = "move"
  /\ product[req[p].id] # NoRow /\ Exists(req[p].to)
  /\ product' = [product EXCEPT ![req[p].id].category = req[p].to]
  /\ Put(p, Idle)
  /\ UNCHANGED <<category, raced, tooDeep>>

\* delete of either products service.  The id may be used again here; no request
\* refers to a product that is gone, save Reassign, which then fails.
DeleteProduct(x) ==
  /\ product[x] # NoRow
  /\ \A p \in Requests : ~(req[p].at = "move" /\ req[p].id = x)
  /\ product' = [product EXCEPT ![x] = NoRow]
  /\ UNCHANGED <<category, req, raced, tooDeep>>

\* A request fails (foreign key, missing row, unique slug) or dies between two statements.
Fail(p) ==
  /\ req[p] # Idle
  /\ Put(p, Idle)
  /\ UNCHANGED <<category, product, raced, tooDeep>>

Next ==
  \/ \E p \in Requests, s \in Scopes, c \in Categories \cup {None} : BeginCreate(p, s, c)
  \/ \E p \in Requests, c \in Categories : Create(p, c) \/ BeginDelete(p, c) \/ Detach(p, c)
  \/ \E p \in Requests, c, d \in Categories, s \in Scopes : BeginMove(p, c, s, d)
  \/ \E p \in Requests, s \in Scopes, c \in Categories : BeginInsert(p, s, c)
  \/ \E p \in Requests, x \in Products : Insert(p, x)
  \/ \E p \in Requests, x \in Products, c \in Categories : BeginReassign(p, x, c)
  \/ \E p \in Requests : CountUses(p) \/ Delete(p) \/ CheckParent(p) \/ WalkUp(p) \/ Move(p)
  \/ \E p \in Requests : Reassign(p) \/ Fail(p)
  \/ \E x \in Products : DeleteProduct(x)

Spec == Init /\ [][Next]_vars

-----------------------------------------------------------------------------
(* Properties                                                                *)

IsChild(c, d) == Exists(c) /\ category[c].parent = d

\* Some category is its own ancestor: a set none of whose members has a parent outside it.
HasCycle ==
  \E S \in SUBSET Categories :
    S # {} /\ \A c \in S : \E d \in S : IsChild(c, d)

\* "Category hierarchy cannot contain a cycle": there is one only after a re-parenting was
\* written although another overtook its walk, or although its walk gave up at MaxDepth.
CycleNeedsRace == HasCycle => raced \/ tooDeep

\* "Catalogue and e-shop categories can never be mixed", and nothing is orphaned: every
\* parent and every product's category exists and is of the same area, whatever is deleted
\* between a check and its write.
ReferencesIntact ==
  /\ \A c \in Categories : Exists(c) /\ category[c].parent # None =>
       category[category[c].parent].scope = category[c].scope
  /\ \A x \in Products : product[x] # NoRow =>
       category[product[x].category].scope = product[x].scope
=============================================================================
